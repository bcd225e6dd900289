------------------------------ MODULE DeskProofs -------------------------------
(***************************************************************************)
(* What is proved of the components around the catalog, which share no     *)
(* state: the elevated helper, reading through the gateway, the window and *)
(* its tasks, and the upgrade of an older catalog.  Each part states its   *)
(* inductive invariant first, a lemma for every action, and its theorem    *)
(* last.                                                                   *)
(***************************************************************************)
EXTENDS Helper, Gateway, Window, Migration, FiniteSetTheorems, SequenceTheorems, WellFoundedInduction, TLAPS

(* Induction over numbers, in the form the proofs below use it: a set of   *)
(* numbers that is not empty has a least one.                              *)
LEMMA LeastNumber == ASSUME NEW S \in SUBSET Nat, S # {} PROVE \E m \in S : \A n \in S : ~(n < m)
<1>1. PICK m \in S : \A n \in S : ~(<<n, m>> \in OpToRel(<, Nat))
  BY NatLessThanWellFounded, WFMin
<1> QED
  BY <1>1 DEF OpToRel

-----------------------------------------------------------------------------
(* The elevated helper: a result that its parent returns is complete, for  *)
(* volumes and pipes of any size and wherever the helper dies.             *)
(*                                                                         *)
(* The argument numbers the writes to the pipe: 2b + 1 is the header of    *)
(* buffer b + 1, or the terminator after the last buffer, and 2b + 2 is    *)
(* that buffer's payload.  The reader is always at one place in that       *)
(* stream, and what the pipe holds is what follows.                        *)
Item == [kind : {"end", "header", "payload"}, buffer : Nat]

Reasons == {NoReason, "eof", "cursor only", "denied", "broken", "malformed", "broken pipe",
            "protocol", "exited"}

Types ==
    /\ onVolume.buffers \in Nat
    /\ helper \in [at : {"reading", "header", "payload", "ending", "exiting", "gone"},
                   sent : Nat, code : {0, 4, 5}]
    /\ stdout \in Seq(Item)
    /\ parent \in [at : {"header", "payload", "wait", "waiting", "returned", "raised"},
                   error : {NoReason, "protocol"}, reason : Reasons]
    /\ collected \in Seq(Nat)
    /\ onVolume.ending \in {"eof", "cursor only", "denied", "broken"}
    /\ status \in Reasons

Reading == parent.at \in {"header", "payload"}

(* How many writes have been read, and how many were made. *)
Halfway == IF parent.at = "payload" THEN 1 ELSE 0
Taken == 2 * Len(collected) + Halfway
Written == Taken + Len(stdout)

Total == 2 * onVolume.buffers + 1

(* The write with number n to a stream of so many buffers. *)
IsWrite(item, n, buffers) ==
    \A b \in Nat :
        /\ n = 2 * b + 1 /\ b = buffers => item = Terminator
        /\ n = 2 * b + 1 /\ b # buffers => item = Header(b + 1)
        /\ n = 2 * b + 2 => item = Payload(b + 1)

(* Each write in the pipe is the one its number says. *)
InOrder == \A i \in 1 .. Len(stdout) : IsWrite(stdout[i], Taken + i, onVolume.buffers)

(* The terminator is written only after the data's end. *)
Bounded == Written <= Total /\ (Written = Total => onVolume.ending = "cursor only")

(* What the helper has written, as long as it goes on. *)
HelperAt ==
    /\ helper.sent <= onVolume.buffers
    /\ helper.at = "reading" => Written = 2 * helper.sent
    /\ helper.at = "header"  => Written = 2 * helper.sent /\ helper.sent < onVolume.buffers
    /\ helper.at = "payload" => Written = 2 * helper.sent + 1 /\ helper.sent < onVolume.buffers
    /\ helper.at = "ending"  => Written = 2 * helper.sent /\ helper.sent = onVolume.buffers
                                  /\ onVolume.ending = "cursor only"

Whole == Len(collected) = onVolume.buffers /\ onVolume.ending = "cursor only"

InPlace == \A i \in 1 .. Len(collected) : collected[i] = i

(* The strengthening: while the stream is read its numbering holds, and    *)
(* after the terminator everything has been collected.                     *)
HelperInv ==
    /\ Types
    /\ InPlace
    /\ Reading => InOrder /\ Bounded /\ HelperAt /\ parent.error = NoReason
    /\ parent.at \in {"wait", "waiting"} /\ parent.error = NoReason => Whole
    /\ parent.at = "returned" => Whole

-----------------------------------------------------------------------------
LEMMA Numbers ==
    ASSUME Types
    PROVE  /\ Taken \in Nat /\ Written \in Nat /\ Total \in Nat
           /\ Len(stdout) \in Nat /\ Len(collected) \in Nat /\ helper.sent \in Nat
           /\ parent.at = "payload" => Taken = 2 * Len(collected) + 1
           /\ parent.at # "payload" => Taken = 2 * Len(collected)
<1>1. /\ Len(stdout) \in Nat /\ Len(collected) \in Nat /\ helper.sent \in Nat
      /\ onVolume.buffers \in Nat
  <2>1. stdout \in Seq(Item) /\ collected \in Seq(Nat) /\ onVolume.buffers \in Nat
    BY DEF Types
  <2>2. helper.sent \in Nat
    BY DEF Types
  <2> QED
    BY <2>1, <2>2
<1>2. /\ parent.at = "payload" => Halfway = 1
      /\ parent.at # "payload" => Halfway = 0
  BY DEF Halfway
<1> QED
  BY <1>1, <1>2 DEF Taken, Written, Total

LEMMA InitHolds == HelperInit => HelperInv
<1> SUFFICES ASSUME HelperInit PROVE HelperInv  OBVIOUS
<1>1. onVolume \in Outcome(mode)
  BY DEF HelperInit
<1>2. /\ onVolume.buffers \in 0 .. (IF mode = "query" THEN 0 ELSE MaxBuffers)
  BY <1>1 DEF Outcome
<1>3. onVolume.buffers \in Nat /\ (mode = "query" => onVolume.buffers = 0)
  BY <1>2, HelperAssumption
<1>4. /\ stdout = <<>> /\ status = NoReason /\ collected = <<>>
      /\ parent = [at |-> "header", error |-> NoReason, reason |-> NoReason]
  BY DEF HelperInit
<1>5. PICK start \in {"ending", "reading"} :
         /\ helper = [at |-> start, sent |-> 0, code |-> 0]
         /\ start = "ending" => mode = "query" /\ onVolume.ending = "cursor only"
  <2>1. CASE mode = "query" /\ onVolume.ending = "cursor only"
    BY <2>1 DEF HelperInit
  <2>2. CASE ~(mode = "query" /\ onVolume.ending = "cursor only")
    BY <2>2 DEF HelperInit
  <2> QED
    BY <2>1, <2>2
<1>6. /\ helper.at = start /\ helper.sent = 0 /\ parent.at = "header" /\ parent.error = NoReason
      /\ Len(stdout) = 0 /\ Len(collected) = 0
  BY <1>4, <1>5
<1>7. Types
  <2>1. helper \in [at : {"reading", "header", "payload", "ending", "exiting", "gone"},
                    sent : Nat, code : {0, 4, 5}]
    BY <1>5
  <2>2. stdout \in Seq(Item) /\ collected \in Seq(Nat)
    BY <1>4
  <2>3. parent \in [at : {"header", "payload", "wait", "waiting", "returned", "raised"},
                    error : {NoReason, "protocol"}, reason : Reasons] /\ status \in Reasons
    BY <1>4 DEF Reasons
  <2>4. onVolume.ending \in {"eof", "cursor only", "denied", "broken"}
    BY <1>1 DEF Outcome, LastWord
  <2> QED
    BY <1>3, <2>1, <2>2, <2>3, <2>4 DEF Types
<1>8. Written = 0 /\ Total >= 1 /\ Total \in Nat
  BY <1>3, <1>6, <1>7, Numbers DEF Written, Total
<1>9. InOrder /\ Bounded
  <2>1. InOrder
    BY <1>6 DEF InOrder
  <2>2. Written <= Total /\ Written # Total
    BY <1>8
  <2> QED
    BY <2>1, <2>2 DEF Bounded
<1>10. HelperAt
  <2>1. start = "ending" => onVolume.buffers = 0 /\ onVolume.ending = "cursor only"
    BY <1>3, <1>5
  <2>2. helper.at \in {"ending", "reading"} /\ helper.sent <= onVolume.buffers
    BY <1>3, <1>6
  <2>3. Written = 2 * helper.sent
    BY <1>6, <1>8
  <2>4. helper.at = "ending" => helper.sent = onVolume.buffers /\ onVolume.ending = "cursor only"
    BY <1>6, <2>1
  <2> QED
    BY <2>2, <2>3, <2>4 DEF HelperAt
<1> QED
  BY <1>6, <1>7, <1>9, <1>10 DEF HelperInv, Reading, InPlace

LEMMA AppendItem ==
    ASSUME NEW s \in Seq(Item), NEW item \in Item PROVE Append(s, item) \in Seq(Item)
OBVIOUS

LEMMA TailItem ==
    ASSUME NEW s \in Seq(Item), s # <<>> PROVE Tail(s) \in Seq(Item) /\ Len(s) >= 1
OBVIOUS

(* A write that is the next of the stream keeps its order. *)
LEMMA PutInOrder ==
    ASSUME Types, InOrder, NEW item \in Item, Put(item), UNCHANGED <<parent, collected, onVolume>>,
           IsWrite(item, Written + 1, onVolume.buffers)
    PROVE  InOrder' /\ Written' = Written + 1 /\ Total' = Total /\ stdout' \in Seq(Item)
<1>1. /\ stdout \in Seq(Item) /\ Taken' = Taken /\ Total' = Total /\ stdout' = Append(stdout, item)
  BY DEF Types, Taken, Halfway, Total, Put
<1>2. /\ Len(stdout') = Len(stdout) + 1 /\ stdout' \in Seq(Item)
      /\ stdout'[Len(stdout) + 1] = item
      /\ \A i \in 1 .. Len(stdout) : stdout'[i] = stdout[i]
  BY <1>1
<1>3. ASSUME NEW i \in 1 .. Len(stdout')
      PROVE  IsWrite(stdout'[i], Taken + i, onVolume.buffers)
  <2>1. CASE i = Len(stdout) + 1
    <3>1. Taken + i = Written + 1
      BY <2>1, Numbers DEF Written
    <3> QED
      BY <1>2, <2>1, <3>1
  <2>2. CASE i # Len(stdout) + 1
    <3>1. i \in 1 .. Len(stdout)
      BY <1>2, <2>2, Numbers
    <3> QED
      BY <1>2, <3>1 DEF InOrder
  <2> QED
    BY <2>1, <2>2
<1>4. Written' = Written + 1
  BY <1>1, <1>2, Numbers DEF Written
<1> QED
  BY <1>1, <1>2, <1>3, <1>4 DEF InOrder

(* Reading one write moves the numbering on by one. *)
LEMMA TakeInOrder ==
    ASSUME Types, InOrder, stdout # <<>>, Take, UNCHANGED onVolume, Taken' = Taken + 1
    PROVE  InOrder' /\ Written' = Written /\ Total' = Total /\ stdout' \in Seq(Item)
           /\ IsWrite(Head(stdout), Taken + 1, onVolume.buffers)
<1>1. stdout \in Seq(Item) /\ stdout' = Tail(stdout) /\ Total' = Total
  BY DEF Types, Take, Total
<1>2. /\ Len(stdout) >= 1 /\ Len(stdout') = Len(stdout) - 1 /\ Head(stdout) = stdout[1]
      /\ stdout' \in Seq(Item)
      /\ \A i \in 1 .. Len(stdout') : stdout'[i] = stdout[i + 1]
  BY <1>1
<1>3. ASSUME NEW i \in 1 .. Len(stdout')
      PROVE  IsWrite(stdout'[i], Taken' + i, onVolume.buffers)
  <2>1. i + 1 \in 1 .. Len(stdout) /\ Taken' + i = Taken + (i + 1)
    BY <1>2, Numbers
  <2> QED
    BY <1>2, <2>1 DEF InOrder
<1>4. 1 \in 1 .. Len(stdout)
  BY <1>2, Numbers
<1>5. Written' = Written
  BY <1>2, Numbers DEF Written
<1> QED
  BY <1>1, <1>2, <1>3, <1>4, <1>5 DEF InOrder

(* What the helper writes when it has given so many writes already. *)
LEMMA NextWrites ==
    ASSUME NEW sent \in Nat, NEW buffers \in Nat
    PROVE  /\ sent < buffers => IsWrite(Header(sent + 1), 2 * sent + 1, buffers)
           /\ IsWrite(Payload(sent + 1), 2 * sent + 2, buffers)
           /\ sent = buffers => IsWrite(Terminator, 2 * sent + 1, buffers)
<1>1. ASSUME NEW b \in Nat
      PROVE  /\ 2 * sent + 1 = 2 * b + 1 => b = sent
             /\ 2 * sent + 2 = 2 * b + 2 => b = sent
             /\ 2 * sent + 1 # 2 * b + 2 /\ 2 * sent + 2 # 2 * b + 1
  OBVIOUS
<1>2. ASSUME sent < buffers PROVE IsWrite(Header(sent + 1), 2 * sent + 1, buffers)
  <2>1. sent # buffers
    BY <1>2
  <2> QED
    BY <1>1, <2>1, Zenon DEF IsWrite
<1>3. IsWrite(Payload(sent + 1), 2 * sent + 2, buffers)
  BY <1>1, Zenon DEF IsWrite
<1>4. ASSUME sent = buffers PROVE IsWrite(Terminator, 2 * sent + 1, buffers)
  BY <1>1, <1>4, Zenon DEF IsWrite
<1> QED
  BY <1>2, <1>3, <1>4

(* Every write of a stream is of one of the kinds, and the numbers say     *)
(* which.                                                                  *)
LEMMA WhichWrite ==
    ASSUME NEW item, NEW n \in Nat, NEW buffers \in Nat
    PROVE  /\ IsWrite(item, 2 * n + 1, buffers) /\ n = buffers => item = Terminator
           /\ IsWrite(item, 2 * n + 1, buffers) /\ n # buffers => item = Header(n + 1)
           /\ IsWrite(item, 2 * n + 2, buffers) => item = Payload(n + 1)
BY DEF IsWrite

-----------------------------------------------------------------------------
HelperType == [at : {"reading", "header", "payload", "ending", "exiting", "gone"},
               sent : Nat, code : {0, 4, 5}]

ParentType == [at : {"header", "payload", "wait", "waiting", "returned", "raised"},
               error : {NoReason, "protocol"}, reason : Reasons]

(* A step that touches neither the pipe nor the parent. *)
LEMMA Unread ==
    ASSUME HelperInv, UNCHANGED <<parent, collected, stdout, onVolume>>,
           helper' \in HelperType, status' \in Reasons, Reading => HelperAt'
    PROVE  HelperInv'
<1>1. Types'
  BY DEF HelperInv, Types, HelperType
<1>2. UNCHANGED <<Taken, Written, Total, Reading, Whole>>
  BY DEF Taken, Halfway, Written, Total, Reading, Whole
<1>3. InPlace' /\ (Reading => InOrder' /\ Bounded')
  BY <1>2 DEF HelperInv, InPlace, InOrder, Bounded
<1> QED
  BY <1>1, <1>2, <1>3 DEF HelperInv

LEMMA ReadVolumeHolds == HelperInv /\ ReadVolume => HelperInv'
<1> SUFFICES ASSUME HelperInv, ReadVolume PROVE HelperInv'  OBVIOUS
<1>1. /\ helper \in HelperType /\ status \in Reasons /\ helper.at = "reading"
      /\ UNCHANGED <<parent, collected, stdout, onVolume>>
  BY DEF HelperInv, Types, HelperType, ReadVolume
<1>2. onVolume.ending \in {"eof", "cursor only", "denied", "broken"} /\ onVolume.buffers \in Nat
  BY DEF HelperInv, Types
<1>3. UNCHANGED <<Written, Reading>>
  BY <1>1 DEF Taken, Halfway, Written, Reading
<1>4. Reading => helper.sent <= onVolume.buffers /\ Written = 2 * helper.sent
  BY <1>1 DEF HelperInv, HelperAt
<1>5. helper.sent \in Nat
  BY <1>1 DEF HelperType
<1>6. CASE helper.sent < onVolume.buffers
  <2>1. helper' = [helper EXCEPT !.at = "header"] /\ status' = status
    BY <1>6 DEF ReadVolume, HelperGoes
  <2>2. helper' \in HelperType /\ helper'.at = "header" /\ helper'.sent = helper.sent
    BY <1>1, <2>1 DEF HelperType
  <2>3. Reading => HelperAt'
    BY <1>1, <1>3, <1>4, <1>6, <2>2 DEF HelperAt
  <2> QED
    BY <1>1, <2>1, <2>2, <2>3, Unread
<1>7. CASE ~(helper.sent < onVolume.buffers) /\ onVolume.ending = "cursor only"
  <2>1. helper' = [helper EXCEPT !.at = "ending"] /\ status' = status
    BY <1>7 DEF ReadVolume, HelperGoes, EndsData
  <2>2. helper' \in HelperType /\ helper'.at = "ending" /\ helper'.sent = helper.sent
    BY <1>1, <2>1 DEF HelperType
  <2>3. Reading => helper.sent = onVolume.buffers
    <3>1. Reading => helper.sent <= onVolume.buffers
      BY <1>4
    <3>2. ~(helper.sent < onVolume.buffers) /\ onVolume.buffers \in Nat
      BY <1>2, <1>7
    <3> QED
      BY <1>5, <3>1, <3>2
  <2>4. Reading => HelperAt'
    BY <1>1, <1>3, <1>4, <1>7, <2>2, <2>3 DEF HelperAt
  <2> QED
    BY <1>1, <2>1, <2>2, <2>4, Unread
<1>8. CASE ~(helper.sent < onVolume.buffers) /\ onVolume.ending # "cursor only"
  <2>1. /\ status' = onVolume.ending
        /\ helper' = [helper EXCEPT !.at = "exiting",
                                    !.code = IF onVolume.ending = "denied" THEN 4 ELSE 5]
    BY <1>8 DEF ReadVolume, HelperGoes, EndsData
  <2>2. PICK code \in {4, 5} : helper' = [helper EXCEPT !.at = "exiting", !.code = code]
    BY <2>1
  <2>3. helper' \in HelperType /\ helper'.at = "exiting" /\ helper'.sent = helper.sent
    BY <1>1, <2>2 DEF HelperType
  <2>4. Reading => HelperAt'
    BY <1>1, <1>3, <1>4, <2>3 DEF HelperAt
  <2>5. status' \in Reasons
    BY <1>2, <2>1 DEF Reasons
  <2> QED
    BY <1>1, <2>3, <2>4, <2>5, Unread
<1> QED
  BY <1>6, <1>7, <1>8

LEMMA HelperEndsHolds == HelperInv /\ (Exit \/ BrokenPipe \/ Die) => HelperInv'
<1> SUFFICES ASSUME HelperInv, Exit \/ BrokenPipe \/ Die PROVE HelperInv'  OBVIOUS
<1>1. /\ helper \in HelperType /\ status \in Reasons
      /\ UNCHANGED <<parent, collected, stdout, onVolume>>
  BY DEF HelperInv, Types, HelperType, Exit, BrokenPipe, Die
<1>2. \/ helper' = [helper EXCEPT !.at = "gone"]
      \/ helper' = [helper EXCEPT !.at = "exiting", !.code = 5]
  BY DEF Exit, BrokenPipe, Die, HelperGoes
<1>3. /\ helper' \in HelperType /\ helper'.at \in {"gone", "exiting"}
      /\ helper'.sent = helper.sent
  BY <1>1, <1>2 DEF HelperType
<1>4. status' = status \/ status' = "broken pipe"
  BY DEF Exit, BrokenPipe, Die
<1>5. status' \in Reasons
  BY <1>1, <1>4 DEF Reasons
<1>6. Reading => HelperAt'
  BY <1>1, <1>3 DEF HelperInv, HelperAt
<1> QED
  BY <1>1, <1>3, <1>5, <1>6, Unread

(* A step that writes the next of the stream. *)
LEMMA PutHolds ==
    ASSUME HelperInv, UNCHANGED <<parent, collected, onVolume, status>>,
           NEW item \in Item, Put(item), helper' \in HelperType,
           Reading => /\ IsWrite(item, Written + 1, onVolume.buffers)
                      /\ Written + 1 <= Total
                      /\ Written + 1 = Total => onVolume.ending = "cursor only"
                      /\ Written' = Written + 1 => HelperAt'
    PROVE  HelperInv'
<1>1. Types
  BY DEF HelperInv
<1>2. UNCHANGED <<Reading, Whole, InPlace>>
  BY DEF Reading, Whole, InPlace
<1>3. Types'
  <2>1. stdout' \in Seq(Item)
    <3>1. stdout \in Seq(Item) /\ stdout' = Append(stdout, item)
      BY <1>1 DEF Types, Put
    <3> QED
      BY <3>1, AppendItem
  <2> QED
    BY <1>1, <2>1 DEF Types, HelperType
<1>4. ASSUME Reading PROVE InOrder' /\ Bounded' /\ HelperAt'
  <2>1. InOrder /\ IsWrite(item, Written + 1, onVolume.buffers)
    BY <1>4 DEF HelperInv
  <2>2. InOrder' /\ Written' = Written + 1 /\ Total' = Total
    BY <1>1, <2>1, PutInOrder
  <2>3. Bounded'
    BY <1>4, <2>2 DEF Bounded
  <2> QED
    BY <1>4, <2>2, <2>3
<1>5. Reading => parent.error = NoReason
  BY DEF HelperInv
<1> QED
  BY <1>2, <1>3, <1>4, <1>5 DEF HelperInv

LEMMA WriteHeaderHolds == HelperInv /\ WriteHeader => HelperInv'
<1> SUFFICES ASSUME HelperInv, WriteHeader PROVE HelperInv'  OBVIOUS
<1>1. /\ Types /\ helper \in HelperType /\ helper.at = "header" /\ helper.sent \in Nat
      /\ onVolume.buffers \in Nat
      /\ UNCHANGED <<parent, collected, onVolume, status>> /\ Put(Header(helper.sent + 1))
      /\ helper' = [helper EXCEPT !.at = "payload"]
  BY DEF HelperInv, Types, HelperType, WriteHeader, HelperGoes
<1>2. Header(helper.sent + 1) \in Item
  BY <1>1 DEF Header, Item
<1>3. helper' \in HelperType /\ helper'.at = "payload" /\ helper'.sent = helper.sent
  BY <1>1 DEF HelperType
<1>4. ASSUME Reading
      PROVE  /\ IsWrite(Header(helper.sent + 1), Written + 1, onVolume.buffers)
             /\ Written + 1 < Total
             /\ Written' = Written + 1 => HelperAt'
  <2>1. Written = 2 * helper.sent /\ helper.sent < onVolume.buffers
    BY <1>1, <1>4 DEF HelperInv, HelperAt
  <2>2. IsWrite(Header(helper.sent + 1), 2 * helper.sent + 1, onVolume.buffers)
    BY <1>1, <2>1, NextWrites
  <2>3. Written + 1 < Total
    BY <1>1, <2>1 DEF Total
  <2>4. Written' = Written + 1 => HelperAt'
    BY <1>1, <1>3, <2>1 DEF HelperAt
  <2> QED
    BY <2>1, <2>2, <2>3, <2>4
<1>5. Written \in Nat /\ Total \in Nat
  BY <1>1, Numbers
<1>6. Reading => Written + 1 <= Total /\ Written + 1 # Total
  BY <1>4, <1>5
<1> QED
  BY <1>1, <1>2, <1>3, <1>4, <1>6, PutHolds

LEMMA WritePayloadHolds == HelperInv /\ WritePayload => HelperInv'
<1> SUFFICES ASSUME HelperInv, WritePayload PROVE HelperInv'  OBVIOUS
<1>1. /\ Types /\ helper \in HelperType /\ helper.at = "payload" /\ helper.sent \in Nat
      /\ onVolume.buffers \in Nat
      /\ UNCHANGED <<parent, collected, onVolume, status>> /\ Put(Payload(helper.sent + 1))
      /\ helper' = [helper EXCEPT !.at = "reading", !.sent = @ + 1]
  BY DEF HelperInv, Types, HelperType, WritePayload, HelperGoes
<1>2. Payload(helper.sent + 1) \in Item
  BY <1>1 DEF Payload, Item
<1>3. helper' \in HelperType /\ helper'.at = "reading" /\ helper'.sent = helper.sent + 1
  <2>1. PICK next \in Nat : next = helper.sent + 1
    BY <1>1
  <2>2. helper' = [helper EXCEPT !.at = "reading", !.sent = next]
    BY <1>1, <2>1
  <2>3. helper' \in HelperType /\ helper'.at = "reading" /\ helper'.sent = next
    BY <1>1, <2>2 DEF HelperType
  <2> QED
    BY <2>1, <2>3
<1>4. ASSUME Reading
      PROVE  /\ IsWrite(Payload(helper.sent + 1), Written + 1, onVolume.buffers)
             /\ Written + 1 < Total
             /\ Written' = Written + 1 => HelperAt'
  <2>1. Written = 2 * helper.sent + 1 /\ helper.sent < onVolume.buffers
    BY <1>1, <1>4 DEF HelperInv, HelperAt
  <2>2. IsWrite(Payload(helper.sent + 1), 2 * helper.sent + 2, onVolume.buffers)
    BY <1>1, NextWrites
  <2>3. Written + 1 < Total /\ Written + 1 = 2 * helper.sent + 2
    BY <1>1, <2>1 DEF Total
  <2>4. Written' = Written + 1 => HelperAt'
    BY <1>1, <1>3, <2>1 DEF HelperAt
  <2> QED
    BY <2>2, <2>3, <2>4
<1>5. Written \in Nat /\ Total \in Nat
  BY <1>1, Numbers
<1>6. Reading => Written + 1 <= Total /\ Written + 1 # Total
  BY <1>4, <1>5
<1> QED
  BY <1>1, <1>2, <1>3, <1>4, <1>6, PutHolds

LEMMA WriteEndHolds == HelperInv /\ WriteEnd => HelperInv'
<1> SUFFICES ASSUME HelperInv, WriteEnd PROVE HelperInv'  OBVIOUS
<1>1. /\ Types /\ helper \in HelperType /\ helper.at = "ending" /\ helper.sent \in Nat
      /\ onVolume.buffers \in Nat
      /\ UNCHANGED <<parent, collected, onVolume, status>> /\ Put(Terminator)
      /\ helper' = [helper EXCEPT !.at = "exiting"]
  BY DEF HelperInv, Types, HelperType, WriteEnd, HelperGoes
<1>2. Terminator \in Item
  BY DEF Terminator, Item
<1>3. helper' \in HelperType /\ helper'.at = "exiting" /\ helper'.sent = helper.sent
  BY <1>1 DEF HelperType
<1>4. ASSUME Reading
      PROVE  /\ IsWrite(Terminator, Written + 1, onVolume.buffers)
             /\ Written + 1 = Total /\ onVolume.ending = "cursor only"
             /\ HelperAt'
  <2>1. /\ Written = 2 * helper.sent /\ helper.sent = onVolume.buffers
        /\ onVolume.ending = "cursor only" 
    BY <1>1, <1>4 DEF HelperInv, HelperAt
  <2>2. IsWrite(Terminator, 2 * helper.sent + 1, onVolume.buffers)
    BY <1>1, <2>1, NextWrites
  <2>3. Written + 1 = Total
    BY <1>1, <2>1 DEF Total
  <2>4. helper'.sent <= onVolume'.buffers
    <3>1. helper'.sent = helper.sent /\ onVolume' = onVolume
      BY <1>1, <1>3
    <3>2. helper.sent \in Nat /\ helper.sent = onVolume.buffers
      BY <1>1, <2>1
    <3>3. helper.sent <= onVolume.buffers
      BY <3>2
    <3> QED
      BY <3>1, <3>3
  <2>5. HelperAt'
    BY <1>3, <2>4 DEF HelperAt
  <2> QED
    BY <2>1, <2>2, <2>3, <2>5
<1>5. Written \in Nat /\ Total \in Nat
  BY <1>1, Numbers
<1>6. Reading => Written + 1 <= Total
  <2>1. Reading => Written + 1 = Total
    BY <1>4
  <2> QED
    BY <1>5, <2>1
<1> QED
  BY <1>1, <1>2, <1>3, <1>4, <1>6, PutHolds

-----------------------------------------------------------------------------
LEMMA ReadHeaderHolds == HelperInv /\ ReadHeader => HelperInv'
<1> SUFFICES ASSUME HelperInv, ReadHeader PROVE HelperInv'  OBVIOUS
<1>1. /\ Types /\ InPlace /\ parent.at = "header" /\ stdout # <<>> /\ Take
      /\ UNCHANGED <<helper, onVolume, status, collected>>
      /\ parent \in ParentType
  BY DEF HelperInv, Types, ReadHeader, ParentType
<1>2. /\ InOrder /\ Bounded /\ HelperAt /\ parent.error = NoReason
  BY <1>1 DEF HelperInv, Reading
<1>3. InPlace'
  BY <1>1 DEF InPlace
<1>4. Len(collected) \in Nat /\ onVolume.buffers \in Nat /\ Taken = 2 * Len(collected)
  BY <1>1, Numbers DEF Types
<1>5. stdout' \in Seq(Item) /\ stdout \in Seq(Item) /\ Len(stdout) >= 1
  <2>1. stdout \in Seq(Item) /\ stdout # <<>> /\ stdout' = Tail(stdout)
    BY <1>1 DEF Types, Take
  <2> QED
    BY <2>1, TailItem
<1>6. parent' = [parent EXCEPT !.at = IF Head(stdout) = Terminator THEN "wait" ELSE "payload"]
  BY DEF ReadHeader, ParentGoes
<1>7. IsWrite(Head(stdout), 2 * Len(collected) + 1, onVolume.buffers)
  <2>1. Head(stdout) = stdout[1] /\ 1 \in 1 .. Len(stdout)
    BY <1>5
  <2> QED
    BY <1>2, <1>4, <2>1 DEF InOrder
<1>8. CASE Head(stdout) = Terminator
  <2>1. parent' = [parent EXCEPT !.at = "wait"]
    BY <1>6, <1>8
  <2>2. parent' \in ParentType /\ parent'.at = "wait"
    BY <1>1, <2>1 DEF ParentType
  <2>3. Types'
    BY <1>1, <1>5, <2>2 DEF Types, ParentType
  <2>4. Len(collected) = onVolume.buffers
    <3>1. Terminator # Header(Len(collected) + 1)
      BY DEF Terminator, Header
    <3> QED
      BY <1>4, <1>7, <1>8, <3>1, WhichWrite
  <2>5. onVolume.ending = "cursor only"
    <3>1. Written >= Total
      BY <1>4, <1>5, <2>4 DEF Written, Total
    <3>2. Written \in Nat /\ Total \in Nat /\ Written <= Total
      BY <1>1, <1>2, Numbers DEF Bounded
    <3>3. Written = Total
      BY <3>1, <3>2
    <3> QED
      BY <1>2, <3>3 DEF Bounded
  <2> QED
    BY <1>1, <1>3, <2>2, <2>3, <2>4, <2>5 DEF HelperInv, Reading, Whole
<1>9. CASE Head(stdout) # Terminator
  <2>1. parent' = [parent EXCEPT !.at = "payload"]
    BY <1>6, <1>9
  <2>2. parent' \in ParentType /\ parent'.at = "payload" /\ parent'.error = NoReason
    BY <1>1, <1>2, <2>1 DEF ParentType
  <2>3. Types'
    BY <1>1, <1>5, <2>2 DEF Types, ParentType
  <2>4. Taken' = Taken + 1
    BY <1>1, <1>4, <2>2 DEF Taken, Halfway
  <2>5. InOrder' /\ Written' = Written /\ Total' = Total
    BY <1>1, <1>2, <2>4, TakeInOrder
  <2>6. Bounded' /\ HelperAt'
    BY <1>1, <1>2, <2>5 DEF Bounded, HelperAt
  <2> QED
    BY <1>3, <2>2, <2>3, <2>5, <2>6 DEF HelperInv, Reading
<1> QED
  BY <1>8, <1>9

LEMMA ReadPayloadHolds == HelperInv /\ ReadPayload => HelperInv'
<1> SUFFICES ASSUME HelperInv, ReadPayload PROVE HelperInv'  OBVIOUS
<1>1. /\ Types /\ InPlace /\ parent.at = "payload" /\ stdout # <<>> /\ Take
      /\ UNCHANGED <<helper, onVolume, status>>
      /\ parent \in ParentType /\ collected \in Seq(Nat)
  BY DEF HelperInv, Types, ReadPayload, ParentType
<1>2. /\ InOrder /\ Bounded /\ HelperAt /\ parent.error = NoReason
  BY <1>1 DEF HelperInv, Reading
<1>3. Len(collected) \in Nat /\ onVolume.buffers \in Nat /\ Taken = 2 * Len(collected) + 1
  BY <1>1, Numbers DEF Types
<1>4. stdout' \in Seq(Item) /\ stdout \in Seq(Item) /\ Len(stdout) >= 1
  <2>1. stdout \in Seq(Item) /\ stdout # <<>> /\ stdout' = Tail(stdout)
    BY <1>1 DEF Types, Take
  <2> QED
    BY <2>1, TailItem
<1>5. Head(stdout).buffer = Len(collected) + 1
  <2>1. Head(stdout) = stdout[1] /\ 1 \in 1 .. Len(stdout)
    BY <1>4
  <2>2. IsWrite(Head(stdout), 2 * Len(collected) + 2, onVolume.buffers)
    BY <1>2, <1>3, <2>1 DEF InOrder
  <2>3. Head(stdout) = Payload(Len(collected) + 1)
    BY <1>3, <2>2, WhichWrite
  <2> QED
    BY <2>3 DEF Payload
<1>6. CASE onVolume.sound
  <2>1. /\ collected' = Append(collected, Len(collected) + 1)
        /\ parent' = [parent EXCEPT !.at = "header"]
    BY <1>5, <1>6 DEF ReadPayload, ParentGoes
  <2>2. parent' \in ParentType /\ parent'.at = "header" /\ parent'.error = NoReason
    BY <1>1, <1>2, <2>1 DEF ParentType
  <2>3. /\ collected' \in Seq(Nat) /\ Len(collected') = Len(collected) + 1
        /\ collected'[Len(collected) + 1] = Len(collected) + 1
        /\ \A i \in 1 .. Len(collected) : collected'[i] = collected[i]
    BY <1>1, <1>3, <2>1
  <2>4. InPlace'
    <3> SUFFICES ASSUME NEW i \in 1 .. Len(collected') PROVE collected'[i] = i
      BY DEF InPlace
    <3>1. i \in 1 .. Len(collected) \/ i = Len(collected) + 1
      BY <1>3, <2>3
    <3> QED
      BY <1>1, <2>3, <3>1 DEF InPlace
  <2>5. Types'
    BY <1>1, <1>4, <2>2, <2>3 DEF Types, ParentType
  <2>6. Taken' = Taken + 1
    BY <1>3, <2>2, <2>3 DEF Taken, Halfway
  <2>7. InOrder' /\ Written' = Written /\ Total' = Total
    BY <1>1, <1>2, <2>6, TakeInOrder
  <2>8. Bounded' /\ HelperAt'
    BY <1>1, <1>2, <2>7 DEF Bounded, HelperAt
  <2> QED
    BY <2>2, <2>4, <2>5, <2>7, <2>8 DEF HelperInv, Reading
<1>7. CASE ~onVolume.sound
  <2>1. collected' = collected /\ parent' = [parent EXCEPT !.at = "raised", !.reason = "malformed"]
    BY <1>7 DEF ReadPayload, ParentGoes
  <2>2. "malformed" \in Reasons
    BY DEF Reasons
  <2>3. parent' \in ParentType /\ parent'.at = "raised"
    BY <1>1, <2>1, <2>2 DEF ParentType
  <2>4. Types'
    BY <1>1, <1>4, <2>1, <2>3 DEF Types, ParentType
  <2>5. InPlace'
    BY <1>1, <2>1 DEF InPlace
  <2> QED
    BY <2>3, <2>4, <2>5 DEF HelperInv, Reading
<1> QED
  BY <1>6, <1>7

LEMMA ParentEndsHolds == HelperInv /\ (Truncated \/ Wait \/ Conclude) => HelperInv'
<1> SUFFICES ASSUME HelperInv, Truncated \/ Wait \/ Conclude PROVE HelperInv'  OBVIOUS
<1>1. /\ Types /\ InPlace /\ parent \in ParentType /\ status \in Reasons
      /\ UNCHANGED <<helper, onVolume, stdout, status, collected>>
  BY DEF HelperInv, Types, ParentType, Truncated, Wait, Conclude
<1>2. InPlace' /\ Whole' = Whole
  BY <1>1 DEF InPlace, Whole
<1>3. ASSUME parent' \in ParentType PROVE Types'
  BY <1>1, <1>3 DEF Types, ParentType
<1>4. CASE Truncated
  <2>1. parent' = [parent EXCEPT !.at = "wait", !.error = "protocol"]
    BY <1>4 DEF Truncated, ParentGoes
  <2>2. parent' \in ParentType /\ parent'.at = "wait" /\ parent'.error = "protocol"
    BY <1>1, <2>1 DEF ParentType
  <2> QED
    BY <1>2, <1>3, <2>2 DEF HelperInv, Reading, NoReason
<1>5. CASE Wait
  <2>1. parent.at = "wait" /\ parent' = [parent EXCEPT !.at = "waiting"]
    BY <1>5 DEF Wait, Waitable, ParentGoes
  <2>2. parent' \in ParentType /\ parent'.at = "waiting" /\ parent'.error = parent.error
    BY <1>1, <2>1 DEF ParentType
  <2>3. parent.error = NoReason => Whole
    BY <2>1 DEF HelperInv
  <2> QED
    BY <1>2, <1>3, <2>2, <2>3 DEF HelperInv, Reading
<1>6. CASE Conclude /\ exitCode = 0 /\ parent.error = NoReason
  <2>1. parent.at = "waiting" /\ parent' = [parent EXCEPT !.at = "returned"]
    BY <1>6 DEF Conclude, ParentGoes
  <2>2. parent' \in ParentType /\ parent'.at = "returned"
    BY <1>1, <2>1 DEF ParentType
  <2>3. Whole
    BY <1>6, <2>1 DEF HelperInv
  <2> QED
    BY <1>2, <1>3, <2>2, <2>3 DEF HelperInv, Reading
<1>7. CASE Conclude /\ ~(exitCode = 0 /\ parent.error = NoReason)
  <2>1. parent' = [parent EXCEPT !.at = "raised", !.reason = Reason]
    BY <1>7 DEF Conclude, ParentGoes
  <2>2. Reason \in Reasons
    <3>1. Reason \in {status, parent.error, "exited"}
      BY <1>7 DEF Reason
    <3>2. parent.error \in Reasons
      BY <1>1 DEF ParentType, Reasons
    <3>3. "exited" \in Reasons
      BY DEF Reasons
    <3> QED
      BY <1>1, <3>1, <3>2, <3>3
  <2>3. parent' \in ParentType /\ parent'.at = "raised"
    BY <1>1, <2>1, <2>2 DEF ParentType
  <2> QED
    BY <1>2, <1>3, <2>3 DEF HelperInv, Reading
<1> QED
  BY <1>4, <1>5, <1>6, <1>7

LEMMA StepHolds == HelperInv /\ [HelperNext]_helperVars => HelperInv'
<1> SUFFICES ASSUME HelperInv, [HelperNext]_helperVars PROVE HelperInv'  OBVIOUS
<1>1. CASE UNCHANGED helperVars
  <2>1. helper \in HelperType /\ status \in Reasons
    BY DEF HelperInv, Types, HelperType
  <2>2. UNCHANGED <<parent, collected, stdout, onVolume, helper, status>>
    BY <1>1 DEF helperVars
  <2>3. UNCHANGED Written
    BY <2>2 DEF Written, Taken, Halfway
  <2>4. Reading => HelperAt'
    BY <2>2, <2>3 DEF HelperInv, HelperAt
  <2> QED
    BY <2>1, <2>2, <2>4, Unread
<1>2. CASE HelperNext
  BY <1>2, ReadVolumeHolds, WriteHeaderHolds, WritePayloadHolds, WriteEndHolds, HelperEndsHolds,
     ReadHeaderHolds, ReadPayloadHolds, ParentEndsHolds DEF HelperNext, HelperStep, ParentStep
<1> QED
  BY <1>1, <1>2

(* run_helper never returns a result that is not the whole of a volume     *)
(* read to its end, wherever the helper dies (client.py, protocol.py).     *)
THEOREM WholeResult == HelperSpec => []ResultIsComplete
<1>1. HelperInv => ResultIsComplete
  <2> SUFFICES ASSUME HelperInv, parent.at = "returned"
               PROVE  collected = Complete /\ onVolume.ending = "cursor only"
    BY DEF ResultIsComplete
  <2>1. Len(collected) = onVolume.buffers /\ onVolume.ending = "cursor only"
    BY DEF HelperInv, Whole
  <2>2. collected \in Seq(Nat) /\ \A i \in 1 .. Len(collected) : collected[i] = i
    BY DEF HelperInv, Types, InPlace
  <2>3. collected = Complete
    <3>1. collected = [i \in 1 .. Len(collected) |-> collected[i]]
      BY <2>2
    <3>2. [i \in 1 .. Len(collected) |-> collected[i]] = [i \in 1 .. Len(collected) |-> i]
      BY <2>2
    <3> QED
      BY <2>1, <3>1, <3>2, Zenon DEF Complete
  <2> QED
    BY <2>1, <2>3
<1>2. HelperInit /\ [][HelperNext]_helperVars => []HelperInv
  BY InitHolds, StepHolds, PTL
<1> QED
  BY <1>1, <1>2, PTL DEF HelperSpec

-----------------------------------------------------------------------------
(* Reading through the gateway: what is read is what was checked, and when *)
(* it is over nothing is left open.                                        *)
(*                                                                         *)
(* A drive that still has files waiting always has one with its pool: the  *)
(* queue is topped up at every answer, to at least one file.  So when      *)
(* nothing is with the pools, nothing waits.                               *)
Stages == {"queued", "submitted", "done", "yielded", "dropped"} \cup Working
Flying == {"submitted", "done"} \cup Working

ReadState == [stage : Stages, seen : Objects \cup {Nothing}, handle : Objects \cup {Nothing}]

Followed(r) ==
    \A f \in Paths : r[f].stage = "queued" => \E g \in On(Drive[f]) : r[g].stage \in Flying

ReadInv(f) ==
    /\ read[f].stage \in {"open", "check", "read"} => read[f].seen \in Objects
    /\ read[f].stage \in {"check", "read"} => read[f].handle \in Objects
    /\ read[f].stage = "read" => \/ NoId \in {Id[read[f].seen], Id[read[f].handle]}
                                 \/ Id[read[f].seen] = Id[read[f].handle]

GatewayInv ==
    /\ GatewayTypeOK
    /\ \A f \in Paths : ReadInv(f)
    /\ caller = "waiting" => Followed(read)
    /\ caller # "waiting" => \A f \in Paths : read[f].stage \notin {"queued", "submitted"}
    /\ QuietAfterReturn

(* Topping up a drive's queue only submits files that wait for it, and     *)
(* leaves none waiting alone.                                              *)
LEMMA TopUp ==
    ASSUME NEW r \in [Paths -> ReadState], NEW d, Readers[d] \in Nat \ {0}
    PROVE  LET n == ToppedUp(r, d)
           IN  /\ n \in [Paths -> ReadState]
               /\ \A f \in Paths : \/ n[f] = r[f]
                                   \/ /\ f \in On(d) /\ r[f].stage = "queued"
                                      /\ n[f] = [r[f] EXCEPT !.stage = "submitted"]
               /\ \A f \in On(d) : n[f].stage = "queued" => \E g \in On(d) : n[g].stage \in Flying
<1> DEFINE waiting == {f \in On(d) : r[f].stage = "queued"}
           flying  == {f \in On(d) : r[f].stage \in {"submitted", "done"} \cup Working}
           room    == Readers[d] * Ahead - Cardinality(flying)
           before(f) == Cardinality({g \in waiting : g < f})
           n == ToppedUp(r, d)
<1>1. n = [f \in Paths |-> IF f \in waiting /\ before(f) < room
                             THEN [r[f] EXCEPT !.stage = "submitted"] ELSE r[f]]
  BY DEF ToppedUp
<1>2. waiting \subseteq On(d) /\ \A f \in waiting : r[f].stage = "queued"
  OBVIOUS
<1>3. \A f \in On(d) : f \in flying <=> r[f].stage \in Flying
  BY DEF Flying
<1>4. On(d) \subseteq Paths
  BY DEF On
<1>5. \A f \in On(d) : r[f].stage = "queued" => f \in waiting
  OBVIOUS
<1>6. \A f \in waiting : (\A g \in waiting : ~(g < f)) => before(f) = 0
  <2> SUFFICES ASSUME NEW f \in waiting, \A g \in waiting : ~(g < f) PROVE before(f) = 0
    OBVIOUS
  <2>1. {g \in waiting : g < f} = {}
    OBVIOUS
  <2> QED
    BY <2>1, FS_EmptySet
<1>7. flying = {} => room = Readers[d] * Ahead
  <2>1. flying = {} => Cardinality(flying) = 0
    BY FS_EmptySet
  <2>2. Readers[d] * Ahead \in Nat
    BY GatewayAssumption
  <2> QED
    BY <2>1, <2>2
<1> HIDE DEF n, waiting, flying, room, before
<1>8. \A f \in Paths : n[f] = IF f \in waiting /\ before(f) < room
                                THEN [r[f] EXCEPT !.stage = "submitted"] ELSE r[f]
  BY <1>1
<1>9. \A f \in Paths : r[f] \in ReadState /\ [r[f] EXCEPT !.stage = "submitted"] \in ReadState
  BY DEF ReadState, Stages
<1>10. n \in [Paths -> ReadState]
  BY <1>1, <1>8, <1>9
<1>11. ASSUME NEW f \in On(d), n[f].stage = "queued", \A g \in On(d) : n[g].stage \notin Flying
       PROVE  FALSE
  <2>1. f \in waiting
    <3>1. n[f] = r[f] \/ n[f] = [r[f] EXCEPT !.stage = "submitted"]
      BY <1>4, <1>8
    <3>2. [r[f] EXCEPT !.stage = "submitted"].stage = "submitted"
      BY <1>4, <1>9 DEF ReadState
    <3> QED
      BY <1>5, <1>11, <3>1, <3>2
  <2>2. flying = {}
    <3> SUFFICES ASSUME NEW g \in flying PROVE FALSE
      OBVIOUS
    <3>1. g \in On(d) /\ r[g].stage \in Flying
      BY <1>3 DEF flying
    <3>2. r[g].stage # "queued"
      BY <3>1 DEF Flying, Working
    <3>3. n[g] = r[g]
      BY <1>2, <1>4, <1>8, <3>1, <3>2
    <3> QED
      BY <1>11, <3>1, <3>3
  <2>3. waiting \in SUBSET Nat
    BY <1>2, <1>4, GatewayAssumption
  <2>4. PICK m \in waiting : \A g \in waiting : ~(g < m)
    BY <2>1, <2>3, LeastNumber
  <2>5. before(m) = 0
    BY <1>6, <2>4
  <2>6. 0 < room
    BY <1>7, <2>2, GatewayAssumption
  <2>7. n[m] = [r[m] EXCEPT !.stage = "submitted"] /\ m \in On(d)
    BY <1>2, <1>4, <1>8, <2>5, <2>6
  <2>8. n[m].stage = "submitted"
    BY <1>4, <1>9, <2>7 DEF ReadState
  <2> QED
    BY <1>11, <2>7, <2>8 DEF Flying
<1>12. \A f \in Paths : \/ n[f] = r[f]
                        \/ /\ f \in On(d) /\ r[f].stage = "queued"
                           /\ n[f] = [r[f] EXCEPT !.stage = "submitted"]
  BY <1>2, <1>8
<1> QED
  BY <1>10, <1>11, <1>12 DEF n

(* A step of one file that goes on being read, or is done. *)
LEMMA ReadingGoesOn ==
    ASSUME GatewayInv, NEW f \in Paths, NEW s \in ReadState,
           read' = [read EXCEPT ![f] = s], read[f].stage \in Flying \ {"done"},
           s.stage \in {"done"} \cup Working, read[f].stage # "submitted" \/ caller = "waiting",
           ReadInv(f)', UNCHANGED <<windows, at, nature, caller, batch, swaps>>
    PROVE  GatewayInv'
<1>1. read \in [Paths -> ReadState]
  BY DEF GatewayInv, GatewayTypeOK, ReadState, Stages
<1>2. read' \in [Paths -> ReadState] /\ read'[f] = s /\ \A g \in Paths : g # f => read'[g] = read[g]
  BY <1>1
<1>3. GatewayTypeOK'
  BY <1>2 DEF GatewayInv, GatewayTypeOK, ReadState, Stages
<1>4. \A g \in Paths : ReadInv(g)'
  BY <1>2 DEF GatewayInv, ReadInv
<1>5. caller = "waiting" => Followed(read')
  <2> SUFFICES ASSUME caller = "waiting", NEW g \in Paths, read'[g].stage = "queued"
               PROVE  \E h \in On(Drive[g]) : read'[h].stage \in Flying
    BY DEF Followed
  <2>1. s.stage \in Flying /\ s.stage # "queued"
    BY DEF Flying, Working
  <2>2. PICK h \in On(Drive[g]) : read[h].stage \in Flying
    BY <1>2, <2>1 DEF GatewayInv, Followed
  <2>3. h \in Paths
    BY DEF On
  <2> QED
    BY <1>2, <2>1, <2>2, <2>3
<1>6. \A g \in Paths : caller # "waiting" => read'[g].stage \notin {"queued", "submitted"}
  BY <1>2 DEF GatewayInv, Working
<1>7. caller # "returned"
  BY DEF GatewayInv, QuietAfterReturn, Flying, Working
<1> QED
  BY <1>3, <1>4, <1>5, <1>6, <1>7 DEF GatewayInv, QuietAfterReturn

LEMMA ReaderStepHolds ==
    ASSUME GatewayInv, NEW f \in Paths, ReaderStep(f) PROVE GatewayInv'
<1>1. /\ read[f] \in ReadState
      /\ read \in [Paths -> ReadState]
  BY DEF GatewayInv, GatewayTypeOK, ReadState, Stages
<1>2. \A t \in Stages : [read[f] EXCEPT !.stage = t] \in ReadState
  BY <1>1 DEF ReadState
<1>3. \A t \in Stages : [read[f] EXCEPT !.stage = t].stage = t /\ [read[f] EXCEPT !.stage = t].seen = read[f].seen
                        /\ [read[f] EXCEPT !.stage = t].handle = read[f].handle
  BY <1>1 DEF ReadState
<1>4. ReadInv(f)
  BY DEF GatewayInv
<1>5. at[f] \in Objects \cup {Nothing}
  BY DEF GatewayInv, GatewayTypeOK
<1>6. ASSUME NEW t \in {"done"} \cup Working, To(f, t), read[f].stage \in Flying \ {"done"},
             UNCHANGED <<windows, at, nature, caller, batch, swaps>>,
             read[f].stage # "submitted" \/ caller = "waiting",
             t \in {"done", "stat"} \/ (t = "read" /\ read[f].stage = "check" /\ HandleAccepted(f))
      PROVE  GatewayInv'
  <2> DEFINE s == [read[f] EXCEPT !.stage = t]
  <2>1. s \in ReadState /\ s.stage = t /\ s.seen = read[f].seen /\ s.handle = read[f].handle
    BY <1>2, <1>3 DEF Stages
  <2>2. read' = [read EXCEPT ![f] = s]
    BY <1>1, <1>6 DEF To
  <2> HIDE DEF s
  <2>3. read'[f] = s
    BY <1>1, <2>2
  <2>4. ReadInv(f)'
    BY <1>4, <1>6, <2>1, <2>3 DEF ReadInv, HandleAccepted
  <2> QED
    BY <1>6, <2>1, <2>2, <2>4, ReadingGoesOn
<1>7. CASE StartRead(f)
  <2>1. caller = "waiting"
    BY <1>7 DEF StartRead, GatewayInv
  <2> QED
    BY <1>6, <1>7, <2>1 DEF StartRead, Flying, Working
<1>8. CASE Stat(f)
  <2>1. CASE at[f] # Nothing /\ Plain(at[f])
    <3> DEFINE s == [[read[f] EXCEPT !.stage = "open"] EXCEPT !.seen = at[f]]
    <3>1. read' = [read EXCEPT ![f] = s]
      BY <1>1, <1>8, <2>1 DEF Stat
    <3>2. s \in ReadState /\ s.stage = "open" /\ s.seen = at[f]
      BY <1>1, <1>5 DEF ReadState, Stages, Working
    <3> HIDE DEF s
    <3>3. ReadInv(f)'
      BY <1>1, <1>5, <2>1, <3>1, <3>2 DEF ReadInv
    <3> QED
      BY <1>8, <3>1, <3>2, <3>3, ReadingGoesOn DEF Stat, Flying, Working
  <2>2. CASE ~(at[f] # Nothing /\ Plain(at[f]))
    BY <1>6, <1>8, <2>2 DEF Stat, Flying, Working
  <2> QED
    BY <2>1, <2>2
<1>9. CASE OpenFd(f)
  <2>1. CASE Opened(f) # Nothing
    <3> DEFINE s == [[read[f] EXCEPT !.stage = "check"] EXCEPT !.handle = Opened(f)]
    <3>1. read' = [read EXCEPT ![f] = s]
      BY <1>1, <1>9, <2>1 DEF OpenFd
    <3>2. Opened(f) \in Objects
      BY <1>5, <2>1, GatewayAssumption DEF Opened
    <3>3. s \in ReadState /\ s.stage = "check" /\ s.handle = Opened(f) /\ s.seen = read[f].seen
      BY <1>1, <3>2 DEF ReadState, Stages, Working
    <3> HIDE DEF s
    <3>4. ReadInv(f)'
      BY <1>1, <1>4, <1>9, <3>1, <3>2, <3>3 DEF ReadInv, OpenFd
    <3> QED
      BY <1>9, <3>1, <3>3, <3>4, ReadingGoesOn DEF OpenFd, Flying, Working
  <2>2. CASE Opened(f) = Nothing
    <3>1. To(f, "done")
      BY <1>1, <1>9, <2>2 DEF OpenFd, To
    <3> QED
      BY <1>6, <1>9, <3>1 DEF OpenFd, Flying, Working
  <2> QED
    BY <2>1, <2>2
<1>10. CASE CheckHandle(f)
  BY <1>6, <1>10 DEF CheckHandle, Flying, Working
<1>11. CASE ReadBytes(f)
  BY <1>6, <1>11 DEF ReadBytes, Flying, Working
<1> QED
  BY <1>7, <1>8, <1>9, <1>10, <1>11 DEF ReaderStep

LEMMA YieldHolds == ASSUME GatewayInv, NEW f \in Paths, Yield(f) PROVE GatewayInv'
<1> DEFINE d == Drive[f]
           r == [read EXCEPT ![f].stage = "yielded"]
<1>1. /\ caller = "waiting" /\ UNCHANGED <<windows, at, nature, caller, swaps>>
      /\ batch' = batch \ {f} /\ read' = ToppedUp(r, d)
  BY DEF Yield, Refilled, Yielded
<1>2. read \in [Paths -> ReadState]
  BY DEF GatewayInv, GatewayTypeOK, ReadState, Stages
<1>3. /\ r \in [Paths -> ReadState] /\ r[f].stage = "yielded"
      /\ \A g \in Paths : g # f => r[g] = read[g]
  BY <1>2 DEF ReadState, Stages
<1> HIDE DEF r
<1>4. /\ read' \in [Paths -> ReadState]
      /\ \A g \in Paths : \/ read'[g] = r[g]
                          \/ /\ g \in On(d) /\ r[g].stage = "queued"
                             /\ read'[g] = [r[g] EXCEPT !.stage = "submitted"]
      /\ \A g \in On(d) : read'[g].stage = "queued" => \E h \in On(d) : read'[h].stage \in Flying
  <2>1. Readers[d] \in Nat \ {0}
    BY GatewayAssumption
  <2> HIDE DEF d
  <2> QED
    BY <1>1, <1>3, <2>1, TopUp
<1>5. GatewayTypeOK'
  BY <1>1, <1>4 DEF GatewayInv, GatewayTypeOK, ReadState, Stages
<1>6. ASSUME NEW g \in Paths
      PROVE  \/ read'[g] = read[g]
             \/ read'[g].stage \in {"submitted", "yielded"}
  <2>1. r[g] \in ReadState
    BY <1>3
  <2> QED
    BY <1>3, <1>4, <2>1 DEF ReadState
<1>7. \A g \in Paths : ReadInv(g)'
  BY <1>6 DEF GatewayInv, ReadInv
<1>8. Followed(read')
  <2> SUFFICES ASSUME NEW g \in Paths, read'[g].stage = "queued"
               PROVE  \E h \in On(Drive[g]) : read'[h].stage \in Flying
    BY DEF Followed
  <2>1. CASE Drive[g] = d
    BY <1>4, <2>1 DEF On
  <2>2. CASE Drive[g] # d
    <3>1. \A h \in On(Drive[g]) : h \in Paths /\ h # f /\ h \notin On(d)
      BY <2>2 DEF On
    <3>2. \A h \in On(Drive[g]) : read'[h] = read[h]
      BY <1>3, <1>4, <3>1
    <3>3. g \in On(Drive[g])
      BY DEF On
    <3>4. \E h \in On(Drive[g]) : read[h].stage \in Flying
      BY <1>1, <3>2, <3>3 DEF GatewayInv, Followed
    <3> QED
      BY <3>2, <3>4
  <2> QED
    BY <2>1, <2>2
<1> QED
  BY <1>1, <1>5, <1>7, <1>8 DEF GatewayInv, QuietAfterReturn

LEMMA CloseHolds == ASSUME GatewayInv, NEW f \in Paths, Close(f) PROVE GatewayInv'
<1> DEFINE r == [read EXCEPT ![f].stage = "yielded"]
<1>1. /\ caller' = "closing" /\ UNCHANGED <<windows, at, nature, swaps>> /\ batch' = {}
      /\ read' = [g \in Paths |-> IF r[g].stage \in {"queued", "submitted"}
                                    THEN [read[g] EXCEPT !.stage = "dropped"] ELSE r[g]]
  BY DEF Close, Yielded
<1>2. read \in [Paths -> ReadState]
  BY DEF GatewayInv, GatewayTypeOK, ReadState, Stages
<1>3. /\ r \in [Paths -> ReadState] /\ r[f].stage = "yielded"
      /\ \A g \in Paths : g # f => r[g] = read[g]
  BY <1>2 DEF ReadState, Stages
<1> HIDE DEF r
<1>4. ASSUME NEW g \in Paths
      PROVE  /\ read'[g] \in ReadState /\ read'[g].stage \notin {"queued", "submitted"}
             /\ read'[g] = read[g] \/ read'[g].stage \in {"dropped", "yielded"}
  <2>1. /\ read[g] \in ReadState /\ r[g] \in ReadState
        /\ [read[g] EXCEPT !.stage = "dropped"] \in ReadState
        /\ [read[g] EXCEPT !.stage = "dropped"].stage = "dropped"
    BY <1>2, <1>3 DEF ReadState, Stages
  <2> QED
    BY <1>1, <1>3, <2>1
<1>5. read' \in [Paths -> ReadState]
  BY <1>1, <1>4
<1>6. GatewayTypeOK'
  BY <1>1, <1>5 DEF GatewayInv, GatewayTypeOK, ReadState, Stages
<1>7. \A g \in Paths : ReadInv(g)'
  BY <1>4 DEF GatewayInv, ReadInv
<1> QED
  BY <1>1, <1>4, <1>6, <1>7 DEF GatewayInv, QuietAfterReturn

LEMMA ReturnHolds == ASSUME GatewayInv, Return PROVE GatewayInv'
<1>1. /\ UNCHANGED <<windows, at, nature, read, batch, swaps>> /\ caller' = "returned"
      /\ \A f \in Paths : read[f].stage \notin Working
  BY DEF Return, ShutDown
<1>2. \A f \in Paths : read[f].stage \in Stages
  BY DEF GatewayInv, GatewayTypeOK, Stages
<1>3. \A f \in Paths : read[f].stage \notin {"queued", "submitted"}
  <2>1. CASE caller # "waiting"
    BY <2>1 DEF GatewayInv
  <2>2. CASE caller = "waiting"
    <3>1. \A f \in Paths : InFlight(Drive[f]) = {}
      BY <2>2 DEF Return
    <3>2. \A f \in Paths : \A g \in On(Drive[f]) : read[g].stage \notin Flying
      BY <3>1 DEF InFlight, At, Flying
    <3>3. \A f \in Paths : f \in On(Drive[f])
      BY DEF On
    <3> QED
      BY <2>2, <3>2, <3>3 DEF GatewayInv, Followed, Flying
  <2> QED
    BY <2>1, <2>2
<1>4. QuietAfterReturn'
  BY <1>1, <1>2, <1>3 DEF QuietAfterReturn, Stages
<1> QED
  BY <1>1, <1>3, <1>4 DEF GatewayInv, GatewayTypeOK, ReadInv

LEMMA OutsideHolds ==
    ASSUME GatewayInv, \/ TakeAnswers \/ (\E f \in Paths : Swap(f)) \/ (\E o \in Objects : Recall(o))
    PROVE  GatewayInv'
<1>1. UNCHANGED <<windows, read, caller>>
  BY DEF TakeAnswers, Swap, Recall
<1>2. GatewayTypeOK'
  <2>1. CASE TakeAnswers
    BY <1>1, <2>1 DEF TakeAnswers, GatewayInv, GatewayTypeOK
  <2>2. ASSUME NEW f \in Paths, Swap(f) PROVE GatewayTypeOK'
    BY <1>1, <2>2 DEF Swap, GatewayInv, GatewayTypeOK
  <2>3. ASSUME NEW o \in Objects, Recall(o) PROVE GatewayTypeOK'
    BY <1>1, <2>3 DEF Recall, GatewayInv, GatewayTypeOK
  <2> QED
    BY <2>1, <2>2, <2>3
<1> QED
  BY <1>1, <1>2 DEF GatewayInv, ReadInv, Followed, QuietAfterReturn

LEMMA GatewayInitHolds == GatewayInit => GatewayInv
<1> SUFFICES ASSUME GatewayInit PROVE GatewayInv  OBVIOUS
<1> DEFINE idle == [f \in Paths |-> [stage |-> "queued", seen |-> Nothing, handle |-> Nothing]]
<1>1. /\ at = FirstAt /\ nature = FirstNature /\ caller = "waiting" /\ batch = {}
      /\ read = [f \in Paths |-> ToppedUp(idle, Drive[f])[f]]
  BY DEF GatewayInit
<1>2. idle \in [Paths -> ReadState]
  BY DEF ReadState, Stages
<1>3. \A f \in Paths : idle[f].stage = "queued"
  OBVIOUS
<1> HIDE DEF idle
<1>4. ASSUME NEW f \in Paths
      PROVE  /\ ToppedUp(idle, Drive[f]) \in [Paths -> ReadState]
             /\ ToppedUp(idle, Drive[f])[f].stage \in {"queued", "submitted"}
             /\ ToppedUp(idle, Drive[f])[f].stage = "queued"
                  => \E g \in On(Drive[f]) : ToppedUp(idle, Drive[f])[g].stage \in Flying
  <2>1. Readers[Drive[f]] \in Nat \ {0} /\ f \in On(Drive[f]) /\ idle[f] \in ReadState
    BY <1>2, GatewayAssumption DEF On
  <2>2. [idle[f] EXCEPT !.stage = "submitted"].stage = "submitted"
    BY <2>1 DEF ReadState
  <2>3. PICK d : d = Drive[f]
    OBVIOUS
  <2>4. LET n == ToppedUp(idle, d)
        IN  /\ n \in [Paths -> ReadState]
            /\ n[f] = idle[f] \/ n[f] = [idle[f] EXCEPT !.stage = "submitted"]
            /\ \A g \in On(d) : n[g].stage = "queued" => \E h \in On(d) : n[h].stage \in Flying
    BY <1>2, <2>1, <2>3, TopUp
  <2> QED
    BY <1>3, <2>1, <2>2, <2>3, <2>4
<1>5. read \in [Paths -> ReadState] /\ \A f \in Paths : read[f].stage \in {"queued", "submitted"}
  BY <1>1, <1>4
<1>6. Followed(read)
  <2> SUFFICES ASSUME NEW f \in Paths, read[f].stage = "queued"
               PROVE  \E g \in On(Drive[f]) : read[g].stage \in Flying
    BY DEF Followed
  <2>1. PICK g \in On(Drive[f]) : ToppedUp(idle, Drive[f])[g].stage \in Flying
    BY <1>1, <1>4
  <2>2. g \in Paths /\ Drive[g] = Drive[f]
    BY DEF On
  <2>3. read[g] = ToppedUp(idle, Drive[f])[g]
    BY <1>1, <2>2
  <2> QED
    BY <2>1, <2>3
<1>7. GatewayTypeOK
  BY <1>1, <1>5, GatewayAssumption DEF GatewayTypeOK, ReadState, Stages
<1> QED
  BY <1>1, <1>5, <1>6, <1>7 DEF GatewayInv, ReadInv, QuietAfterReturn

LEMMA GatewayInvHolds == GatewaySpec => []GatewayInv
<1>1. GatewayInv /\ [GatewayNext]_gatewayVars => GatewayInv'
  <2> SUFFICES ASSUME GatewayInv, [GatewayNext]_gatewayVars PROVE GatewayInv'  OBVIOUS
  <2>1. CASE UNCHANGED gatewayVars
    BY <2>1 DEF gatewayVars, GatewayInv, GatewayTypeOK, ReadInv, Followed, QuietAfterReturn
  <2>2. CASE GatewayNext
    BY <2>2, ReaderStepHolds, YieldHolds, CloseHolds, ReturnHolds, OutsideHolds
       DEF GatewayNext, CallerStep
  <2> QED
    BY <2>1, <2>2
<1> QED
  BY GatewayInitHolds, <1>1, PTL DEF GatewaySpec

(* Bytes are read only from the object that was checked, whatever is put   *)
(* at the path between the check and the opening; and once reading is      *)
(* over, by itself or because the caller stopped, no file is open, none    *)
(* will be, and none that was asked for was left out, for any number of    *)
(* files, drives and readers (core/fsio.py, core/identity/readers.py).     *)
THEOREM OnlyCheckedIsRead == GatewaySpec => []ReadsAsAllowed
<1>1. GatewayInv => ReadsAsAllowed
  <2> SUFFICES ASSUME GatewayInv, NEW f \in Paths, read[f].stage = "read",
                      NoId \notin {Id[read[f].seen], Id[read[f].handle]}
               PROVE  read[f].handle = read[f].seen
    BY DEF ReadsAsAllowed, ReadsWhatWasChecked, GatewayInv
  <2>1. ReadInv(f)
    BY DEF GatewayInv
  <2> QED
    BY <2>1, GatewayAssumption DEF ReadInv
<1> QED
  BY <1>1, GatewayInvHolds, PTL

-----------------------------------------------------------------------------
(* The window and its tasks.  A long task that is active is the one the    *)
(* window waits for, or the one it is about to wait for; and the news of   *)
(* its end is on its way at most once, for the task that is waited for.    *)
(* So the window starts another only when there is none.                   *)
TaskRecord == [kind : Shown \cup {Long}, at : {"queued", "running", "reported"}, cancel : BOOLEAN,
               heard : BOOLEAN, thread : SUBSET PoolThreads]

Event == [task : Nat, slot : {"release", "done"}]

WindowTyped ==
    /\ WindowTypeOK
    /\ task \in Seq(TaskRecord)
    /\ events \in Seq(Event)
    /\ \A i \in DOMAIN events : events[i].task \in DOMAIN task

LongDone(i) == events[i].slot = "done" /\ task[events[i].task].kind = Long

Expected(t) == current = t \/ (ui = "connecting" /\ t = Len(task))

WindowInv ==
    /\ WindowTyped
    /\ \A t \in DOMAIN task : task[t].kind = Long /\ Active(t) => Expected(t)
    /\ \A i \in DOMAIN events :
         /\ ~Active(events[i].task)
         /\ LongDone(i) => events[i].task = current
    /\ \A i, j \in DOMAIN events : LongDone(i) /\ LongDone(j) => i = j
    /\ ui = "connecting" =>
         /\ Len(task) \in DOMAIN task /\ ~task[Len(task)].heard
         /\ task[Len(task)].kind = Long => current = 0
    /\ \A t \in DOMAIN task : task[t].thread # {} => task[t].at = "running"
    /\ OpenWhileRunning /\ CaptionMatches

LEMMA TaskIsRecord ==
    ASSUME NEW q \in Seq(TaskRecord)
    PROVE  /\ DOMAIN q = 1 .. Len(q) /\ Len(q) \in Nat
           /\ \A t \in DOMAIN q : q[t] \in TaskRecord
BY ElementOfSeq

LEMMA WindowInitHolds == WindowInit => WindowInv
<1> SUFFICES ASSUME WindowInit PROVE WindowInv  OBVIOUS
<1>1. \A S : <<>> \in Seq(S)
  OBVIOUS
<1>2. DOMAIN task = {} /\ DOMAIN events = {} /\ Len(task) = 0
  BY DEF WindowInit
<1>3. WindowTyped
  BY <1>1, <1>2 DEF WindowInit, WindowTyped, WindowTypeOK
<1> QED
  BY <1>2, <1>3 DEF WindowInit, WindowInv, OpenWhileRunning, CaptionMatches

LEMMA StartHolds ==
    ASSUME WindowInv, ui = "ready", NEW kind \in Shown \cup {Long}, Start(kind),
           kind = Long => current = 0, UNCHANGED <<current, events, connection, timedOut>>,
           \/ UNCHANGED <<countingFor, total>>
           \/ kind \in Shown /\ countingFor' = kind /\ total' = NoFolder
    PROVE  WindowInv'
<1> DEFINE r == [kind |-> kind, at |-> "queued", cancel |-> FALSE, heard |-> FALSE, thread |-> {}]
<1>1. task \in Seq(TaskRecord) /\ r \in TaskRecord /\ task' = Append(task, r)
  BY DEF WindowInv, WindowTyped, TaskRecord, Start
<1>2. r.kind = kind /\ r.at = "queued" /\ r.heard = FALSE /\ r.thread = {}
  OBVIOUS
<1> HIDE DEF r
<1>3. /\ task' \in Seq(TaskRecord) /\ Len(task') = Len(task) + 1 /\ Len(task) \in Nat
      /\ DOMAIN task' = DOMAIN task \cup {Len(task) + 1} /\ DOMAIN task = 1 .. Len(task)
      /\ \A t \in DOMAIN task : task'[t] = task[t]
      /\ task'[Len(task) + 1] = r
  BY <1>1
<1>4. ui' = "connecting" /\ running' = running \cup {Len(task) + 1}
  BY DEF Start
<1>5. WindowTypeOK'
  <2>1. \A t \in DOMAIN task' : task'[t] \in TaskRecord
    BY <1>3
  <2>2. current' \in 0 .. Len(task')
    BY <1>3 DEF WindowInv, WindowTyped, WindowTypeOK
  <2>3. {countingFor', total'} \subseteq Shown \cup {NoFolder}
    BY DEF WindowInv, WindowTyped, WindowTypeOK
  <2> QED
    BY <1>3, <1>4, <2>1, <2>2, <2>3 DEF WindowInv, WindowTyped, WindowTypeOK, TaskRecord
<1>6. WindowTyped'
  BY <1>3, <1>5 DEF WindowInv, WindowTyped
<1>7. \A t \in DOMAIN task' : task'[t].kind = Long /\ Active(t)' => Expected(t)'
  <2> SUFFICES ASSUME NEW t \in DOMAIN task', task'[t].kind = Long, Active(t)' PROVE Expected(t)'
    OBVIOUS
  <2>1. CASE t = Len(task) + 1
    BY <1>3, <1>4, <2>1 DEF Expected
  <2>2. CASE t \in DOMAIN task
    BY <1>3, <2>2 DEF WindowInv, Expected, Active
  <2> QED
    BY <1>3, <2>1, <2>2
<1>8. \A i \in DOMAIN events :
        /\ events[i].task \in DOMAIN task
        /\ Active(events[i].task)' = Active(events[i].task) /\ LongDone(i)' = LongDone(i)
  BY <1>3 DEF WindowInv, WindowTyped, Active, LongDone
<1>9. \A t \in DOMAIN task' : t \in DOMAIN task \/ task'[t] = r
  BY <1>3
<1>10. OpenWhileRunning'
  BY <1>2, <1>3, <1>9 DEF WindowInv, OpenWhileRunning
<1>11. CaptionMatches'
  BY DEF WindowInv, CaptionMatches
<1>12. \A t \in DOMAIN task' : task'[t].thread # {} => task'[t].at = "running"
  BY <1>2, <1>3, <1>9 DEF WindowInv
<1> QED
  BY <1>2, <1>3, <1>4, <1>6, <1>7, <1>8, <1>10, <1>11, <1>12 DEF WindowInv

(* A step that changes no task but in what it is told. *)
LEMMA SameTasks ==
    ASSUME WindowInv, task' \in Seq(TaskRecord), DOMAIN task' = DOMAIN task, Len(task') = Len(task),
           \A t \in DOMAIN task : /\ task'[t].kind = task[t].kind /\ task'[t].at = task[t].at
                                  /\ task'[t].thread = task[t].thread
    PROVE  /\ \A t \in DOMAIN task : Active(t)' = Active(t)
           /\ \A i \in DOMAIN events : events' = events => LongDone(i)' = LongDone(i)
           /\ \A t \in DOMAIN task : task'[t].thread # {} => task'[t].at = "running"
           /\ connection' = connection /\ timedOut' = timedOut => OpenWhileRunning'
BY DEF WindowInv, WindowTyped, Active, LongDone, OpenWhileRunning

LEMMA ConnectHolds == WindowInv /\ Connect => WindowInv'
<1> SUFFICES ASSUME WindowInv, Connect PROVE WindowInv'  OBVIOUS
<1> DEFINE t == Len(task)
<1>1. /\ ui = "connecting" /\ ui' = "ready" /\ task' = [task EXCEPT ![t].heard = TRUE]
      /\ current' = IF task[t].kind = Long THEN t ELSE current
      /\ UNCHANGED <<running, events, countingFor, total, connection, timedOut>>
  BY DEF Connect
<1>2. t \in DOMAIN task /\ task[t].kind = Long => current = 0
  BY <1>1 DEF WindowInv
<1>3. /\ task \in Seq(TaskRecord) /\ t \in DOMAIN task /\ t \in Nat /\ DOMAIN task = 1 .. Len(task)
      /\ \A s \in DOMAIN task : task[s] \in TaskRecord
  BY <1>1, TaskIsRecord DEF WindowInv, WindowTyped
<1>4. [task[t] EXCEPT !.heard = TRUE] \in TaskRecord
  BY <1>3 DEF TaskRecord
<1>5. task' \in Seq(TaskRecord) /\ DOMAIN task' = DOMAIN task /\ Len(task') = Len(task)
      /\ \A s \in DOMAIN task : task'[s] = IF s = t THEN [task[t] EXCEPT !.heard = TRUE] ELSE task[s]
  BY <1>1, <1>3, <1>4
<1>6. \A s \in DOMAIN task : /\ task'[s].kind = task[s].kind /\ task'[s].at = task[s].at
                             /\ task'[s].thread = task[s].thread /\ task[s] \in TaskRecord
  BY <1>3, <1>5 DEF TaskRecord
<1>7. WindowTyped'
  BY <1>1, <1>3, <1>5, <1>6 DEF WindowInv, WindowTyped, WindowTypeOK
<1>8. /\ \A s \in DOMAIN task : Active(s)' = Active(s)
      /\ \A i \in DOMAIN events : LongDone(i)' = LongDone(i)
      /\ \A s \in DOMAIN task : task'[s].thread # {} => task'[s].at = "running"
      /\ OpenWhileRunning'
  BY <1>1, <1>5, <1>6, SameTasks
<1>9. \A s \in DOMAIN task : task'[s].kind = Long /\ Active(s)' => current' = s
  BY <1>1, <1>2, <1>3, <1>6, <1>8 DEF WindowInv, Expected
<1>10. \A i \in DOMAIN events : LongDone(i) => events[i].task = current'
  BY <1>1, <1>2, <1>3 DEF WindowInv, WindowTyped
<1>11. \A i \in DOMAIN events : events[i].task \in DOMAIN task
  BY DEF WindowInv, WindowTyped
<1>12. CaptionMatches'
  BY <1>1 DEF WindowInv, CaptionMatches
<1> QED
  BY <1>1, <1>5, <1>7, <1>8, <1>9, <1>10, <1>11, <1>12 DEF WindowInv, Expected

(* Somebody is told to stop. *)
LEMMA TellingHolds ==
    ASSUME WindowInv, ui = "ready", ui' \in {"ready", "waiting"},
           UNCHANGED <<current, running, events, countingFor, total, connection, timedOut>>,
           DOMAIN task' = DOMAIN task, NEW told,
           task' = [t \in DOMAIN task |-> IF t \in told THEN [task[t] EXCEPT !.cancel = TRUE] ELSE task[t]]
    PROVE  WindowInv'
<1>1. /\ task \in Seq(TaskRecord) /\ DOMAIN task = 1 .. Len(task) /\ Len(task) \in Nat
      /\ \A t \in DOMAIN task : task[t] \in TaskRecord
  BY TaskIsRecord DEF WindowInv, WindowTyped
<1>2. \A t \in DOMAIN task : task[t] \in TaskRecord /\ [task[t] EXCEPT !.cancel = TRUE] \in TaskRecord
  BY <1>1 DEF TaskRecord
<1>3. task' \in [1 .. Len(task) -> TaskRecord]
  BY <1>1, <1>2
<1>4. task' \in Seq(TaskRecord) /\ Len(task') = Len(task)
  BY <1>1, <1>3, SeqDef
<1>5. \A s \in DOMAIN task : /\ task'[s].kind = task[s].kind /\ task'[s].at = task[s].at
                             /\ task'[s].thread = task[s].thread
  BY <1>2 DEF TaskRecord
<1>6. WindowTyped'
  BY <1>4, <1>5 DEF WindowInv, WindowTyped, WindowTypeOK
<1>7. /\ \A s \in DOMAIN task : Active(s)' = Active(s)
      /\ \A i \in DOMAIN events : LongDone(i)' = LongDone(i)
      /\ \A s \in DOMAIN task : task'[s].thread # {} => task'[s].at = "running"
      /\ OpenWhileRunning'
  BY <1>4, <1>5, SameTasks
<1>8. \A i \in DOMAIN events : events[i].task \in DOMAIN task
  BY DEF WindowInv, WindowTyped
<1>9. CaptionMatches'
  BY DEF WindowInv, CaptionMatches
<1> QED
  BY <1>4, <1>5, <1>6, <1>7, <1>8, <1>9 DEF WindowInv, Expected

LEMMA DeliverHolds == WindowInv /\ Deliver => WindowInv'
<1> SUFFICES ASSUME WindowInv, Deliver PROVE WindowInv'  OBVIOUS
<1> DEFINE e == Head(events)
<1>1. /\ ui = "ready" /\ events # <<>> /\ events' = Tail(events)
      /\ UNCHANGED <<task, ui, countingFor, connection, timedOut>>
  BY DEF Deliver
<1>2. events \in Seq(Event) /\ task \in Seq(TaskRecord)
  BY DEF WindowInv, WindowTyped
<1>3. /\ e = events[1] /\ 1 \in DOMAIN events /\ events' \in Seq(Event)
      /\ \A i \in DOMAIN events' : i + 1 \in DOMAIN events /\ events'[i] = events[i + 1] /\ i + 1 # 1
      /\ \A i, j \in DOMAIN events' : i + 1 = j + 1 => i = j
  BY <1>1, <1>2
<1>4. /\ e.task \in DOMAIN task /\ task[e.task].kind \in Shown \cup {Long} /\ ~Active(e.task)
      /\ e.slot \in {"release", "done"}
  <2>1. e \in Event /\ e.task \in DOMAIN task /\ ~Active(e.task)
    BY <1>2, <1>3 DEF WindowInv, WindowTyped
  <2>2. task[e.task] \in TaskRecord
    BY <1>2, <2>1, TaskIsRecord
  <2> QED
    BY <2>1, <2>2 DEF TaskRecord, Event
<1>5. \/ running' \subseteq running /\ UNCHANGED <<current, total>>
      \/ LongDone(1) /\ current' = 0 /\ UNCHANGED <<running, total>>
      \/ /\ UNCHANGED <<running, current>>
         /\ total' = total \/ (total' = task[e.task].kind /\ task[e.task].kind = countingFor)
  <2>1. CASE e.slot = "release"
    BY <2>1 DEF Deliver
  <2>2. CASE e.slot = "done" /\ task[e.task].kind = Long
    BY <1>3, <2>2 DEF Deliver, LongDone
  <2>3. CASE e.slot = "done" /\ task[e.task].kind # Long
    BY <2>3 DEF Deliver, CountArrived
  <2> QED
    BY <1>4, <2>1, <2>2, <2>3
<1> HIDE DEF e
<1>6. /\ current' = current \/ (LongDone(1) /\ current' = 0)
      /\ running' \subseteq running
      /\ total' = total \/ total' = countingFor
  BY <1>5
<1>7. WindowTyped'
  BY <1>1, <1>3, <1>6 DEF WindowInv, WindowTyped, WindowTypeOK
<1>8. \A i \in DOMAIN events' : LongDone(i)' = LongDone(i + 1)
  BY <1>1, <1>3 DEF LongDone
<1>9. \A i \in DOMAIN events' : LongDone(i)' => events'[i].task = current'
  BY <1>3, <1>6, <1>8 DEF WindowInv
<1>10. \A t \in DOMAIN task : task[t].kind = Long /\ Active(t) => current' = t
  BY <1>1, <1>3, <1>4, <1>6 DEF WindowInv, Expected
<1>11. CaptionMatches'
  BY <1>1, <1>6 DEF WindowInv, CaptionMatches
<1>12. OpenWhileRunning'
  BY <1>1 DEF WindowInv, OpenWhileRunning
<1>13. \A i \in DOMAIN events' : ~Active(events'[i].task)
  BY <1>3 DEF WindowInv
<1>14. \A i, j \in DOMAIN events' : LongDone(i)' /\ LongDone(j)' => i = j
  BY <1>3, <1>8 DEF WindowInv
<1> QED
  BY <1>1, <1>7, <1>9, <1>10, <1>11, <1>12, <1>13, <1>14 DEF WindowInv, Expected, Active

LEMMA SessionEndsHolds == WindowInv /\ (WaitEnds \/ WaitTimesOut) => WindowInv'
<1> SUFFICES ASSUME WindowInv, WaitEnds \/ WaitTimesOut PROVE WindowInv'  OBVIOUS
<1>1. /\ ui = "waiting" /\ ui' = "closed"
      /\ connection' = [w \in PoolThreads |-> IF connection[w] = "open" THEN "shut" ELSE connection[w]]
      /\ UNCHANGED <<task, current, running, events, countingFor, total>>
  BY DEF WaitEnds, WaitTimesOut, CloseSession
<1>2. ~timedOut' => \A t \in DOMAIN task : ~Active(t)
  BY DEF WaitEnds, WaitTimesOut, Waited, Drained
<1>3. WindowTyped'
  BY <1>1 DEF WindowInv, WindowTyped, WindowTypeOK
<1>4. OpenWhileRunning'
  BY <1>1, <1>2 DEF WindowInv, OpenWhileRunning, Active
<1> QED
  BY <1>1, <1>3, <1>4 DEF WindowInv, Expected, Active, LongDone, CaptionMatches

LEMMA RunHolds == ASSUME WindowInv, NEW w \in PoolThreads, Run(w) PROVE WindowInv'
<1>1. PICK t \in DOMAIN task :
        /\ task[t].at = "queued"
        /\ task' = [task EXCEPT ![t].at = "running", ![t].thread = {w}]
  BY DEF Run
<1>2. /\ connection' = [connection EXCEPT ![w] = "open"]
      /\ UNCHANGED <<ui, current, running, events, countingFor, total, timedOut>>
  BY DEF Run
<1> DEFINE r == [[task[t] EXCEPT !.at = "running"] EXCEPT !.thread = {w}]
<1>3. /\ task \in Seq(TaskRecord) /\ DOMAIN task = 1 .. Len(task)
      /\ \A s \in DOMAIN task : task[s] \in TaskRecord
  BY TaskIsRecord DEF WindowInv, WindowTyped
<1>4. /\ r \in TaskRecord /\ r.at = "running" /\ r.thread = {w} /\ r.heard = task[t].heard
      /\ r.kind = task[t].kind
  BY <1>3 DEF TaskRecord
<1>5. task' = [task EXCEPT ![t] = r]
  BY <1>1, <1>3
<1> HIDE DEF r
<1>6. /\ task' \in Seq(TaskRecord) /\ DOMAIN task' = DOMAIN task /\ Len(task') = Len(task)
      /\ \A s \in DOMAIN task : task'[s] = IF s = t THEN r ELSE task[s]
  BY <1>3, <1>4, <1>5
<1>7. WindowTyped'
  <2>1. connection' \in [PoolThreads -> {"none", "open", "shut"}]
    BY <1>2 DEF WindowInv, WindowTyped, WindowTypeOK
  <2>2. \A s \in DOMAIN task' : task'[s] \in TaskRecord
    BY <1>6
  <2> QED
    BY <1>2, <1>6, <2>1, <2>2 DEF WindowInv, WindowTyped, WindowTypeOK, TaskRecord
<1>8. \A s \in DOMAIN task : /\ Active(s)' = Active(s) /\ task'[s].kind = task[s].kind
                             /\ task'[s].heard = task[s].heard
  BY <1>1, <1>4, <1>6 DEF Active
<1>9. \A i \in DOMAIN events : events[i].task \in DOMAIN task /\ LongDone(i)' = LongDone(i)
  BY <1>2, <1>8 DEF WindowInv, WindowTyped, LongDone
<1>10. OpenWhileRunning'
  <2> SUFFICES ASSUME ~timedOut, NEW s \in DOMAIN task, NEW v \in task'[s].thread
               PROVE  connection'[v] = "open"
    BY <1>2, <1>6 DEF OpenWhileRunning
  <2>1. v \in PoolThreads
    <3>1. task'[s] \in TaskRecord
      BY <1>3, <1>4, <1>6
    <3> QED
      BY <3>1 DEF TaskRecord
  <2>2. v = w \/ v \in task[s].thread
    BY <1>4, <1>6
  <2> QED
    BY <1>2, <2>1, <2>2 DEF WindowInv, WindowTyped, WindowTypeOK, OpenWhileRunning
<1>11. \A s \in DOMAIN task : task'[s].thread # {} => task'[s].at = "running"
  BY <1>4, <1>6 DEF WindowInv
<1>12. CaptionMatches'
  BY <1>2 DEF WindowInv, CaptionMatches
<1> QED
  BY <1>2, <1>6, <1>7, <1>8, <1>9, <1>10, <1>11, <1>12 DEF WindowInv, Expected

LEMMA EndHolds == ASSUME WindowInv, NEW t, End(t) PROVE WindowInv'
<1>1. PICK how : events' = events \o Slots(t, how)
  BY DEF End, Reports
<1>2. /\ t \in DOMAIN task /\ task[t].at = "running"
      /\ task' = [task EXCEPT ![t].at = "reported", ![t].thread = {}]
      /\ UNCHANGED <<ui, current, running, countingFor, total, connection, timedOut>>
  BY DEF End
<1> DEFINE r == [[task[t] EXCEPT !.at = "reported"] EXCEPT !.thread = {}]
<1>3. /\ task \in Seq(TaskRecord) /\ DOMAIN task = 1 .. Len(task) /\ events \in Seq(Event) /\ t \in Nat
      /\ task[t] \in TaskRecord
  <2>1. task \in Seq(TaskRecord) /\ events \in Seq(Event)
    BY DEF WindowInv, WindowTyped
  <2> QED
    BY <1>2, <2>1, TaskIsRecord
<1>4. /\ r \in TaskRecord /\ r.at = "reported" /\ r.thread = {} /\ r.heard = task[t].heard
      /\ r.kind = task[t].kind
  BY <1>2, <1>3 DEF TaskRecord
<1>5. task' = [task EXCEPT ![t] = r]
  BY <1>2, <1>3
<1> HIDE DEF r
<1>6. /\ task' \in Seq(TaskRecord) /\ DOMAIN task' = DOMAIN task /\ Len(task') = Len(task)
      /\ \A s \in DOMAIN task : task'[s] = IF s = t THEN r ELSE task[s]
  <2>1. t \in 1 .. Len(task) /\ r \in TaskRecord
    BY <1>2, <1>3, <1>4
  <2>2. task' \in Seq(TaskRecord) /\ Len(task') = Len(task) /\ DOMAIN task' = DOMAIN task
    BY <1>3, <1>5, <2>1, ExceptSeq
  <2> QED
    BY <1>3, <1>5, <2>1, <2>2
<1> DEFINE release == [task |-> t, slot |-> "release"]
           finish == [task |-> t, slot |-> "done"]
<1>7. \/ events' = Append(events, release)
      \/ events' = Append(Append(events, release), finish) /\ task[t].heard
  <2>1. release \in Event /\ finish \in Event
    BY <1>3 DEF Event
  <2>2. \/ Slots(t, how) = <<release>> \o <<>>
        \/ Slots(t, how) = <<release>> \o <<finish>> /\ task[t].heard
    BY DEF Slots
  <2> HIDE DEF release, finish
  <2>3. events \o (<<release>> \o <<>>) = Append(events, release)
    BY <1>3, <2>1
  <2>4. events \o (<<release>> \o <<finish>>) = Append(Append(events, release), finish)
    BY <1>3, <2>1
  <2> QED
    BY <1>1, <2>2, <2>3, <2>4
<1>8. release \in Event /\ finish \in Event /\ release.task = t /\ finish.task = t /\ release.slot # "done"
      /\ finish.slot = "done"
  BY <1>3 DEF Event
<1> HIDE DEF release, finish
<1> DEFINE n == Len(events)
<1>9. /\ events' \in Seq(Event) /\ n \in Nat /\ DOMAIN events = 1 .. n
      /\ \A i \in DOMAIN events : i \in DOMAIN events' /\ events'[i] = events[i]
      /\ \A i \in DOMAIN events' \ DOMAIN events :
            \/ events'[i] = release
            \/ i = n + 2 /\ events'[i] = finish /\ task[t].heard
  <2>1. CASE events' = Append(events, release)
    BY <1>3, <1>8, <2>1
  <2>2. CASE events' = Append(Append(events, release), finish) /\ task[t].heard
    BY <1>3, <1>8, <2>2
  <2> QED
    BY <1>7, <2>1, <2>2
<1> HIDE DEF n
<1>10. \A i \in DOMAIN events' \ DOMAIN events : events'[i].task = t
  BY <1>8, <1>9
<1>11. WindowTyped'
  <2>1. \A s \in DOMAIN task' : task'[s] \in TaskRecord
    BY <1>6
  <2>2. \A i \in DOMAIN events' : events'[i].task \in DOMAIN task'
    BY <1>2, <1>6, <1>9, <1>10 DEF WindowInv, WindowTyped
  <2> QED
    BY <1>2, <1>6, <1>9, <2>1, <2>2 DEF WindowInv, WindowTyped, WindowTypeOK, TaskRecord
<1>12. /\ ~Active(t)' /\ Active(t)
       /\ \A s \in DOMAIN task : /\ s # t => Active(s)' = Active(s)
                                 /\ task'[s].kind = task[s].kind /\ task'[s].heard = task[s].heard
  BY <1>2, <1>4, <1>6 DEF Active
<1>13. \A i \in DOMAIN events : events[i].task \in DOMAIN task /\ LongDone(i)' = LongDone(i)
  BY <1>9, <1>12 DEF WindowInv, WindowTyped, LongDone
<1>14. task[t].heard /\ task[t].kind = Long => current = t
  BY <1>2, <1>12 DEF WindowInv, Expected
<1>15. \A i \in DOMAIN events' \ DOMAIN events : LongDone(i)' => i = n + 2 /\ task[t].heard /\ task[t].kind = Long
  BY <1>2, <1>8, <1>9, <1>10, <1>12 DEF LongDone
<1>16. task[t].heard /\ task[t].kind = Long => \A i \in DOMAIN events : ~LongDone(i)
  BY <1>12, <1>14 DEF WindowInv
<1>17. \A i \in DOMAIN events' : /\ ~Active(events[i].task)'
                                 /\ LongDone(i)' => events'[i].task = current'
  <2> TAKE i \in DOMAIN events'
  <2>1. CASE i \in DOMAIN events
    BY <1>2, <1>9, <1>12, <1>13, <2>1 DEF WindowInv
  <2>2. CASE i \notin DOMAIN events
    BY <1>2, <1>10, <1>12, <1>14, <1>15, <2>2
  <2> QED
    BY <2>1, <2>2
<1>18. \A i, j \in DOMAIN events' : LongDone(i)' /\ LongDone(j)' => i = j
  BY <1>13, <1>15, <1>16 DEF WindowInv
<1>19. OpenWhileRunning'
  BY <1>2, <1>4, <1>6 DEF WindowInv, OpenWhileRunning
<1>20. \A s \in DOMAIN task : task'[s].thread # {} => task'[s].at = "running"
  BY <1>4, <1>6 DEF WindowInv
<1>21. \A s \in DOMAIN task : task'[s].kind = Long /\ Active(s)' => Expected(s)'
  BY <1>2, <1>6, <1>12 DEF WindowInv, Expected
<1>22. CaptionMatches'
  BY <1>2 DEF WindowInv, CaptionMatches
<1>23. ui' = "connecting" => /\ Len(task') \in DOMAIN task' /\ ~task'[Len(task')].heard
                             /\ task'[Len(task')].kind = Long => current' = 0
  BY <1>2, <1>6, <1>12 DEF WindowInv
<1> QED
  BY <1>6, <1>11, <1>17, <1>18, <1>19, <1>20, <1>21, <1>22, <1>23 DEF WindowInv

LEMMA WindowInvHolds == WindowSpec => []WindowInv
<1>1. WindowInv /\ [WindowNext]_windowVars => WindowInv'
  <2> SUFFICES ASSUME WindowInv, [WindowNext]_windowVars PROVE WindowInv'  OBVIOUS
  <2>1. CASE UNCHANGED windowVars
    BY <2>1 DEF windowVars, WindowInv, WindowTyped, WindowTypeOK, Expected, Active, LongDone,
                OpenWhileRunning, CaptionMatches
  <2>2. CASE RunTask
    BY <2>2, StartHolds DEF RunTask, MayStart
  <2>3. ASSUME NEW f \in Shown, SelectDirectory(f) PROVE WindowInv'
    BY <2>3, StartHolds, WindowAssumption DEF SelectDirectory
  <2>4. CASE CancelCurrent
    <3>1. /\ ui = "ready" /\ task' = [task EXCEPT ![current].cancel = TRUE]
          /\ UNCHANGED <<ui, current, running, events, countingFor, total, connection, timedOut>>
      BY <2>4 DEF CancelCurrent
    <3>2. task' = [t \in DOMAIN task |-> IF t \in {current} THEN [task[t] EXCEPT !.cancel = TRUE] ELSE task[t]]
      BY <3>1 DEF WindowInv, WindowTyped
    <3> QED
      BY <3>1, <3>2, TellingHolds
  <2>5. CASE CloseWindow
    BY <2>5, TellingHolds DEF CloseWindow
  <2>6. CASE UIStep
    BY <2>6, ConnectHolds, DeliverHolds, SessionEndsHolds DEF UIStep
  <2>7. ASSUME NEW w \in PoolThreads, Run(w) PROVE WindowInv'
    BY <2>7, RunHolds
  <2>8. ASSUME NEW t \in 1 .. MaxTasks, End(t) PROVE WindowInv'
    BY <2>8, EndHolds
  <2> QED
    BY <2>1, <2>2, <2>3, <2>4, <2>5, <2>6, <2>7, <2>8 DEF WindowNext
<1> QED
  BY WindowInitHolds, <1>1, PTL DEF WindowSpec

(* One long operation runs at a time, with the connection of every running *)
(* task open unless closing gave up waiting, and no total is shown beside  *)
(* the wrong folder, whatever order tasks end in and however late the      *)
(* window hears of it, for any number of tasks and pool threads            *)
(* (gui/main_window.py, workers.py, session.py, browser.py).               *)
THEOREM WindowAlwaysStandsFirm == WindowSpec => []WindowStandsFirm
<1>1. WindowInv => WindowStandsFirm
  <2> SUFFICES ASSUME WindowInv PROVE OneLongTask
    BY DEF WindowInv, WindowStandsFirm
  <2> DEFINE S == {t \in LongTasks : Active(t)}
  <2>1. \A t \in S : t \in DOMAIN task /\ task[t].kind = Long /\ Expected(t)
    BY DEF WindowInv, LongTasks
  <2>2. \A t \in DOMAIN task : t # 0
    BY DEF WindowInv, WindowTyped
  <2>3. \A s, t \in S : s = t
    BY <2>1, <2>2 DEF WindowInv, Expected
  <2>4. S = {} \/ \E t : S = {t}
    BY <2>3
  <2>5. Cardinality(S) \in {0, 1}
    BY <2>4, FS_EmptySet, FS_Singleton
  <2> QED
    BY <2>5 DEF OneLongTask
<1> QED
  BY <1>1, WindowInvHolds, PTL

-----------------------------------------------------------------------------
(* Bringing a catalog up to date: whoever comes to the DDL has run, or     *)
(* found done, every statement that adds a column, and whoever passed it   *)
(* has seen every table made.                                              *)
Versions == Oldest .. Present

Unfolds(F) ==
    F = [u \in Versions |-> IF u = Present THEN <<>> ELSE Steps[u + 1] \o F[u + 1]]

Early == {"backup", "copy", "rename"}
Altering == {"alter", "execute"}
Passed == {"tables", "triggers", "names", "stamp"}

OpenerState ==
    [at : {"shut", "failed", "open", "ddl"} \cup Passed]
    \cup [at : Early, from : {Oldest}]
    \cup [at : Altering, left : Seq(AllSteps)]

Added == {s.part : s \in AllSteps} \ DdlParts

OpenerInv(o) ==
    /\ opener[o].at \in Altering =>
         \A p \in Added : p \in parts \/ \E i \in DOMAIN opener[o].left : opener[o].left[i].part = p
    /\ opener[o].at = "execute" => opener[o].left # <<>>
    /\ opener[o].at \in {"ddl"} \cup Passed => Added \subseteq parts
    /\ opener[o].at \in Passed /\ ~undone => parts = PresentParts

FileInv ==
    /\ \A o \in Openers : opener[o].at = "copy" => partialFile.by = o
    /\ \A o \in Openers : opener[o].at = "rename" => partialFile.holds # {}
    /\ \A o, q \in Openers :
          {opener[o].at, opener[q].at} \subseteq {"copy", "rename"} => o = q

MigrationInv ==
    /\ opener \in [Openers -> OpenerState]
    /\ {partialFile, backup} \subseteq [by : Openers \cup {"nobody"}, holds : SUBSET PresentParts]
    /\ OldParts \ Dropped \subseteq parts /\ parts \subseteq PresentParts
    /\ versions \subseteq {Oldest, Present} /\ Oldest \in versions
    /\ \A o \in Openers : OpenerInv(o)
    /\ ~doubled => FileInv
    /\ UpgradeIsWhole

(* The statements to run are those of every version after the catalog's,   *)
(* each of them.                                                           *)
LEMMA StepTypes ==
    \A u \in Oldest + 1 .. Present : Steps[u] \in Seq(AllSteps)
<1> SUFFICES ASSUME NEW u \in Oldest + 1 .. Present PROVE Steps[u] \in Seq(AllSteps)
  OBVIOUS
<1>1. DOMAIN Steps = Oldest + 1 .. Present
  BY MigrationAssumption
<1>2. PICK T : Steps[u] \in Seq(T)
  BY MigrationAssumption
<1>3. \A i \in DOMAIN Steps[u] : Steps[u][i] \in AllSteps
  BY <1>1 DEF AllSteps
<1>4. Len(Steps[u]) \in Nat /\ DOMAIN Steps[u] = 1 .. Len(Steps[u])
  BY <1>2
<1>5. Steps[u] = [i \in 1 .. Len(Steps[u]) |-> Steps[u][i]]
  BY <1>2
<1> QED
  BY <1>3, <1>4, <1>5, SeqDef

LEMMA UnfoldingExists == \E F : Unfolds(F)
<1> DEFINE Upto(n) == Present - n .. Present
           Partial(G, n) ==
             G = [u \in Upto(n) |-> IF u = Present THEN <<>> ELSE Steps[u + 1] \o G[u + 1]]
           Bad == {n \in Nat : n <= Present - Oldest /\ ~\E G : Partial(G, n)}
<1>1. Bad = {}
  <2> SUFFICES ASSUME Bad # {} PROVE FALSE
    OBVIOUS
  <2> HIDE DEF Partial
  <2>1. PICK m \in Bad : \A n \in Bad : ~(n < m)
    <3>1. Bad \in SUBSET Nat
      OBVIOUS
    <3> HIDE DEF Bad
    <3> QED
      BY <3>1, LeastNumber
  <2>2. m \in Nat /\ m <= Present - Oldest /\ ~\E G : Partial(G, m)
    BY <2>1
  <2>3. CASE m = 0
    <3> DEFINE G == [u \in Upto(0) |-> <<>>]
    <3>1. \A u \in Upto(0) : u = Present
      BY MigrationAssumption
    <3>2. Partial(G, 0)
      BY <3>1 DEF Partial
    <3> QED
      BY <3>2, <2>2, <2>3
  <2>4. CASE m # 0
    <3>1. m - 1 \in Nat /\ m - 1 < m /\ m - 1 <= Present - Oldest
      BY <2>2, <2>4, MigrationAssumption
    <3>2. PICK G : Partial(G, m - 1)
      BY <2>1, <3>1
    <3> DEFINE H == [u \in Upto(m) |-> IF u = Present - m THEN Steps[u + 1] \o G[u + 1] ELSE G[u]]
    <3>3. \A u \in Upto(m) : u \in Upto(m - 1) \/ u = Present - m
      BY <2>2, <3>1, MigrationAssumption
    <3>4. \A u \in Upto(m) : u # Present => u + 1 \in Upto(m - 1) /\ u + 1 \in Upto(m) /\ u + 1 # Present - m
      BY <2>2, <3>1, MigrationAssumption
    <3>5. Present - m # Present /\ Present - m \in Upto(m) /\ Present - m \notin Upto(m - 1)
      BY <2>2, <2>4, <3>1, MigrationAssumption
    <3>6. \A u \in Upto(m - 1) : G[u] = IF u = Present THEN <<>> ELSE Steps[u + 1] \o G[u + 1]
      BY <3>2 DEF Partial
    <3> HIDE DEF Upto
    <3>7. \A u \in Upto(m) : H[u] = IF u = Present THEN <<>> ELSE Steps[u + 1] \o H[u + 1]
      BY <3>3, <3>4, <3>5, <3>6
    <3>8. Partial(H, m)
      BY <3>7 DEF Partial
    <3> QED
      BY <3>8, <2>2
  <2> QED
    BY <2>3, <2>4
<1>2. Present - Oldest \in Nat /\ Upto(Present - Oldest) = Versions
  BY MigrationAssumption DEF Versions
<1>3. \E G : Partial(G, Present - Oldest)
  <2> HIDE DEF Partial
  <2> QED
    BY <1>1, <1>2
<1>4. PICK G : Partial(G, Present - Oldest)
  BY <1>3
<1> QED
  BY <1>2, <1>4 DEF Unfolds

LEMMA UnfoldingHasAll ==
    ASSUME NEW F, Unfolds(F)
    PROVE  /\ F[Oldest] \in Seq(AllSteps)
           /\ \A s \in AllSteps : \E j \in DOMAIN F[Oldest] : F[Oldest][j] = s
<1> DEFINE Has(u) == /\ F[u] \in Seq(AllSteps)
                     /\ \A w \in u + 1 .. Present : \A i \in DOMAIN Steps[w] :
                           \E j \in DOMAIN F[u] : F[u][j] = Steps[w][i]
           Bad == {n \in Nat : n <= Present - Oldest /\ ~Has(Present - n)}
<1>1. \A u \in Versions : F[u] = IF u = Present THEN <<>> ELSE Steps[u + 1] \o F[u + 1]
  BY DEF Unfolds
<1>2. Bad = {}
  <2> SUFFICES ASSUME Bad # {} PROVE FALSE
    OBVIOUS
  <2>1. PICK m \in Bad : \A n \in Bad : ~(n < m)
    <3>1. Bad \in SUBSET Nat
      OBVIOUS
    <3> HIDE DEF Bad
    <3> QED
      BY <3>1, LeastNumber
  <2>2. m \in Nat /\ m <= Present - Oldest /\ ~Has(Present - m)
    BY <2>1
  <2>3. CASE m = 0
    <3>1. Present \in Versions /\ Present - 0 = Present /\ Present + 1 .. Present = {}
      BY MigrationAssumption DEF Versions
    <3>2. F[Present] = <<>>
      BY <3>1, <1>1
    <3>3. Has(Present)
      BY <3>1, <3>2
    <3> QED
      BY <3>1, <3>3, <2>2, <2>3
  <2>4. CASE m # 0
    <3>1. PICK u : u = Present - m
      OBVIOUS
    <3>2. /\ u \in Versions /\ u # Present /\ u + 1 = Present - (m - 1) /\ u + 1 \in Oldest + 1 .. Present
          /\ m - 1 \in Nat /\ m - 1 < m /\ m - 1 <= Present - Oldest
          /\ \A w \in u + 1 .. Present : w = u + 1 \/ w \in u + 1 + 1 .. Present
      BY <2>2, <2>4, <3>1, MigrationAssumption DEF Versions
    <3>3. Has(Present - (m - 1))
      BY <2>1, <3>2
    <3>4. Has(u + 1)
      BY <3>3, <3>2
    <3>5. PICK A \in Seq(AllSteps) : A = Steps[u + 1]
      BY StepTypes, <3>2
    <3>6. PICK B \in Seq(AllSteps) : B = F[u + 1]
      BY <3>4
    <3>7. F[u] = A \o B
      BY <1>1, <3>2, <3>5, <3>6
    <3>8. /\ A \o B \in Seq(AllSteps)
          /\ Len(A) \in Nat /\ Len(B) \in Nat /\ Len(A \o B) = Len(A) + Len(B)
          /\ \A i \in 1 .. Len(A) : (A \o B)[i] = A[i]
          /\ \A i \in 1 .. Len(B) : (A \o B)[Len(A) + i] = B[i]
      BY ConcatProperties
    <3>9. /\ DOMAIN A = 1 .. Len(A) /\ DOMAIN B = 1 .. Len(B)
          /\ DOMAIN (A \o B) = 1 .. Len(A) + Len(B)
      BY <3>8
    <3>10. ASSUME NEW w \in u + 1 .. Present, NEW i \in DOMAIN Steps[w]
           PROVE  \E j \in DOMAIN F[u] : F[u][j] = Steps[w][i]
      <4>1. CASE w = u + 1
        <5>1. i \in 1 .. Len(A) /\ i \in DOMAIN (A \o B)
          BY <4>1, <3>5, <3>8, <3>9
        <5> QED
          BY <5>1, <4>1, <3>5, <3>7, <3>8
      <4>2. CASE w \in u + 1 + 1 .. Present
        <5>1. PICK j \in DOMAIN B : B[j] = Steps[w][i]
          BY <4>2, <3>4, <3>6
        <5>2. Len(A) + j \in DOMAIN (A \o B) /\ j \in 1 .. Len(B)
          BY <5>1, <3>8, <3>9
        <5> QED
          BY <5>1, <5>2, <3>7, <3>8
      <4> QED
        BY <4>1, <4>2, <3>2
    <3>11. Has(u)
      BY <3>10, <3>7, <3>8
    <3> QED
      BY <3>11, <3>1, <2>2
  <2> QED
    BY <2>3, <2>4
<1>3. Present - Oldest \in Nat /\ Present - (Present - Oldest) = Oldest
  BY MigrationAssumption
<1>4. Has(Oldest)
  BY <1>2, <1>3
<1>5. DOMAIN Steps = Oldest + 1 .. Present
  BY MigrationAssumption
<1> QED
  BY <1>4, <1>5 DEF AllSteps

LEMMA StatementsAll ==
    /\ Statements(Oldest) \in Seq(AllSteps)
    /\ \A s \in AllSteps : \E j \in DOMAIN Statements(Oldest) : Statements(Oldest)[j] = s
<1> DEFINE F == CHOOSE f : Unfolds(f)
<1>1. Unfolds(F)
  BY UnfoldingExists
<1>2. Statements(Oldest) = F[Oldest]
  BY DEF Statements, Unfolds, Versions
<1> HIDE DEF F
<1> QED
  BY <1>1, <1>2, UnfoldingHasAll
LEMMA SequenceTail ==
    ASSUME NEW s \in Seq(AllSteps), s # <<>>
    PROVE  /\ Head(s) \in AllSteps /\ Tail(s) \in Seq(AllSteps)
           /\ \A i \in DOMAIN s : s[i] = Head(s) \/ \E j \in DOMAIN Tail(s) : Tail(s)[j] = s[i]
<1>1. Len(s) \in Nat \ {0} /\ DOMAIN s = 1 .. Len(s)
  BY EmptySeq
<1>2. Head(s) = s[1] /\ Head(s) \in AllSteps
  BY <1>1
<1>3. Tail(s) \in Seq(AllSteps) /\ Len(Tail(s)) = Len(s) - 1
  BY <1>1
<1>4. DOMAIN Tail(s) = 1 .. Len(s) - 1
  BY <1>3
<1>5. \A i \in 1 .. Len(s) - 1 : Tail(s)[i] = s[i + 1]
  BY <1>1
<1>6. ASSUME NEW i \in DOMAIN s, i # 1
      PROVE  \E j \in DOMAIN Tail(s) : Tail(s)[j] = s[i]
  <2>1. i - 1 \in 1 .. Len(s) - 1 /\ i - 1 + 1 = i
    BY <1>1, <1>6
  <2> QED
    BY <2>1, <1>4, <1>5
<1> QED
  BY <1>2, <1>3, <1>6

LEMMA MigrationInitHolds == MigrationInit => MigrationInv
<1> SUFFICES ASSUME MigrationInit PROVE MigrationInv
  OBVIOUS
<1> USE DEF MigrationInit
<1>1. opener \in [Openers -> OpenerState] /\ \A o \in Openers : opener[o].at = "shut"
  BY DEF OpenerState, Shut
<1>2. {partialFile, backup} \subseteq [by : Openers \cup {"nobody"}, holds : SUBSET PresentParts]
  BY DEF NoFile
<1>3. OldParts \ Dropped \subseteq parts /\ parts \subseteq PresentParts
  BY DEF PresentParts
<1>4. \A o \in Openers : OpenerInv(o)
  BY <1>1 DEF OpenerInv, Altering, Passed
<1>5. FileInv
  BY <1>1 DEF FileInv
<1>6. UpgradeIsWhole
  BY MigrationAssumption DEF UpgradeIsWhole
<1> QED
  BY <1>1, <1>2, <1>3, <1>4, <1>5, <1>6 DEF MigrationInv

(* What an opener's state says, by where it is. *)
LEMMA OpenerShape ==
    ASSUME NEW s \in OpenerState
    PROVE  /\ s.at \in Early => s \in [at : Early, from : {Oldest}]
           /\ s.at \in Altering => s \in [at : Altering, left : Seq(AllSteps)]
BY DEF OpenerState, Early, Altering, Passed

(* An opener's own step leaves the others' states; what they say of the    *)
(* catalog and of the files is kept when these change as an opener may.    *)
LEMMA OthersKeep ==
    ASSUME MigrationInv, NEW o \in Openers, NEW s \in OpenerState, Move(o, s),
           undone => undone',
           Added \cap parts \subseteq parts',
           ~undone' => (parts = PresentParts => parts' = PresentParts) \/ \A q \in Openers : opener[q].at \notin Passed,
           OpenerInv(o)'
    PROVE  opener' \in [Openers -> OpenerState] /\ \A q \in Openers : OpenerInv(q)'
<1>1. opener' \in [Openers -> OpenerState] /\ \A q \in Openers \ {o} : opener'[q] = opener[q]
  BY DEF MigrationInv, Move
<1>2. ASSUME NEW q \in Openers, q # o PROVE OpenerInv(q)'
  <2>1. OpenerInv(q) /\ opener'[q] = opener[q]
    BY <1>1, <1>2 DEF MigrationInv
  <2>2. opener[q].at \in Altering =>
          \A p \in Added : p \in parts' \/ \E i \in DOMAIN opener'[q].left : opener'[q].left[i].part = p
    BY <2>1 DEF OpenerInv
  <2>3. opener[q].at \in {"ddl"} \cup Passed => Added \subseteq parts'
    BY <2>1 DEF OpenerInv
  <2>4. opener[q].at \in Passed /\ ~undone' => parts' = PresentParts
    BY <2>1 DEF OpenerInv
  <2> QED
    BY <2>1, <2>2, <2>3, <2>4 DEF OpenerInv
<1> QED
  BY <1>1, <1>2
(* A step that leaves the files alone and does not bring its opener to     *)
(* writing one.                                                            *)
LEMMA FilesKeep ==
    ASSUME MigrationInv, NEW o \in Openers, NEW s \in OpenerState, Move(o, s),
           s.at \notin {"copy", "rename"}, UNCHANGED <<partialFile, doubled>>
    PROVE  ~doubled' => FileInv'
<1>1. \A q \in Openers : opener'[q].at \in {"copy", "rename"} => opener'[q] = opener[q] /\ q # o
  BY DEF MigrationInv, Move
<1> QED
  BY <1>1 DEF MigrationInv, FileInv

(* A step after the backup: it may change the parts and the index.         *)
LEMMA LaterStep ==
    ASSUME MigrationInv, NEW o \in Openers, NEW s \in OpenerState, Move(o, s),
           s.at \notin {"copy", "rename"}, UNCHANGED <<backup, partialFile, doubled>>,
           undone => undone',
           OldParts \ Dropped \subseteq parts' /\ parts' \subseteq PresentParts,
           Added \cap parts \subseteq parts',
           ~undone' => (parts = PresentParts => parts' = PresentParts)
                       \/ (Present \notin versions /\ \A q \in Openers : opener[q].at \notin Passed),
           OpenerInv(o)',
           versions' = versions \/ (versions' = versions \cup {Present} /\ (~undone' => parts' = PresentParts))
    PROVE  MigrationInv'
<1>1. opener' \in [Openers -> OpenerState] /\ \A q \in Openers : OpenerInv(q)'
  BY OthersKeep
<1>2. ~doubled' => FileInv'
  BY FilesKeep
<1>3. versions' \subseteq {Oldest, Present} /\ Oldest \in versions'
  BY DEF MigrationInv
<1>4. UpgradeIsWhole'
  BY DEF UpgradeIsWhole, MigrationInv
<1> QED
  BY <1>1, <1>2, <1>3, <1>4 DEF MigrationInv

LEMMA OpenCatalogHolds ==
    ASSUME MigrationInv, NEW o \in Openers, OpenCatalog(o) PROVE MigrationInv'
<1>1. CurrentVersion = IF Present \in versions THEN Present ELSE Oldest
  <2>1. CASE Present \in versions
    <3>1. versions = {Oldest, Present}
      BY <2>1 DEF MigrationInv
    <3>2. \A v \in versions : (\A w \in versions : w <= v) <=> v = Present
      BY <3>1, MigrationAssumption
    <3> QED
      BY <2>1, <3>2 DEF CurrentVersion
  <2>2. CASE Present \notin versions
    <3>1. versions = {Oldest}
      BY <2>2 DEF MigrationInv
    <3>2. \A v \in versions : (\A w \in versions : w <= v) <=> v = Oldest
      BY <3>1, MigrationAssumption
    <3> QED
      BY <2>2, <3>1, <3>2 DEF CurrentVersion
  <2> QED
    BY <2>1, <2>2
<1>2. PICK s : /\ Move(o, s)
               /\ s = IF CurrentVersion = Present THEN [at |-> "open"]
                      ELSE [at |-> "backup", from |-> CurrentVersion]
  BY DEF OpenCatalog
<1>3. s \in OpenerState /\ s.at \in {"open", "backup"}
  BY <1>1, <1>2 DEF OpenerState, Early
<1>4. opener'[o] = s
  BY <1>2 DEF MigrationInv, Move
<1>5. OpenerInv(o)'
  BY <1>3, <1>4 DEF OpenerInv, Altering, Passed
<1> QED
  BY <1>2, <1>3, <1>5, LaterStep DEF OpenCatalog, MigrationInv

(* The first statement to run is one of them. *)
LEMMA BeginsAltering ==
    ASSUME NEW s, s = [at |-> "alter", left |-> Statements(Oldest)]
    PROVE  /\ s \in OpenerState /\ s.at = "alter"
           /\ \A p \in Added : \E i \in DOMAIN s.left : s.left[i].part = p
<1>1. s \in OpenerState
  BY StatementsAll DEF OpenerState, Altering
<1> QED
  BY <1>1, StatementsAll DEF Added

LEMMA StartBackupHolds ==
    ASSUME MigrationInv, NEW o \in Openers, StartBackup(o) PROVE MigrationInv'
<1>1. opener[o] \in [at : Early, from : {Oldest}] /\ opener[o].at = "backup"
  BY OpenerShape DEF MigrationInv, StartBackup, Early
<1>2. CASE backup # NoFile
  <2>1. PICK s : s = [at |-> "alter", left |-> Statements(Oldest)] /\ Move(o, s)
    BY <1>1, <1>2 DEF StartBackup
  <2>2. opener'[o] = s
    BY <2>1 DEF MigrationInv, Move
  <2>3. s \in OpenerState /\ s.at = "alter" /\ \A p \in Added : \E i \in DOMAIN s.left : s.left[i].part = p
    BY <2>1, BeginsAltering
  <2>4. OpenerInv(o)'
    BY <2>2, <2>3 DEF OpenerInv, Altering, Passed
  <2> QED
    BY <1>2, <2>1, <2>3, <2>4, LaterStep DEF StartBackup, MigrationInv
<1>3. CASE backup = NoFile
  <2>1. PICK s : s = [opener[o] EXCEPT !.at = "copy"] /\ Move(o, s)
    BY <1>3 DEF StartBackup
  <2>2. s \in OpenerState /\ s.at = "copy"
    BY <1>1, <2>1 DEF OpenerState, Early
  <2>3. opener'[o] = s /\ \A q \in Openers : q # o => opener'[q] = opener[q]
    BY <2>1 DEF MigrationInv, Move
  <2>4. OpenerInv(o)'
    BY <2>2, <2>3 DEF OpenerInv, Altering, Passed
  <2>5. opener' \in [Openers -> OpenerState] /\ \A q \in Openers : OpenerInv(q)'
    BY <2>1, <2>2, <2>4, OthersKeep DEF StartBackup
  <2>6. partialFile' = NewFile(o) /\ UNCHANGED <<parts, versions, backup, undone>>
    BY <1>3 DEF StartBackup
  <2>7. ~doubled' => ~doubled /\ \A q \in Openers : q # o => opener[q].at \notin {"copy", "rename"}
    BY <1>3 DEF StartBackup
  <2>8. ~doubled' => FileInv'
    BY <2>2, <2>3, <2>6, <2>7 DEF FileInv, NewFile
  <2>9. partialFile' \in [by : Openers \cup {"nobody"}, holds : SUBSET PresentParts]
    BY <2>6 DEF NewFile
  <2>10. UpgradeIsWhole'
    BY <2>6, <2>7 DEF UpgradeIsWhole, MigrationInv
  <2> QED
    BY <2>5, <2>6, <2>8, <2>9, <2>10 DEF MigrationInv
<1> QED
  BY <1>2, <1>3

LEMMA CopyCatalogHolds ==
    ASSUME MigrationInv, NEW o \in Openers, CopyCatalog(o) PROVE MigrationInv'
<1>1. opener[o] \in [at : Early, from : {Oldest}] /\ opener[o].at = "copy"
  BY OpenerShape DEF MigrationInv, CopyCatalog, Early
<1>2. PICK s : s = [opener[o] EXCEPT !.at = "rename"] /\ Move(o, s)
  BY DEF CopyCatalog
<1>3. s \in OpenerState /\ s.at = "rename"
  BY <1>1, <1>2 DEF OpenerState, Early
<1>4. opener'[o] = s /\ \A q \in Openers : q # o => opener'[q] = opener[q]
  BY <1>2 DEF MigrationInv, Move
<1>5. OpenerInv(o)'
  BY <1>3, <1>4 DEF OpenerInv, Altering, Passed
<1>6. UNCHANGED <<parts, versions, doubled, undone>>
  BY DEF CopyCatalog
<1>7. opener' \in [Openers -> OpenerState] /\ \A q \in Openers : OpenerInv(q)'
  BY <1>2, <1>3, <1>5, <1>6, OthersKeep
<1>8. parts # {} /\ parts \subseteq PresentParts
  BY MigrationAssumption DEF MigrationInv
<1> DEFINE File == [by : Openers \cup {"nobody"}, holds : SUBSET PresentParts]
<1>9. /\ partialFile \in File /\ backup \in File
      /\ partialFile' = IF partialFile.by = o THEN [partialFile EXCEPT !.holds = parts] ELSE partialFile
      /\ backup' = IF backup.by = o THEN [backup EXCEPT !.holds = parts] ELSE backup
  BY DEF CopyCatalog, MigrationInv
<1>10. partialFile' \in File /\ backup' \in File
  BY <1>8, <1>9
<1>11. /\ partialFile'.by = partialFile.by /\ (partialFile.by = o => partialFile'.holds = parts)
       /\ backup' = backup \/ backup'.holds = parts
  BY <1>9
<1>12. ~doubled' => FileInv'
  BY <1>1, <1>3, <1>4, <1>6, <1>8, <1>11 DEF FileInv, MigrationInv
<1>13. UpgradeIsWhole'
  BY <1>6, <1>8, <1>11 DEF UpgradeIsWhole, MigrationInv
<1> QED
  BY <1>6, <1>7, <1>10, <1>12, <1>13 DEF MigrationInv

LEMMA RenameBackupHolds ==
    ASSUME MigrationInv, NEW o \in Openers, RenameBackup(o) PROVE MigrationInv'
<1>1. opener[o] \in [at : Early, from : {Oldest}] /\ opener[o].at = "rename"
  BY OpenerShape DEF MigrationInv, RenameBackup, Nameable, Early
<1>2. CASE partialFile = NoFile
  <2>1. PICK s : s = [at |-> "failed"] /\ Move(o, s)
    BY <1>2 DEF RenameBackup
  <2>2. s \in OpenerState /\ opener'[o] = s
    BY <2>1 DEF MigrationInv, Move, OpenerState
  <2>3. OpenerInv(o)'
    BY <2>1, <2>2 DEF OpenerInv, Altering, Passed
  <2> QED
    BY <1>2, <2>1, <2>2, <2>3, LaterStep DEF RenameBackup, MigrationInv
<1>3. CASE partialFile # NoFile
  <2>1. PICK s : s = [at |-> "alter", left |-> Statements(Oldest)] /\ Move(o, s)
    BY <1>1, <1>3 DEF RenameBackup
  <2>2. opener'[o] = s /\ \A q \in Openers : q # o => opener'[q] = opener[q]
    BY <2>1 DEF MigrationInv, Move
  <2>3. s \in OpenerState /\ s.at = "alter" /\ \A p \in Added : \E i \in DOMAIN s.left : s.left[i].part = p
    BY <2>1, BeginsAltering
  <2>4. OpenerInv(o)'
    BY <2>2, <2>3 DEF OpenerInv, Altering, Passed
  <2>5. UNCHANGED <<parts, versions, doubled, undone>> /\ backup' = partialFile /\ partialFile' = NoFile
    BY <1>3 DEF RenameBackup
  <2>6. opener' \in [Openers -> OpenerState] /\ \A q \in Openers : OpenerInv(q)'
    BY <2>1, <2>3, <2>4, <2>5, OthersKeep
  <2>7. partialFile' \in [by : Openers \cup {"nobody"}, holds : SUBSET PresentParts]
    BY <2>5 DEF NoFile
  <2>8. ~doubled => partialFile.holds # {} /\ \A q \in Openers : q # o => opener[q].at \notin {"copy", "rename"}
    BY <1>1 DEF MigrationInv, FileInv
  <2>9. ~doubled' => FileInv'
    BY <2>2, <2>3, <2>5, <2>8 DEF FileInv
  <2>10. UpgradeIsWhole'
    BY <2>5, <2>8 DEF UpgradeIsWhole, MigrationInv
  <2> QED
    BY <2>5, <2>6, <2>7, <2>9, <2>10 DEF MigrationInv
<1> QED
  BY <1>2, <1>3
LEMMA CheckColumnHolds ==
    ASSUME MigrationInv, NEW o \in Openers, CheckColumn(o) PROVE MigrationInv'
<1>1. opener[o] \in [at : Altering, left : Seq(AllSteps)] /\ opener[o].at = "alter"
  BY OpenerShape DEF MigrationInv, CheckColumn, Altering
<1>2. \A p \in Added : p \in parts \/ \E i \in DOMAIN opener[o].left : opener[o].left[i].part = p
  BY <1>1 DEF MigrationInv, OpenerInv, Altering
<1>3. UNCHANGED <<index, parts, versions, backup, partialFile, doubled, undone>>
  BY DEF CheckColumn
<1>4. CASE opener[o].left = <<>>
  <2>1. PICK s : s = [at |-> "ddl"] /\ Move(o, s)
    BY <1>4 DEF CheckColumn
  <2>2. s \in OpenerState /\ opener'[o] = s
    BY <2>1 DEF MigrationInv, Move, OpenerState
  <2>3. Added \subseteq parts
    BY <1>2, <1>4
  <2>4. OpenerInv(o)'
    BY <1>3, <2>1, <2>2, <2>3 DEF OpenerInv, Altering, Passed
  <2> QED
    BY <1>3, <2>1, <2>2, <2>4, LaterStep DEF MigrationInv
<1>5. CASE opener[o].left # <<>> /\ Skipped(Head(opener[o].left))
  <2>1. PICK s : s = [opener[o] EXCEPT !.left = Tail(@)] /\ Move(o, s)
    BY <1>5 DEF CheckColumn
  <2>2. PICK l \in Seq(AllSteps) : l = opener[o].left /\ l # <<>>
    BY <1>1, <1>5
  <2>3. s.at = "alter" /\ s.left = Tail(l) /\ s \in OpenerState
    BY <1>1, <2>1, <2>2, SequenceTail DEF OpenerState, Altering
  <2>4. opener'[o] = s
    BY <2>1 DEF MigrationInv, Move
  <2>5. Head(l).part \in parts
    BY <1>5, <2>2 DEF Skipped
  <2>6. \A p \in Added : p \in parts \/ \E i \in DOMAIN s.left : s.left[i].part = p
    BY <1>2, <2>2, <2>3, <2>5, SequenceTail
  <2>7. OpenerInv(o)'
    BY <1>3, <2>3, <2>4, <2>6 DEF OpenerInv, Altering, Passed
  <2> QED
    BY <1>3, <2>1, <2>3, <2>7, LaterStep DEF MigrationInv
<1>6. CASE opener[o].left # <<>> /\ ~Skipped(Head(opener[o].left))
  <2>1. PICK s : s = [opener[o] EXCEPT !.at = "execute"] /\ Move(o, s)
    BY <1>6 DEF CheckColumn
  <2>2. s.at = "execute" /\ s.left = opener[o].left /\ s \in OpenerState
    BY <1>1, <2>1 DEF OpenerState, Altering
  <2>3. opener'[o] = s
    BY <2>1 DEF MigrationInv, Move
  <2>4. OpenerInv(o)'
    BY <1>2, <1>3, <1>6, <2>2, <2>3 DEF OpenerInv, Altering, Passed
  <2> QED
    BY <1>3, <2>1, <2>2, <2>4, LaterStep DEF MigrationInv
<1> QED
  BY <1>4, <1>5, <1>6

LEMMA StepsKnown ==
    \A s \in AllSteps : s.op \in {"add", "drop"} /\ s.part \in PresentParts
<1> SUFFICES ASSUME NEW u \in DOMAIN Steps, NEW i \in DOMAIN Steps[u]
             PROVE  Steps[u][i] \in [op : {"add", "drop"}, part : PresentParts]
  BY DEF AllSteps
<1> DEFINE T == [op : {"add", "drop"}, part : PresentParts]
<1>1. Steps[u] \in Seq(T)
  BY MigrationAssumption
<1>2. Steps[u][i] \in T
  <2> HIDE DEF T
  <2> QED
    BY <1>1
<1> QED
  BY <1>2

LEMMA ExecuteHolds ==
    ASSUME MigrationInv, NEW o \in Openers, Execute(o) PROVE MigrationInv'
<1>1. opener[o] \in [at : Altering, left : Seq(AllSteps)] /\ opener[o].at = "execute"
  BY OpenerShape DEF MigrationInv, Execute, Altering
<1>2. PICK l \in Seq(AllSteps) : l = opener[o].left /\ l # <<>>
  BY <1>1 DEF MigrationInv, OpenerInv
<1>3. \A p \in Added : p \in parts \/ \E i \in DOMAIN l : l[i].part = p
  BY <1>1, <1>2 DEF MigrationInv, OpenerInv, Altering
<1>4. UNCHANGED <<versions, backup, partialFile, doubled>>
  BY DEF Execute
<1>5. PICK h \in AllSteps : h = Head(l)
  BY <1>2, SequenceTail
<1>6. h.op \in {"add", "drop"} /\ h.part \in PresentParts
  BY <1>5, StepsKnown
<1>7. undone' = (undone \/ (/\ h.op = "drop"
                            /\ \/ Present \in versions
                               \/ \E q \in Openers : opener[q].at \in {"ddl"} \cup Passed))
  BY <1>2, <1>5 DEF Execute, Passed
<1>8. CASE h.op = "add" /\ h.part \in parts
  <2>1. PICK s : s = [at |-> "failed"] /\ Move(o, s) /\ UNCHANGED parts
    BY <1>2, <1>5, <1>8 DEF Execute
  <2>2. s \in OpenerState /\ opener'[o] = s
    BY <2>1 DEF MigrationInv, Move, OpenerState
  <2>3. OpenerInv(o)'
    BY <2>1, <2>2 DEF OpenerInv, Altering, Passed
  <2>4. undone => undone'
    BY <1>7
  <2> QED
    BY <1>4, <2>1, <2>2, <2>3, <2>4, LaterStep DEF MigrationInv
<1>9. CASE ~(h.op = "add" /\ h.part \in parts)
  <2>1. PICK s : /\ s = [at |-> "alter", left |-> Tail(l)] /\ Move(o, s)
                 /\ parts' = IF h.op = "add" THEN parts \cup {h.part} ELSE parts \ {h.part}
    BY <1>2, <1>5, <1>9 DEF Execute
  <2>2. s \in OpenerState /\ s.at = "alter" /\ s.left = Tail(l)
    BY <1>2, <2>1, SequenceTail DEF OpenerState, Altering
  <2>3. opener'[o] = s
    BY <2>1 DEF MigrationInv, Move
  <2>4. h.op = "drop" => h.part \in Dropped /\ h.part \in DdlParts
    BY <1>5, MigrationAssumption DEF Dropped
  <2>5. Added \cap parts \subseteq parts' /\ OldParts \ Dropped \subseteq parts' /\ parts' \subseteq PresentParts
    BY <1>6, <2>1, <2>4 DEF MigrationInv, Added
  <2>6. h.op = "add" => h.part \in parts'
    BY <2>1
  <2>7. \A p \in Added : p \in parts' \/ \E i \in DOMAIN s.left : s.left[i].part = p
    <3> SUFFICES ASSUME NEW p \in Added, p \notin parts'
                 PROVE  \E i \in DOMAIN s.left : s.left[i].part = p
      OBVIOUS
    <3>1. PICK i \in DOMAIN l : l[i].part = p
      BY <1>3, <2>5
    <3>2. l[i] # h
      BY <1>6, <2>4, <2>6, <3>1 DEF Added
    <3> QED
      BY <1>2, <1>5, <2>2, <3>1, <3>2, SequenceTail
  <2>8. OpenerInv(o)'
    BY <2>2, <2>3, <2>7 DEF OpenerInv, Altering, Passed
  <2>9. /\ undone => undone'
        /\ ~undone' => (parts = PresentParts => parts' = PresentParts)
                       \/ (Present \notin versions /\ \A q \in Openers : opener[q].at \notin Passed)
    BY <1>6, <1>7, <2>1
  <2> QED
    BY <1>4, <2>1, <2>2, <2>5, <2>8, <2>9, LaterStep DEF MigrationInv
<1> QED
  BY <1>8, <1>9

(* A step past the statements: the parts only grow. *)
LEMMA PastStatements ==
    ASSUME MigrationInv, NEW o \in Openers, NEW place \in {"ddl", "open"} \cup Passed, Move(o, [at |-> place]),
           opener[o].at \in {"ddl"} \cup Passed,
           place \in Passed /\ ~undone => parts' = PresentParts,
           parts \subseteq parts', parts' \subseteq PresentParts,
           UNCHANGED <<backup, partialFile, doubled, undone>>,
           versions' = versions \/ (versions' = versions \cup {Present} /\ (~undone => parts' = PresentParts))
    PROVE  MigrationInv'
<1>1. [at |-> place] \in OpenerState /\ place \notin {"copy", "rename"} /\ place \notin Altering
  BY DEF OpenerState, Passed, Altering
<1>2. opener'[o] = [at |-> place]
  BY DEF MigrationInv, Move
<1>3. Added \subseteq parts
  BY DEF MigrationInv, OpenerInv
<1>4. OpenerInv(o)'
  BY <1>1, <1>2, <1>3 DEF OpenerInv, Altering
<1>5. PICK s \in OpenerState : s = [at |-> place] /\ Move(o, s) /\ s.at \notin {"copy", "rename"}
  BY <1>1
<1>6. OldParts \ Dropped \subseteq parts'
  BY DEF MigrationInv
<1> QED
  BY <1>3, <1>4, <1>5, <1>6, LaterStep

LEMMA AllThere ==
    ASSUME MigrationInv, NEW o \in Openers, opener[o].at = "ddl", DdlParts \subseteq parts
    PROVE  parts = PresentParts
<1>1. Added \subseteq parts
  BY DEF MigrationInv, OpenerInv
<1>2. \A s \in AllSteps : s.part \in DdlParts \/ s.part \in Added
  BY DEF Added
<1> QED
  BY <1>1, <1>2, MigrationAssumption DEF MigrationInv, PresentParts

LEMMA DdlHolds ==
    ASSUME MigrationInv, NEW o \in Openers, Ddl(o) PROVE MigrationInv'
<1>1. opener[o].at = "ddl" /\ UNCHANGED <<versions, backup, partialFile, doubled, undone>>
  BY DEF Ddl
<1>2. CASE DdlParts \subseteq parts
  BY <1>1, <1>2, AllThere, PastStatements DEF Ddl, Passed
<1>3. CASE ~(DdlParts \subseteq parts)
  <2>1. PICK part \in DdlParts \ parts : parts' = parts \cup {part} /\ UNCHANGED opener
    BY <1>3 DEF Ddl
  <2>2. opener[o] = [at |-> "ddl"]
    BY <1>1 DEF MigrationInv, OpenerState, Early, Altering, Passed
  <2>3. Move(o, [at |-> "ddl"])
    BY <2>1, <2>2 DEF MigrationInv, Move
  <2>4. parts' \subseteq PresentParts
    BY <2>1 DEF MigrationInv, PresentParts
  <2> QED
    BY <1>1, <2>1, <2>3, <2>4, PastStatements DEF Passed
<1> QED
  BY <1>2, <1>3

LEMMA WhenPassed ==
    ASSUME MigrationInv, NEW o \in Openers, opener[o].at \in Passed
    PROVE  (~undone => parts = PresentParts) /\ parts \subseteq PresentParts
BY DEF MigrationInv, OpenerInv

LEMMA IndexStepsHold ==
    ASSUME MigrationInv, NEW o \in Openers, MakeTables(o) \/ MakeTriggers(o) \/ FillIndex(o)
    PROVE  MigrationInv'
<1>1. opener[o].at \in Passed /\ UNCHANGED <<parts, versions, backup, partialFile, doubled, undone>>
  BY DEF MakeTables, MakeTriggers, FillIndex, Passed
<1>2. PICK place \in Passed : Move(o, [at |-> place])
  BY DEF MakeTables, MakeTriggers, FillIndex, Passed
<1> QED
  BY <1>1, <1>2, WhenPassed, PastStatements

LEMMA StampHolds ==
    ASSUME MigrationInv, NEW o \in Openers, Stamp(o) PROVE MigrationInv'
<1>1. opener[o].at \in Passed /\ "open" \notin Passed
  BY DEF Stamp, Stampable, Passed
<1>2. /\ UNCHANGED <<parts, backup, partialFile, doubled, undone>> /\ Move(o, [at |-> "open"])
      /\ versions' = versions \cup {Present}
  BY DEF Stamp, Recorded
<1> QED
  BY <1>1, <1>2, WhenPassed, PastStatements

LEMMA CrashOpeningHolds ==
    ASSUME MigrationInv, NEW o \in Openers, CrashOpening(o) PROVE MigrationInv'
<1>1. PICK s : s = [at |-> "shut"] /\ Move(o, s)
  BY DEF CrashOpening, Shut
<1>2. s \in OpenerState /\ opener'[o] = s
  BY <1>1 DEF MigrationInv, Move, OpenerState
<1>3. OpenerInv(o)'
  BY <1>1, <1>2 DEF OpenerInv, Altering, Passed
<1> QED
  BY <1>1, <1>2, <1>3, LaterStep DEF CrashOpening, MigrationInv

LEMMA LaterSecondHolds == ASSUME MigrationInv, LaterSecond PROVE MigrationInv'
<1>1. backup' = NoFile /\ UNCHANGED <<parts, versions, partialFile, opener, doubled, undone>>
  BY DEF LaterSecond
<1>2. NoFile \in [by : Openers \cup {"nobody"}, holds : SUBSET PresentParts]
  BY DEF NoFile
<1>3. \A o \in Openers : OpenerInv(o)'
  BY <1>1 DEF OpenerInv, MigrationInv
<1>4. ~doubled' => FileInv'
  BY <1>1 DEF FileInv, MigrationInv
<1> QED
  BY <1>1, <1>2, <1>3, <1>4 DEF MigrationInv, UpgradeIsWhole

(* A catalog whose upgrade is recorded is complete, for any list of        *)
(* versions and statements and any number of programs and crashes, and a   *)
(* file with the name of a backup is a whole catalog, as long as no two    *)
(* programs crossed in the two ways UpgradeIsWhole names.                  *)
THEOREM UpgradeStaysWhole == MigrationSpec => []UpgradeIsWhole
<1>1. MigrationInv /\ [MigrationNext]_migrationVars => MigrationInv'
  <2> SUFFICES ASSUME MigrationInv, [MigrationNext]_migrationVars PROVE MigrationInv'
    OBVIOUS
  <2>1. ASSUME NEW o \in Openers, OpenStep(o) \/ CrashOpening(o) PROVE MigrationInv'
    BY <2>1, OpenCatalogHolds, StartBackupHolds, CopyCatalogHolds, RenameBackupHolds, CheckColumnHolds,
       ExecuteHolds, DdlHolds, IndexStepsHold, StampHolds, CrashOpeningHolds DEF OpenStep
  <2>2. CASE LaterSecond
    BY <2>2, LaterSecondHolds
  <2>3. CASE UNCHANGED migrationVars
    BY <2>3 DEF migrationVars, MigrationInv, OpenerInv, FileInv, UpgradeIsWhole
  <2> QED
    BY <2>1, <2>2, <2>3 DEF MigrationNext
<1>2. MigrationInv => UpgradeIsWhole
  BY DEF MigrationInv
<1> QED
  BY <1>1, <1>2, MigrationInitHolds, PTL DEF MigrationSpec
=============================================================================
