-------------------------------- MODULE Helper --------------------------------
(***************************************************************************)
(* The elevated enumeration helper (core/enum/helper): a child process     *)
(* reads a volume buffer by buffer and forwards each through a pipe, and   *)
(* its parent collects what they hold.                                     *)
(*                                                                         *)
(* A frame is a header and a payload, a header of length zero ends the     *)
(* stream, and the reason of a failure goes through another pipe, which    *)
(* is never full.  The helper may die at any point.                        *)
(***************************************************************************)
EXTENDS Integers, Sequences

CONSTANTS
    Modes,          \* a subset of {"query", "enum", "delta"}
    MaxBuffers,     \* bound on the buffers of the volume
    PipeSize        \* writes the pipe holds before one blocks

ASSUME HelperAssumption ==
    Modes \subseteq {"query", "enum", "delta"} /\ MaxBuffers \in Nat /\ PipeSize \in Nat

VARIABLES
    mode,           \* --mode
    helper,         \* what the child is doing
    onVolume,       \* the buffers the volume would give, and how it fails
    stdout,         \* what the pipe holds: a sequence
    status,         \* the reason the helper wrote, if any
    exitCode,       \* of the child, once it has ended
    parent,         \* what run_helper is doing
    collected       \* the payloads it has

helperVars == <<mode, helper, onVolume, stdout, status, exitCode, parent, collected>>

Terminator == [kind |-> "end", buffer |-> 0]
Header(b) == [kind |-> "header", buffer |-> b]
Payload(b) == [kind |-> "payload", buffer |-> b]

NoReason == "no reason"
Running == -1
Killed == 9

-----------------------------------------------------------------------------
(* How reading the volume can go: buffers 1 .. n, then nothing more, which *)
(* the journal shows with a buffer of a cursor alone and the enumeration   *)
(* of all files with an error (winio.py:185), or a failure instead.        *)
LastWord(m) == IF m = "enum" THEN "eof" ELSE "cursor only"

Outcome(m) ==
    [buffers : 0 .. (IF m = "query" THEN 0 ELSE MaxBuffers),
     ending : {LastWord(m), "denied", "broken"}, sound : BOOLEAN]

HelperGoes(pc) == helper' = pc

(* Writing blocks when the pipe is full, and fails when nobody reads it.   *)
Put(item) ==
    /\ Len(stdout) < PipeSize
    /\ stdout' = Append(stdout, item)

(* The loop over the volume (_stream_buffers): every error is a failure of *)
(* the helper.  As a mutant: every error is the end of the data.           *)
EndsDataAlways(ending) == TRUE

EndsData(ending) == ending = "cursor only"

ReadVolume ==
    /\ helper.at = "reading"
    /\ IF helper.sent < onVolume.buffers
         THEN HelperGoes([helper EXCEPT !.at = "header"]) /\ UNCHANGED <<status>>
       ELSE IF EndsData(onVolume.ending)
         THEN HelperGoes([helper EXCEPT !.at = "ending"]) /\ UNCHANGED <<status>>
       ELSE /\ status' = onVolume.ending
            /\ HelperGoes([helper EXCEPT !.at = "exiting",
                                         !.code = IF onVolume.ending = "denied" THEN 4 ELSE 5])
    /\ UNCHANGED <<mode, onVolume, stdout, exitCode, parent, collected>>

WriteHeader ==
    /\ helper.at = "header"
    /\ Put(Header(helper.sent + 1))
    /\ HelperGoes([helper EXCEPT !.at = "payload"])
    /\ UNCHANGED <<mode, onVolume, status, exitCode, parent, collected>>

WritePayload ==
    /\ helper.at = "payload"
    /\ Put(Payload(helper.sent + 1))
    /\ HelperGoes([helper EXCEPT !.at = "reading", !.sent = @ + 1])
    /\ UNCHANGED <<mode, onVolume, status, exitCode, parent, collected>>

WriteEnd ==
    /\ helper.at = "ending"
    /\ Put(Terminator)
    /\ HelperGoes([helper EXCEPT !.at = "exiting"])
    /\ UNCHANGED <<mode, onVolume, status, exitCode, parent, collected>>

Exit ==
    /\ helper.at = "exiting"
    /\ exitCode' = helper.code
    /\ HelperGoes([helper EXCEPT !.at = "gone"])
    /\ UNCHANGED <<mode, onVolume, stdout, status, parent, collected>>

(* The parent has given up and its end of the pipe is closed. *)
BrokenPipe ==
    /\ helper.at \in {"header", "payload", "ending"} /\ parent.at = "raised"
    /\ status' = "broken pipe"
    /\ HelperGoes([helper EXCEPT !.at = "exiting", !.code = 5])
    /\ UNCHANGED <<mode, onVolume, stdout, exitCode, parent, collected>>

Die ==
    /\ helper.at # "gone"
    /\ exitCode' = Killed
    /\ HelperGoes([helper EXCEPT !.at = "gone"])
    /\ UNCHANGED <<mode, onVolume, stdout, status, parent, collected>>

-----------------------------------------------------------------------------
AtEof == stdout = <<>> /\ helper.at = "gone"

ParentGoes(pc) == parent' = pc

Take == stdout' = Tail(stdout)

(* read_frames, one read at a time: a header or the terminator, a payload. *)
ReadHeader ==
    /\ parent.at = "header" /\ stdout # <<>>
    /\ Take
    /\ ParentGoes([parent EXCEPT !.at = IF Head(stdout) = Terminator THEN "wait" ELSE "payload"])
    /\ UNCHANGED <<mode, helper, onVolume, status, exitCode, collected>>

(* A payload that is no record stream raises an error nobody handles here. *)
ReadPayload ==
    /\ parent.at = "payload" /\ stdout # <<>>
    /\ Take
    /\ IF onVolume.sound
         THEN /\ collected' = Append(collected, Head(stdout).buffer)
              /\ ParentGoes([parent EXCEPT !.at = "header"])
         ELSE /\ ParentGoes([parent EXCEPT !.at = "raised", !.reason = "malformed"])
              /\ UNCHANGED collected
    /\ UNCHANGED <<mode, helper, onVolume, status, exitCode>>

(* The stream ended without its terminator, or inside a frame. *)
Truncated ==
    /\ parent.at \in {"header", "payload"} /\ AtEof
    /\ ParentGoes([parent EXCEPT !.at = "wait", !.error = "protocol"])
    /\ UNCHANGED <<mode, helper, onVolume, stdout, status, exitCode, collected>>

(* process.wait, when the stream has been read. *)
Waitable == parent.at = "wait"

Wait ==
    /\ Waitable
    /\ ParentGoes([parent EXCEPT !.at = "waiting"])
    /\ UNCHANGED <<mode, helper, onVolume, stdout, status, exitCode, collected>>

(* The reason the helper gave, before the symptom. *)
Reason ==
    CASE exitCode # 0 /\ status # NoReason                   -> status
      [] parent.error # NoReason /\ ~(exitCode # 0 /\ status # NoReason) -> parent.error
      [] parent.error = NoReason /\ exitCode # 0 /\ status = NoReason   -> "exited"

Conclude ==
    /\ parent.at = "waiting" /\ exitCode # Running
    /\ IF exitCode = 0 /\ parent.error = NoReason
         THEN ParentGoes([parent EXCEPT !.at = "returned"])
         ELSE ParentGoes([parent EXCEPT !.at = "raised", !.reason = Reason])
    /\ UNCHANGED <<mode, helper, onVolume, stdout, status, exitCode, collected>>

-----------------------------------------------------------------------------
HelperInit ==
    /\ mode \in Modes
    /\ onVolume \in Outcome(mode)
    /\ helper = [at |-> IF mode = "query" /\ onVolume.ending = "cursor only" THEN "ending" ELSE "reading",
                 sent |-> 0, code |-> 0]
    /\ stdout = <<>> /\ status = NoReason /\ exitCode = Running
    /\ parent = [at |-> "header", error |-> NoReason, reason |-> NoReason]
    /\ collected = <<>>

HelperStep == ReadVolume \/ WriteHeader \/ WritePayload \/ WriteEnd \/ Exit \/ BrokenPipe
ParentStep == ReadHeader \/ ReadPayload \/ Truncated \/ Wait \/ Conclude

HelperNext == HelperStep \/ ParentStep \/ Die

(* Both processes run.  Nothing says that the helper must die. *)
HelperFairness == WF_helperVars(HelperStep) /\ WF_helperVars(ParentStep)

HelperSpec == HelperInit /\ [][HelperNext]_helperVars /\ HelperFairness

-----------------------------------------------------------------------------
HelperTypeOK ==
    /\ mode \in Modes /\ onVolume \in Outcome(mode)
    /\ helper.at \in {"reading", "header", "payload", "ending", "exiting", "gone"}
    /\ helper.sent \in 0 .. MaxBuffers
    /\ Len(stdout) <= PipeSize
    /\ parent.at \in {"header", "payload", "wait", "waiting", "returned", "raised"}
    /\ collected \in Seq(1 .. MaxBuffers)

Complete == [i \in 1 .. onVolume.buffers |-> i]

(* A result is returned only if the volume was read to its end, and it has *)
(* every buffer, in order: a helper that died or failed on the way never   *)
(* looks like a volume that ended there.                                   *)
ResultIsComplete ==
    parent.at = "returned" => collected = Complete /\ onVolume.ending = "cursor only"

(* When the helper could say why it failed, its reason is what the caller  *)
(* hears, not what the parent saw of it.                                   *)
HelperReasonWins ==
    parent.at = "raised" /\ parent.reason # "malformed" /\ status # NoReason => parent.reason = status

(* run_helper returns or raises in the end, wherever the helper dies: the  *)
(* two never wait for each other.                                          *)
HelperCallEnds == <>(parent.at \in {"returned", "raised"})

(* The call ends, and a failure is told in the helper's own words where it *)
(* had any.                                                                *)
HelperAnswers == HelperCallEnds /\ []HelperReasonWins

(* What core/enum/winio.py:173-175 says of reading a volume, by either     *)
(* code: it goes on until no records come back.  So a volume that was read *)
(* to its end by a helper that did not die gives a result.                 *)
EndIsNotFailure ==
    parent.at = "raised" => \/ exitCode = Killed \/ ~onVolume.sound
                            \/ onVolume.ending \in {"denied", "broken"}
=============================================================================
