------------------------------ MODULE JobSpool ------------------------------
(* The encoded pages of a print, kept in a temporary file                   *)
(* (printing/job_spool.py): all are appended, then read back in order.  A   *)
(* part stands for a write, all parts have one length.                      *)
EXTENDS Naturals, Sequences, SequencesExt

CONSTANTS
  JsMaxBytes,    \* max_bytes, in parts
  JsMaxJobs,     \* MAX_PRINT_JOBS
  JsTrouble      \* failing writes (bound)

ASSUME JobSpoolAssumption == JsMaxBytes \in Nat

VARIABLES
  jsSpool,       \* [file, total, records, next, matchers, at, job, start, given]
  jsLeft         \* failing writes left

jsVars == <<jsSpool, jsLeft>>

JsNothing == [file |-> <<>>, total |-> 0, records |-> <<>>, next |-> 1, matchers |-> <<>>,
              at |-> "open", job |-> <<>>, start |-> 0, given |-> <<>>]
JsInit == jsSpool = JsNothing /\ jsLeft = JsTrouble
JsBreaks == jsLeft > 0 /\ jsLeft' = jsLeft - 1

(* ProtocolJobSpool: a job is its parts and the matcher its reply needs;    *)
(* its record is where it starts, how long it is and its matcher's id.      *)
JsAppend(job) ==
  LET known == {i \in DOMAIN jsSpool.matchers : jsSpool.matchers[i] = job.matcher} IN
  /\ jsSpool.at = "open"
  /\ jsSpool' = IF Len(jsSpool.records) >= JsMaxJobs \/ jsSpool.total + Len(job.parts) > JsMaxBytes
                THEN [jsSpool EXCEPT !.at = "refused"]
                ELSE [jsSpool EXCEPT !.at = "writing", !.job = <<job>>, !.start = Len(jsSpool.file),
                                     !.next = IF known = {} THEN @ + 1 ELSE @]
  /\ UNCHANGED jsLeft

JsWrite ==
  LET written == Len(jsSpool.file) - jsSpool.start
      job == jsSpool.job[1]
      known == {i \in DOMAIN jsSpool.matchers : jsSpool.matchers[i] = job.matcher}
      id == IF known = {} THEN jsSpool.next - 1 ELSE CHOOSE i \in known : TRUE
  IN
  /\ jsSpool.at = "writing"
  /\ jsSpool' =
       IF written < Len(job.parts)
       THEN [jsSpool EXCEPT !.file = Append(@, job.parts[written + 1])]
       ELSE [jsSpool EXCEPT
               !.at = "open", !.job = <<>>, !.start = 0,
               !.records = Append(@, [start |-> jsSpool.start, length |-> written, matcher |-> id]),
               !.matchers = [i \in DOMAIN @ \cup {id} |-> IF i = id THEN job.matcher ELSE @[i]],
               !.total = @ + written,
               !.given = Append(@, job)]
  /\ UNCHANGED jsLeft

(* A write fails, or is short: truncated to where the job began, or, when   *)
(* that fails too, the spool is no longer valid.                            *)
JsFails ==
  /\ JsBreaks /\ jsSpool.at = "writing"
  /\ LET id == jsSpool.next - 1 IN
     jsSpool' \in
       {[jsSpool EXCEPT !.at = "open", !.job = <<>>, !.start = 0,
                        !.file = SubSeq(@, 1, jsSpool.start),
                        !.next = IF id \in DOMAIN jsSpool.matchers THEN @ ELSE id],
        [JsNothing EXCEPT !.at = "invalid"]}

JsClose ==
  /\ jsSpool.at = "open" /\ jsSpool' = [JsNothing EXCEPT !.at = "closed"] /\ UNCHANGED jsLeft

(* __iter__: what reading gives back.                                       *)
JsRead ==
  [i \in DOMAIN jsSpool.records |->
     LET r == jsSpool.records[i] IN
     [parts |-> SubSeq(jsSpool.file, r.start + 1, r.start + r.length),
      matcher |-> jsSpool.matchers[r.matcher]]]

JsJobs == {[parts |-> parts, matcher |-> m] :
             parts \in {<<"a">>, <<"b", "c">>}, m \in {"plain", "strict"}}

JsStep == JsWrite
JsNext == JsStep \/ (\E job \in JsJobs : JsAppend(job)) \/ JsFails \/ JsClose

JsFairness == WF_jsVars(JsStep)
JsSpec == JsInit /\ [][JsNext]_jsVars /\ JsFairness

-----------------------------------------------------------------------------
(* "leaving prior records intact if this append fails" (append): what is    *)
(* read back is what was appended, job by job and with its own matcher,     *)
(* whichever appends failed in between; and the file is as long as is       *)
(* accounted.                                                               *)
JsReadsWhatWasAppended ==
  /\ JsRead = jsSpool.given
  /\ jsSpool.at = "open" => Len(jsSpool.file) = jsSpool.total
  /\ Len(jsSpool.file) <= JsMaxBytes
JsEnded == jsSpool.at # "writing"

(* What the proofs add: where the records lie in the file, and that an id   *)
(* a matcher was given is never given to another one.                       *)
JsAnyJob == [parts : Seq({"a", "b", "c"}), matcher : {"plain", "strict"}]
JsTables == UNION {[ids -> {"plain", "strict"}] : ids \in SUBSET (Nat \ {0})}
JsTypeOK ==
  jsSpool \in [file : Seq({"a", "b", "c"}), total : Nat,
               records : Seq([start : Nat, length : Nat, matcher : Nat]),
               next : Nat, matchers : JsTables, at : {"open", "writing", "refused", "invalid", "closed"},
               job : Seq(JsAnyJob), start : Nat, given : Seq(JsAnyJob)]
JsRecorded(r, job) ==
  /\ r.matcher \in DOMAIN jsSpool.matchers /\ jsSpool.matchers[r.matcher] = job.matcher
  /\ r.length = Len(job.parts) /\ r.start + r.length <= jsSpool.total
  /\ \A k \in 1..r.length : jsSpool.file[r.start + k] = job.parts[k]
JsWritingInv ==
  LET job == jsSpool.job[1] IN
  /\ Len(jsSpool.job) = 1 /\ jsSpool.start = jsSpool.total
  /\ jsSpool.start + Len(job.parts) <= JsMaxBytes
  /\ Len(jsSpool.file) \in jsSpool.start..(jsSpool.start + Len(job.parts))
  /\ \A k \in 1..(Len(jsSpool.file) - jsSpool.start) : jsSpool.file[jsSpool.start + k] = job.parts[k]
  /\ \/ jsSpool.next >= 2 /\ jsSpool.next - 1 \notin DOMAIN jsSpool.matchers
     \/ \E i \in DOMAIN jsSpool.matchers : jsSpool.matchers[i] = job.matcher
JsLayoutInv ==
  /\ jsSpool.next >= 1 /\ DOMAIN jsSpool.matchers \subseteq 1..(jsSpool.next - 1)
  /\ jsSpool.total <= JsMaxBytes
  /\ IF jsSpool.at = "writing" THEN JsWritingInv ELSE Len(jsSpool.file) = jsSpool.total
  /\ Len(jsSpool.records) = Len(jsSpool.given)
  /\ \A i \in 1..Len(jsSpool.records) : JsRecorded(jsSpool.records[i], jsSpool.given[i])
JsInv == JsTypeOK /\ JsLayoutInv
=============================================================================
