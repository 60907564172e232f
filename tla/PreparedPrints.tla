----------------------------- MODULE PreparedPrints -----------------------------
(***************************************************************************)
(* The temporary store of browser-rendered print pages                     *)
(* (services/prepared_prints.py) and the commit route that consumes it     *)
(* (api/routes_prepared_print.py).  Callers start a session, append its    *)
(* pages in order and commit it; a commit leases the session, reads the    *)
(* pages over many awaits, hands them to the printer and gives the lease   *)
(* back.  Expiry, the reaper, discards and shutdown run in between.        *)
(*                                                                         *)
(* The store's lock makes one operation one step.  Any caller may send any *)
(* request at any time: what the editor really sends is in                 *)
(* PrintPreparation.  Pages are numbered from 1 (the code counts from 0),  *)
(* a page's bytes are its size, and the pixel limit, which is checked      *)
(* like the byte limit, is not told apart from it.                         *)
(***************************************************************************)
EXTENDS Integers, Sequences, FiniteSets, Functions

CONSTANTS Sessions,     \* session ids; uuid4 never repeats one
          Handlers,     \* commit requests that may run at the same time
          MaxSessions,  \* max_sessions
          TTL,          \* ttl_seconds, in ticks
          MaxPages,     \* MAX_PRINT_JOBS
          Sizes,        \* sizes of pages
          MaxBytes,     \* MAX_REQUEST_BYTES
          Stuck,        \* sessions whose directory cannot be removed
          Null

ASSUME StoreAssumption ==
  /\ MaxSessions \in Nat /\ TTL \in Nat /\ MaxPages \in Nat /\ MaxBytes \in Nat
  /\ Sizes \subseteq Nat \ {0}
  /\ Stuck \subseteq Sessions

VARIABLES
  session,  \* [Sessions -> _PreparedPrintSession, or Null when not in _sessions]
  issued,   \* ids handed out so far
  disk,     \* [Sessions -> the files of the session's directory, or Null]
  commit,   \* [Handlers -> the commit in progress, or Null]
  printed,  \* [Sessions -> the page lists handed to the printer]
  stopped   \* _stopped

storeVars == <<session, issued, disk, commit, printed, stopped>>

Indexes == 1..MaxPages
Absent == [size |-> 0, whole |-> FALSE]
File == {Absent} \cup [size : Sizes, whole : BOOLEAN]
Session == [expected : Indexes, paths : Seq(Indexes), bytes : Nat,
            next : Nat, age : 0..TTL, committing : BOOLEAN]
Commit == [id : Sessions, paths : Seq(Indexes), read : Nat,
           sent : BOOLEAN, over : BOOLEAN]

ASSUME NullAssumption ==
  Null \notin Sessions \cup Session \cup Commit \cup [Indexes -> File]

Init ==
  /\ session = [s \in Sessions |-> Null]
  /\ issued = {}
  /\ disk = [s \in Sessions |-> Null]
  /\ commit = [h \in Handlers |-> Null]
  /\ printed = [s \in Sessions |-> <<>>]
  /\ stopped = FALSE

Live == {s \in Sessions : session[s] # Null}
Preparing == {s \in Live : ~session[s].committing}
(* Mutated form of Expired: a session that is being committed expires too. *)
ExpiredAnyway == {s \in Live : session[s].age = TTL}
Expired == {s \in Preparing : session[s].age = TTL}

(* Sessions leave the dictionary and their directories are removed.        *)
Without(S) == [s \in Sessions |-> IF s \in S THEN Null ELSE session[s]]
Cleaned(S) == [s \in Sessions |-> IF s \in S \ Stuck THEN Null ELSE disk[s]]

(* start: expiry comes first, and stays when the start is then refused.    *)
Start(s, n) ==
  /\ s \notin issued
  /\ ~stopped
  /\ Cardinality(Live \ Expired) < MaxSessions
  /\ issued' = issued \cup {s}
  /\ session' = [Without(Expired) EXCEPT ![s] =
                   [expected |-> n, paths |-> <<>>, bytes |-> 0, next |-> 1,
                    age |-> 0, committing |-> FALSE]]
  /\ disk' = [Cleaned(Expired) EXCEPT ![s] = [i \in Indexes |-> Absent]]
  /\ UNCHANGED <<commit, printed, stopped>>

(* reap; also a start that is refused or cannot create its directory.      *)
Reap ==
  /\ Expired # {}
  /\ session' = Without(Expired)
  /\ disk' = Cleaned(Expired)
  /\ UNCHANGED <<issued, commit, printed, stopped>>

(* Every operation on an id looks the session up; an expired one is        *)
(* dropped and reported as not found.                                      *)
LookupExpired(s) ==
  /\ s \in Expired
  /\ session' = Without({s})
  /\ disk' = Cleaned({s})
  /\ UNCHANGED <<issued, commit, printed, stopped>>

Found(s) == s \in Preparing \ Expired

Appendable(s, i, z) ==
  /\ Found(s)
  /\ i = session[s].next /\ i <= session[s].expected
  /\ session[s].bytes + z <= MaxBytes

(* Mutated form of AppendPage: total_bytes is not updated.                 *)
AppendPageUncounted(s, i, z) ==
  /\ Appendable(s, i, z)
  /\ disk[s][i] = Absent
  /\ disk' = [disk EXCEPT ![s][i] = [size |-> z, whole |-> TRUE]]
  /\ session' = [session EXCEPT ![s].paths = Append(@, i),
                                ![s].next = @ + 1, ![s].age = 0]
  /\ UNCHANGED <<issued, commit, printed, stopped>>

AppendPage(s, i, z) ==
  /\ Appendable(s, i, z)
  /\ disk[s][i] = Absent
  /\ disk' = [disk EXCEPT ![s][i] = [size |-> z, whole |-> TRUE]]
  /\ session' = [session EXCEPT ![s].paths = Append(@, i),
                                ![s].bytes = @ + z,
                                ![s].next = @ + 1,
                                ![s].age = 0]
  /\ UNCHANGED <<issued, commit, printed, stopped>>

(* Mutated form of AppendFails: a failed write counts as activity.         *)
AppendFailsTouching(s, i, z) ==
  /\ Appendable(s, i, z)
  /\ session' = [session EXCEPT ![s].age = 0]
  /\ UNCHANGED <<disk, issued, commit, printed, stopped>>

(* The write fails, and so may the removal of what it left.  A file left   *)
(* by an earlier failure makes the exclusive open fail, and is removed.    *)
AppendFails(s, i, z) ==
  /\ Appendable(s, i, z)
  /\ \E left \in {Absent, IF disk[s][i] = Absent
                            THEN [size |-> z, whole |-> FALSE] ELSE disk[s][i]} :
       disk' = [disk EXCEPT ![s][i] = left]
  /\ UNCHANGED <<session, issued, commit, printed, stopped>>

Cancel(s) ==
  /\ Found(s)
  /\ session' = Without({s})
  /\ disk' = Cleaned({s})
  /\ UNCHANGED <<issued, commit, printed, stopped>>

(* A mutated form of Takeable: a committing session may be taken again.    *)
TakeableTwice(s) == s \in Live /\ session[s].next = session[s].expected + 1

Takeable(s) == Found(s) /\ session[s].next = session[s].expected + 1

TakeForCommit(h, s) ==
  /\ commit[h] = Null
  /\ Takeable(s)
  /\ session' = [session EXCEPT ![s].committing = TRUE, ![s].age = 0]
  /\ commit' = [commit EXCEPT ![h] = [id |-> s, paths |-> session[s].paths,
                                      read |-> 0, sent |-> FALSE, over |-> FALSE]]
  /\ UNCHANGED <<issued, disk, printed, stopped>>

(* One turn of _decode_lease_pages: the file is read, then decoded in a    *)
(* thread.  A file that cannot be read ends the commit (Finish).           *)
Readable(s, i) == disk[s] # Null /\ disk[s][i].whole

ReadPage(h) ==
  /\ commit[h] # Null
  /\ commit[h].read < Len(commit[h].paths)
  /\ Readable(commit[h].id, commit[h].paths[commit[h].read + 1])
  /\ commit' = [commit EXCEPT ![h].read = @ + 1]
  /\ UNCHANGED <<session, issued, disk, printed, stopped>>

(* All pages are decoded: the job is submitted and sent to the printer.    *)
Submit(h) ==
  /\ commit[h] # Null
  /\ ~commit[h].sent
  /\ commit[h].read = Len(commit[h].paths)
  /\ commit' = [commit EXCEPT ![h].sent = TRUE]
  /\ printed' = [printed EXCEPT ![commit[h].id] = Append(@, commit[h].paths)]
  /\ UNCHANGED <<session, issued, disk, stopped>>

(* submit_legacy polls the job, without a deadline, until its state is     *)
(* final: the route is waiting, and then its job is over.                  *)
Waiting(h) == commit[h] # Null /\ commit[h].sent /\ ~commit[h].over

JobSettles(h) ==
  /\ Waiting(h)
  /\ commit' = [commit EXCEPT ![h].over = TRUE]
  /\ UNCHANGED <<session, issued, disk, printed, stopped>>

(* The route ends, by success, error or cancellation at any await, and     *)
(* gives the lease back: finish.                                           *)
Finish(h) ==
  /\ commit[h] # Null
  /\ LET s == commit[h].id
         owned == session[s] # Null /\ session[s].committing
     IN /\ session' = IF owned THEN Without({s}) ELSE session
        /\ disk' = IF owned THEN Cleaned({s}) ELSE disk
  /\ commit' = [commit EXCEPT ![h] = Null]
  /\ UNCHANGED <<issued, printed, stopped>>

(* Shutdown: committing sessions are left to their routes.                 *)
Close ==
  /\ ~stopped
  /\ stopped' = TRUE
  /\ session' = Without(Preparing)
  /\ disk' = Cleaned(Preparing)
  /\ UNCHANGED <<issued, commit, printed>>

(* The clock: last_touch is kept as an age, which stops counting at TTL.   *)
Aged(s) == IF session[s] = Null THEN Null
           ELSE [session[s] EXCEPT !.age = IF @ < TTL THEN @ + 1 ELSE @]
Tick ==
  /\ session' = [s \in Sessions |-> Aged(s)]
  /\ UNCHANGED <<issued, disk, commit, printed, stopped>>

Next ==
  \/ \E s \in Sessions, n \in Indexes : Start(s, n)
  \/ \E s \in Sessions, i \in Indexes, z \in Sizes :
       AppendPage(s, i, z) \/ AppendFails(s, i, z)
  \/ \E s \in Sessions : Cancel(s) \/ LookupExpired(s)
  \/ \E h \in Handlers, s \in Sessions : TakeForCommit(h, s)
  \/ \E h \in Handlers : ReadPage(h) \/ Submit(h) \/ JobSettles(h) \/ Finish(h)
  \/ Reap \/ Close \/ Tick

Spec == Init /\ [][Next]_storeVars

(* The clock runs, the reaper loop wakes up every 30 s, and what a route    *)
(* awaits has a deadline, except its job: nothing says that a job is ever  *)
(* over, and a route that polls one need not end.                          *)
Fairness ==
  /\ WF_storeVars(Tick) /\ WF_storeVars(Reap)
  /\ \A h \in Handlers : WF_storeVars(Finish(h) /\ ~Waiting(h))
FairSpec == Spec /\ Fairness

-----------------------------------------------------------------------------
TypeOK ==
  /\ session \in [Sessions -> Session \cup {Null}]
  /\ issued \subseteq Sessions
  /\ disk \in [Sessions -> [Indexes -> File] \cup {Null}]
  /\ commit \in [Handlers -> Commit \cup {Null}]
  /\ printed \in [Sessions -> Seq(Seq(Indexes))]
  /\ stopped \in BOOLEAN

(* While a commit holds its lease every page of the session stays readable *)
(* on disk, whatever expires, is discarded or is shut down meanwhile.      *)
LeaseReadable ==
  \A h \in Handlers : commit[h] # Null =>
    \A k \in 1..Len(commit[h].paths) :
      Readable(commit[h].id, commit[h].paths[k])

Upto(n) == [i \in 1..n |-> i]

PrintedOnce == \A s \in Sessions : Len(printed[s]) <= 1
PrintedInOrder ==
  \A s \in Live : \A k \in 1..Len(printed[s]) :
    printed[s][k] = Upto(session[s].expected)

(* A session goes to the printer at most once, however many commits race,  *)
(* and then as the whole list of its pages in order.                       *)
PrintedWhole == PrintedOnce /\ PrintedInOrder

(* No directory outlives its session, except one that cannot be removed.   *)
DiskOwned == \A s \in Sessions \ Stuck : disk[s] # Null => s \in Live

(* The files of a session, failed writes included, stay in its budget.     *)
DiskBytes(s) == SumFunction([i \in Indexes |-> disk[s][i].size])
DiskBounded == \A s \in Live : DiskBytes(s) <= MaxBytes

(* The disk is accounted for: every directory has an owner within budget.  *)
DiskAccounted == DiskOwned /\ DiskBounded

(* What the proofs add: a session's list is the list of its whole files,   *)
(* only a complete session that is committing is leased, to one commit,    *)
(* and what was printed was leased.                                        *)
SessionInv ==
  \A s \in Live :
    /\ s \in issued
    /\ session[s].next \in 1..(session[s].expected + 1)
    /\ session[s].paths = Upto(session[s].next - 1)
    /\ \A k \in 1..(session[s].next - 1) : Readable(s, k)
    /\ disk[s] # Null
CommitInv ==
  \A h \in Handlers : commit[h] # Null =>
    LET s == commit[h].id
    IN /\ s \in Live \ Preparing
       /\ session[s].next = session[s].expected + 1
       /\ commit[h].paths = Upto(session[s].expected)
       /\ commit[h].read <= session[s].expected
       /\ ~commit[h].sent => printed[s] = <<>>
       /\ \A g \in Handlers : commit[g] # Null /\ commit[g].id = s => g = h
PrintedInv ==
  /\ \A s \in Sessions : printed[s] # <<>> => s \in issued \ Preparing
  /\ PrintedOnce
  /\ PrintedInOrder
StoreInv == TypeOK /\ DiskOwned /\ SessionInv /\ CommitInv /\ PrintedInv

(* Of a session's directory: its pages are what its total counts, a failed *)
(* write may have left one file more, which still fits, and nothing comes  *)
(* after that.                                                             *)
LeftOver(s) == IF session[s].next \in Indexes THEN disk[s][session[s].next].size ELSE 0
DiskInv ==
  \A s \in Live :
    /\ DiskBytes(s) = session[s].bytes + LeftOver(s)
    /\ session[s].bytes + LeftOver(s) <= MaxBytes
    /\ \A k \in Indexes : k > session[s].next => disk[s][k] = Absent

(* Every session ends, printed, discarded or expired, and a caller that    *)
(* keeps failing cannot hold a slot of the store for ever; only a route    *)
(* that waits for its job may keep one, as long as that job is not over.   *)
SessionsEnd ==
  \A s \in Sessions :
    (s \in Live) ~> \/ s \notin Live
                    \/ \E h \in Handlers : Waiting(h) /\ commit[h].id = s
=============================================================================
