----------------------------- MODULE LoadTicks -----------------------------
(***************************************************************************)
(* LoadTicksParallel (internal/query/load.go): the board reads all files   *)
(* of the tracker with a pool of workers.  The caller hands out paths over *)
(* an unbuffered channel, a worker that cannot read its file leaves the    *)
(* error in a channel of one place and ends, and the caller gives up at    *)
(* the first error it sees.                                                *)
(*                                                                         *)
(* A definition named Def_Change is a faulty variant of the Def below it.  *)
(***************************************************************************)
EXTENDS Naturals

CONSTANTS
  Files,     \* the files the directory listed
  Workers    \* one per processor

None == "none"

ASSUME LoadTicksAssumption ==
  /\ Workers # {}
  /\ {None, "ready", "ended"} \cap Files = {}

VARIABLES
  unreadable,  \* the files that are invalid, or gone by now
  paths,       \* the files not handed out yet
  closed,      \* jobs is closed
  errCh,       \* the file whose error is in errCh, or None
  worker,      \* worker[w]: "ready", "ended", or the file it reads
  ticks,       \* ticks[f]: how often the list holds the tick of f
  caller       \* where LoadTicksParallel is, or what it has returned

vars == <<unreadable, paths, closed, errCh, worker, ticks, caller>>

Reading(w) == worker[w] \in Files

\* "failing" is the wait of a caller that has taken an error from errCh.
Caller == {"sending", "waiting", "failing", "error", "loaded"}
Returned == caller \in {"error", "loaded"}

\* The list holds no tick twice.
TypeOK ==
  /\ unreadable \subseteq Files
  /\ paths \subseteq Files
  /\ closed \in BOOLEAN
  /\ errCh \in Files \cup {None}
  /\ worker \in [Workers -> Files \cup {"ready", "ended"}]
  /\ ticks \in [Files -> 0 .. 1]
  /\ caller \in Caller

Init ==
  /\ unreadable \in SUBSET Files
  /\ paths = Files
  /\ closed = FALSE
  /\ errCh = None
  /\ worker = [w \in Workers |-> "ready"]
  /\ ticks = [f \in Files |-> 0]
  /\ caller = "sending"

-----------------------------------------------------------------------------
\* The caller hands the next path to a worker that waits for one.
Rest(f) == paths \ {f}

Send(w, f) ==
  /\ caller = "sending"
  /\ f \in paths
  /\ worker[w] = "ready"
  /\ paths' = Rest(f)
  /\ worker' = [worker EXCEPT ![w] = f]
  /\ UNCHANGED <<unreadable, closed, errCh, ticks, caller>>

\* ... or, while it has one to hand out, sees that a worker has failed, ...
SeeError_Never == FALSE /\ UNCHANGED vars

SeeError ==
  /\ caller = "sending"
  /\ paths # {}
  /\ errCh # None
  /\ errCh' = None
  /\ closed' = TRUE
  /\ caller' = "failing"
  /\ UNCHANGED <<unreadable, paths, worker, ticks>>

\* ... or has handed out all of them.
Close ==
  /\ caller = "sending"
  /\ paths = {}
  /\ closed' = TRUE
  /\ caller' = "waiting"
  /\ UNCHANGED <<unreadable, paths, errCh, worker, ticks>>

\* A worker appends the tick it has read and asks for the next path.
Load(w) ==
  /\ Reading(w)
  /\ worker[w] \notin unreadable
  /\ ticks' = [ticks EXCEPT ![worker[w]] = @ + 1]
  /\ worker' = [worker EXCEPT ![w] = "ready"]
  /\ UNCHANGED <<unreadable, paths, closed, errCh, caller>>

\* A worker that cannot read its file leaves the error if there is room, and ends.
Kept(f) == IF errCh = None THEN f ELSE errCh

Fails(w) ==
  /\ Reading(w)
  /\ worker[w] \in unreadable
  /\ errCh' = Kept(worker[w])
  /\ worker' = [worker EXCEPT ![w] = "ended"]
  /\ UNCHANGED <<unreadable, paths, closed, ticks, caller>>

\* A worker that finds jobs closed ends.
End(w) ==
  /\ worker[w] = "ready"
  /\ closed
  /\ worker' = [worker EXCEPT ![w] = "ended"]
  /\ UNCHANGED <<unreadable, paths, closed, errCh, ticks, caller>>

\* When all workers have ended the caller returns: all ticks, or an error.
AllEnded == \A w \in Workers : worker[w] = "ended"

Outcome_Unchecked == IF caller = "failing" THEN "error" ELSE "loaded"
Outcome == IF caller = "failing" \/ errCh # None THEN "error" ELSE "loaded"

Return ==
  /\ caller \in {"waiting", "failing"}
  /\ AllEnded
  /\ caller' = Outcome
  /\ errCh' = IF caller = "waiting" THEN None ELSE errCh
  /\ UNCHANGED <<unreadable, paths, closed, worker, ticks>>

\* Another command deletes a file that was listed.
Vanish(f) ==
  /\ ~Returned
  /\ f \notin unreadable
  /\ unreadable' = unreadable \cup {f}
  /\ UNCHANGED <<paths, closed, errCh, worker, ticks, caller>>

Step ==
  \/ \E w \in Workers, f \in Files : Send(w, f)
  \/ SeeError \/ Close \/ Return
  \/ \E w \in Workers : Load(w) \/ Fails(w) \/ End(w)

Next == Step \/ \E f \in Files : Vanish(f)

Spec == Init /\ [][Next]_vars

\* Goroutines that can go on do; nothing is assumed of the commands that delete.
FairSpec == Spec /\ WF_vars(Step)

-----------------------------------------------------------------------------
(***************************************************************************)
(* Properties                                                              *)
(***************************************************************************)

\* The board is never built from a part of the tracker: what LoadTicksParallel
\* returns without an error is the tick of every file that was listed, once.
AllOrError == caller = "loaded" => \A f \in Files : ticks[f] = 1

\* No worker still reads, or appends to the list, when the caller has returned.
NoneLeftBehind == Returned => \A w \in Workers : worker[w] = "ended"

\* A caller with a path to hand out never waits for nobody: a worker is left to
\* take it, or the error of a worker that is not is in errCh.
NotStuck ==
  caller = "sending" /\ paths # {} =>
    errCh # None \/ \E w \in Workers : worker[w] # "ended"

\* The load ends, whichever files cannot be read and whenever they disappear.
LoadEnds == <>Returned
=============================================================================
