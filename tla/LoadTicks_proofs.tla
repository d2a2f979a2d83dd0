-------------------------- MODULE LoadTicks_proofs --------------------------
(***************************************************************************)
(* For any number of files and workers: a load that succeeds has every     *)
(* file, no worker outlives it, and the caller is never left with a path   *)
(* that nobody will take.                                                  *)
(*                                                                         *)
(* The invariant says where a file can be.  It is in one place at most     *)
(* (OnePlace: still to hand out, with one worker, or in the list), and a   *)
(* file that is nowhere is one whose reader has ended, of which there is a *)
(* record (Recorded).  Ended says when a worker may have ended.            *)
(***************************************************************************)
EXTENDS LoadTicks, TLAPS

OnePlace ==
  /\ \A f \in paths : ticks[f] = 0 /\ \A w \in Workers : worker[w] # f
  /\ \A w \in Workers : Reading(w) =>
       /\ ticks[worker[w]] = 0
       /\ \A v \in Workers : worker[v] = worker[w] => v = w

\* That a worker has failed is known, or will be when the caller looks.
Known == errCh # None \/ caller \in {"failing", "error"}

Recorded ==
  \A f \in Files :
    f \in paths \/ ticks[f] = 1 \/ (\E w \in Workers : worker[w] = f) \/ Known

Ended == \A w \in Workers : worker[w] = "ended" => closed \/ Known

Phase ==
  /\ closed <=> caller # "sending"
  /\ caller \in {"waiting", "loaded"} => paths = {}
  /\ Returned => \A w \in Workers : worker[w] = "ended"
  /\ caller = "loaded" => errCh = None

IInv == OnePlace /\ Recorded /\ Ended /\ Phase

-----------------------------------------------------------------------------
\* Initially every file is to be handed out and nobody has it.
LEMMA InitHolds == Init => TypeOK /\ IInv
<1> SUFFICES ASSUME Init PROVE TypeOK /\ IInv
  OBVIOUS
<1>1. \A w \in Workers : worker[w] = "ready" /\ ~Reading(w) /\ worker[w] \notin Files
  BY LoadTicksAssumption DEF Init, Reading
<1>2. TypeOK
  <2>1. unreadable \subseteq Files /\ paths \subseteq Files /\ closed \in BOOLEAN
        /\ errCh \in Files \cup {None} /\ caller \in Caller
    BY DEF Init, Caller
  <2>2. worker \in [Workers -> Files \cup {"ready", "ended"}]
    BY DEF Init
  <2>3. ticks \in [Files -> 0 .. 1]
    BY DEF Init
  <2> QED
    BY <2>1, <2>2, <2>3 DEF TypeOK
<1>3. OnePlace
  BY <1>1 DEF Init, OnePlace
<1>4. Recorded /\ Ended /\ Phase
  BY <1>1 DEF Init, Recorded, Ended, Phase, Returned
<1> QED
  BY <1>2, <1>3, <1>4 DEF IInv

\* What a worker does keeps the types: what it reads is in the list for the
\* first time.
LEMMA TypeHolds == TypeOK /\ IInv /\ [Next]_vars => TypeOK'
<1> SUFFICES ASSUME TypeOK, IInv, [Next]_vars PROVE TypeOK'
  OBVIOUS
<1> USE DEF TypeOK, Caller
<1>1. ASSUME NEW w \in Workers, NEW f \in Files, Send(w, f) PROVE TypeOK'
  BY <1>1 DEF Send, Rest
<1>2. CASE SeeError
  BY <1>2 DEF SeeError
<1>3. CASE Close
  BY <1>3 DEF Close
<1>4. CASE Return
  BY <1>4 DEF Return, Outcome
<1>5. ASSUME NEW w \in Workers, Load(w) PROVE TypeOK'
  <2>1. worker[w] \in Files /\ ticks[worker[w]] = 0
    BY <1>5 DEF Load, Reading, IInv, OnePlace
  <2>2. ticks' \in [Files -> 0 .. 1]
    BY <1>5, <2>1 DEF Load
  <2> QED
    BY <1>5, <2>2 DEF Load
<1>6. ASSUME NEW w \in Workers, Fails(w) PROVE TypeOK'
  BY <1>6 DEF Fails, Kept, Reading
<1>7. ASSUME NEW w \in Workers, End(w) PROVE TypeOK'
  BY <1>7 DEF End
<1>8. ASSUME NEW f \in Files, Vanish(f) PROVE TypeOK'
  BY <1>8 DEF Vanish
<1>9. CASE UNCHANGED vars
  BY <1>9 DEF vars
<1> QED
  BY <1>1, <1>2, <1>3, <1>4, <1>5, <1>6, <1>7, <1>8, <1>9 DEF Next, Step

-----------------------------------------------------------------------------
LEMMA OnePlaceHolds == TypeOK /\ IInv /\ [Next]_vars => OnePlace'
<1> SUFFICES ASSUME TypeOK, IInv, [Next]_vars PROVE OnePlace'
  OBVIOUS
<1>0. /\ None \notin Files /\ "ready" \notin Files /\ "ended" \notin Files
      /\ worker \in [Workers -> Files \cup {"ready", "ended"}]
      /\ ticks \in [Files -> 0 .. 1] /\ paths \subseteq Files
  BY LoadTicksAssumption DEF TypeOK
<1>a. OnePlace
  BY DEF IInv
<1>1. ASSUME NEW w \in Workers, NEW f \in Files, Send(w, f) PROVE OnePlace'
  <2>1. worker' = [worker EXCEPT ![w] = f] /\ paths' = paths \ {f} /\ ticks' = ticks
        /\ f \in paths /\ ticks[f] = 0
    BY <1>1, <1>a DEF Send, Rest, OnePlace
  <2>2. \A v \in Workers : v # w => worker'[v] = worker[v] /\ worker[v] # f
    BY <2>1, <1>0, <1>a DEF OnePlace
  <2>3. worker'[w] = f
    BY <2>1, <1>0
  <2>4. \A g \in paths' : ticks'[g] = 0 /\ \A v \in Workers : worker'[v] # g
    BY <2>1, <2>2, <2>3, <1>a DEF OnePlace
  <2>5. ASSUME NEW v \in Workers, worker'[v] \in Files
        PROVE  /\ ticks'[worker'[v]] = 0
               /\ \A u \in Workers : worker'[u] = worker'[v] => u = v
    BY <2>1, <2>2, <2>3, <2>5, <1>a DEF OnePlace, Reading
  <2> QED
    BY <2>4, <2>5 DEF OnePlace, Reading
<1>2. ASSUME NEW w \in Workers, Load(w) PROVE OnePlace'
  <2>1. worker' = [worker EXCEPT ![w] = "ready"] /\ paths' = paths
        /\ worker[w] \in Files /\ worker[w] \notin paths
        /\ ticks' = [ticks EXCEPT ![worker[w]] = @ + 1]
    BY <1>2, <1>a DEF Load, Reading, OnePlace
  <2>2. \A v \in Workers : v # w => worker'[v] = worker[v] /\ worker[v] # worker[w]
    BY <2>1, <1>0, <1>a DEF OnePlace, Reading
  <2>3. worker'[w] = "ready"
    BY <2>1, <1>0
  <2>4. \A g \in Files : g # worker[w] => ticks'[g] = ticks[g]
    BY <2>1, <1>0
  <2>5. \A g \in paths' : ticks'[g] = 0 /\ \A v \in Workers : worker'[v] # g
    BY <2>1, <2>2, <2>3, <2>4, <1>0, <1>a DEF OnePlace
  <2>6. ASSUME NEW v \in Workers, worker'[v] \in Files
        PROVE  /\ ticks'[worker'[v]] = 0
               /\ \A u \in Workers : worker'[u] = worker'[v] => u = v
    <3>1. v # w
      BY <2>6, <2>3, <1>0
    <3> QED
      BY <3>1, <2>6, <2>2, <2>3, <2>4, <1>0, <1>a DEF OnePlace, Reading
  <2> QED
    BY <2>5, <2>6 DEF OnePlace, Reading
<1>3. ASSUME NEW w \in Workers, Fails(w) \/ End(w) PROVE OnePlace'
  <2>1. worker' = [worker EXCEPT ![w] = "ended"] /\ paths' = paths /\ ticks' = ticks
    BY <1>3 DEF Fails, End
  <2>2. worker'[w] = "ended" /\ \A v \in Workers : v # w => worker'[v] = worker[v]
    BY <2>1, <1>0
  <2> QED
    BY <2>1, <2>2, <1>0, <1>a DEF OnePlace, Reading
<1>4. CASE UNCHANGED <<paths, worker, ticks>>
  BY <1>4, <1>a DEF OnePlace, Reading
<1> QED
  BY <1>1, <1>2, <1>3, <1>4 DEF Next, Step, SeeError, Close, Return, Vanish, vars

\* A file leaves paths with a worker, and a worker it leaves in the list or with
\* a record in errCh.
LEMMA RecordedHolds == TypeOK /\ IInv /\ [Next]_vars => Recorded' /\ Ended'
<1> SUFFICES ASSUME TypeOK, IInv, [Next]_vars PROVE Recorded' /\ Ended'
  OBVIOUS
<1>0. /\ None \notin Files /\ "ready" \notin Files /\ "ended" \notin Files
      /\ worker \in [Workers -> Files \cup {"ready", "ended"}]
      /\ ticks \in [Files -> 0 .. 1] /\ paths \subseteq Files
      /\ errCh \in Files \cup {None}
  BY LoadTicksAssumption DEF TypeOK
<1>a. Recorded /\ Ended /\ OnePlace
  BY DEF IInv
<1>b. Phase
  BY DEF IInv
<1>1. ASSUME NEW w \in Workers, NEW f \in Files, Send(w, f) PROVE Recorded' /\ Ended'
  <2>1. worker' = [worker EXCEPT ![w] = f] /\ paths' = paths \ {f} /\ worker[w] = "ready"
        /\ UNCHANGED <<ticks, closed, errCh, caller>>
    BY <1>1 DEF Send, Rest
  <2>2. worker'[w] = f /\ \A v \in Workers : v # w => worker'[v] = worker[v]
    BY <2>1, <1>0
  <2>3. Recorded'
    BY <2>1, <2>2, <1>0, <1>a DEF Recorded, Known
  <2> QED
    BY <2>1, <2>2, <2>3, <1>0, <1>a DEF Ended, Known
<1>2. ASSUME NEW w \in Workers, Load(w) PROVE Recorded' /\ Ended'
  <2>1. worker' = [worker EXCEPT ![w] = "ready"] /\ worker[w] \in Files /\ ticks[worker[w]] = 0
        /\ ticks' = [ticks EXCEPT ![worker[w]] = @ + 1]
        /\ UNCHANGED <<paths, closed, errCh, caller>>
    BY <1>2, <1>a DEF Load, Reading, OnePlace
  <2>2. worker'[w] = "ready" /\ \A v \in Workers : v # w => worker'[v] = worker[v]
    BY <2>1, <1>0
  <2>3. ticks'[worker[w]] = 1 /\ \A g \in Files : g # worker[w] => ticks'[g] = ticks[g]
    BY <2>1, <1>0
  <2>4. Recorded'
    BY <2>1, <2>2, <2>3, <1>a DEF Recorded, Known
  <2> QED
    BY <2>1, <2>2, <2>4, <1>0, <1>a DEF Ended, Known
<1>3. ASSUME NEW w \in Workers, Fails(w) PROVE Recorded' /\ Ended'
  <2>1. errCh' # None
    BY <1>3, <1>0 DEF Fails, Kept, Reading
  <2> QED
    BY <2>1 DEF Recorded, Ended, Known
<1>4. ASSUME NEW w \in Workers, End(w) PROVE Recorded' /\ Ended'
  <2>1. worker' = [worker EXCEPT ![w] = "ended"] /\ worker[w] = "ready" /\ closed
        /\ UNCHANGED <<paths, closed, errCh, ticks, caller>>
    BY <1>4 DEF End
  <2>2. \A v \in Workers : v # w => worker'[v] = worker[v]
    BY <2>1, <1>0
  <2>3. Recorded'
    BY <2>1, <2>2, <1>0, <1>a DEF Recorded, Known
  <2> QED
    BY <2>1, <2>3 DEF Ended
<1>5. CASE SeeError
  BY <1>5 DEF SeeError, Recorded, Ended, Known
<1>6. CASE Close
  BY <1>6, <1>a DEF Close, Recorded, Ended, Known
<1>7. CASE Return
  <2>1. closed' /\ UNCHANGED <<paths, ticks, worker>>
    BY <1>7, <1>b DEF Return, Phase
  <2>2. caller' = "error" \/ (errCh' = errCh /\ ~Known)
    BY <1>7, <1>b DEF Return, Outcome, Known
  <2> QED
    BY <2>1, <2>2, <1>a DEF Recorded, Ended, Known
<1>8. CASE UNCHANGED <<paths, closed, errCh, worker, ticks, caller>>
  BY <1>8, <1>a DEF Recorded, Ended, Known
<1> QED
  BY <1>1, <1>2, <1>3, <1>4, <1>5, <1>6, <1>7, <1>8 DEF Next, Step, Vanish, vars

\* The caller goes one way: it closes jobs once, and returns when all have ended.
LEMMA PhaseHolds == TypeOK /\ IInv /\ [Next]_vars => Phase'
<1> SUFFICES ASSUME TypeOK, IInv, [Next]_vars PROVE Phase'
  OBVIOUS
<1>0. /\ "ended" \notin Files /\ worker \in [Workers -> Files \cup {"ready", "ended"}]
      /\ closed \in BOOLEAN /\ caller \in Caller
  BY LoadTicksAssumption DEF TypeOK
<1>a. Phase
  BY DEF IInv
<1>1. ASSUME NEW w \in Workers, NEW f \in Files, Send(w, f) PROVE Phase'
  BY <1>1, <1>a DEF Send, Phase, Returned
<1>2. ASSUME NEW w \in Workers, Load(w) \/ Fails(w) \/ End(w) PROVE Phase'
  <2>1. worker[w] # "ended" /\ UNCHANGED <<paths, closed, caller>>
    BY <1>2, <1>0 DEF Load, Fails, End, Reading
  <2>2. ~Returned
    BY <2>1, <1>a DEF Phase
  <2> QED
    BY <2>1, <2>2, <1>a DEF Phase, Returned
<1>3. CASE SeeError
  BY <1>3, <1>a DEF SeeError, Phase, Returned
<1>4. CASE Close
  BY <1>4, <1>a DEF Close, Phase, Returned
<1>5. CASE Return
  BY <1>5, <1>a DEF Return, Outcome, Phase, Returned, AllEnded
<1>6. CASE UNCHANGED <<paths, closed, errCh, worker, caller>>
  BY <1>6, <1>a DEF Phase, Returned
<1> QED
  BY <1>1, <1>2, <1>3, <1>4, <1>5, <1>6 DEF Next, Step, Vanish, vars

-----------------------------------------------------------------------------
\* The variables keep their types in every reachable state, the list never
\* holds a tick twice, and the invariant of this module holds with it.
THEOREM TypeCorrect == Spec => [](TypeOK /\ IInv)
<1>1. TypeOK /\ IInv /\ [Next]_vars => (TypeOK /\ IInv)'
  <2> SUFFICES ASSUME TypeOK /\ IInv /\ [Next]_vars PROVE TypeOK' /\ IInv'
    OBVIOUS
  <2>1. OnePlace' /\ Recorded' /\ Ended' /\ Phase'
    BY OnePlaceHolds, RecordedHolds, PhaseHolds
  <2> QED
    BY <2>1, TypeHolds DEF IInv
<1> QED
  BY <1>1, InitHolds, PTL DEF Spec

\* A load that succeeds holds the tick of every file: one that is nowhere else
\* has left an error that the caller has not passed over.
THEOREM LoadsAllOrFails == Spec => []AllOrError
<1>1. TypeOK /\ IInv => AllOrError
  <2> SUFFICES ASSUME TypeOK, IInv, caller = "loaded", NEW f \in Files PROVE ticks[f] = 1
    BY DEF AllOrError
  <2>1. paths = {} /\ errCh = None /\ \A w \in Workers : worker[w] = "ended"
    BY DEF IInv, Phase, Returned
  <2>2. \A w \in Workers : worker[w] # f
    BY <2>1, LoadTicksAssumption
  <2> QED
    BY <2>1, <2>2 DEF IInv, Recorded, Known
<1> QED
  BY <1>1, TypeCorrect, PTL

\* The caller outlives all of its workers.
THEOREM CallerIsLast == Spec => []NoneLeftBehind
<1>1. TypeOK /\ IInv => NoneLeftBehind
  BY DEF IInv, Phase, NoneLeftBehind
<1> QED
  BY <1>1, TypeCorrect, PTL

\* The caller is never stuck, however many of the workers have failed.
THEOREM CallerGoesOn == Spec => []NotStuck
<1>1. TypeOK /\ IInv => NotStuck
  <2> SUFFICES ASSUME TypeOK, IInv, caller = "sending", errCh = None
               PROVE  \E w \in Workers : worker[w] # "ended"
    BY DEF NotStuck
  <2>1. ~closed /\ ~Known
    BY DEF IInv, Phase, Known
  <2>2. \A w \in Workers : worker[w] # "ended"
    BY <2>1 DEF IInv, Ended
  <2> QED
    BY <2>2, LoadTicksAssumption
<1> QED
  BY <1>1, TypeCorrect, PTL
=============================================================================
