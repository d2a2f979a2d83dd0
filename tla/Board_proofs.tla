---------------------------- MODULE Board_proofs ----------------------------
(***************************************************************************)
(* For any ticks and room, however files change, the stream breaks and     *)
(* answers come: what a card says of being blocked agrees with the cards   *)
(* of its blockers, and a board that is out of date is told, but of the    *)
(* ticks whose last word was lost.                                         *)
(*                                                                         *)
(* The first is inductive with the types, because the client computes      *)
(* the flag from what it shows and not from what the server sent: a change *)
(* of one card's status is the only step that can make another's flag      *)
(* wrong, and updateTick then looks at all the cards that name it.         *)
(***************************************************************************)
EXTENDS Board, TLAPS

\* What the property asks of one card among others.
Agrees(c, others) ==
  c.there /\ ~c.closed =>
    /\ (\E b \in c.by : others[b].there /\ ~others[b].closed) => c.blocked
    /\ (\A b \in c.by : others[b].there /\ others[b].closed) => ~c.blocked

\* A card of nothing is NoCard.
Blank(c) == ~c.there => c = NoCard

LEMMA AgreesIsTrue == BlockedIsTrue <=> \A t \in Ids : Agrees(shown[t], shown)
BY DEF BlockedIsTrue, Agrees

-----------------------------------------------------------------------------
\* A card made of a tick has its type.
LEMMA CardOfType ==
  ASSUME NEW c, NEW others,
         c.there \in BOOLEAN, c.closed \in BOOLEAN, c.by \in SUBSET Ids
  PROVE  CardOf(c, others) \in Card /\ Blank(CardOf(c, others))
<1>1. IsBlocked(c, others) \in BOOLEAN
  BY DEF IsBlocked
<1>2. CASE c.there
  BY <1>1, <1>2 DEF CardOf, Card, Blank
<1>3. CASE ~c.there
  BY <1>3 DEF CardOf, Card, Blank, NoCard
<1> QED
  BY <1>2, <1>3

\* What a card takes from its tick.
LEMMA CardOfFields ==
  ASSUME NEW c, NEW others, c.there \in BOOLEAN
  PROVE  /\ CardOf(c, others).there = c.there
         /\ c.there => /\ CardOf(c, others).closed = c.closed
                       /\ CardOf(c, others).by = c.by
                       /\ CardOf(c, others).blocked = IsBlocked(c, others)
<1>1. CASE c.there
  BY <1>1 DEF CardOf
<1>2. CASE ~c.there
  BY <1>2 DEF CardOf, NoCard
<1> QED
  BY <1>1, <1>2

\* A card made of a tick agrees with what it was made among.
LEMMA CardOfAgrees ==
  ASSUME NEW c, NEW others
  PROVE  Agrees(CardOf(c, others), others)
<1>1. CASE c.there
  BY <1>1 DEF CardOf, Agrees, IsBlocked
<1>2. CASE ~c.there
  BY <1>2 DEF CardOf, Agrees, NoCard
<1> QED
  BY <1>1, <1>2

\* Only where a card's blockers are, and whether they are closed, matters.
LEMMA AgreesDepends ==
  ASSUME NEW c, NEW old, NEW new, c.by \subseteq Ids,
         \A b \in c.by : new[b].there = old[b].there /\ new[b].closed = old[b].closed,
         Agrees(c, old)
  PROVE  Agrees(c, new)
BY DEF Agrees

\* A tick of the files or of an answer has the fields of one.
LEMMA TickType ==
  ASSUME NEW c \in Ticks \cup {Absent}
  PROVE  c.there \in BOOLEAN /\ c.closed \in BOOLEAN /\ c.by \in SUBSET Ids
<1>1. CASE c = Absent
  BY <1>1 DEF Absent
<1>2. CASE c \in Ticks
  <2>1. c.there \in {TRUE} /\ c.closed \in BOOLEAN /\ c.by \in BlockersOf
    BY <1>2 DEF Ticks
  <2> QED
    BY <2>1, BoardAssumption
<1> QED
  BY <1>1, <1>2

Good(cards) ==
  /\ cards \in [Ids -> Card]
  /\ \A t \in Ids : Blank(cards[t])
  /\ \A t \in Ids : Agrees(cards[t], cards)

\* setTicks
LEMMA SetTicksGood ==
  ASSUME NEW d \in Disk
  PROVE  Good(SetTicks(d))
<1> DEFINE new == SetTicks(d)
<1>1. \A t \in Ids : d[t].there \in BOOLEAN /\ d[t].closed \in BOOLEAN /\ d[t].by \in SUBSET Ids
  BY TickType DEF Disk
<1>2. \A t \in Ids : new[t] = CardOf(d[t], d)
  BY DEF SetTicks
<1>3. ASSUME NEW t \in Ids PROVE new[t] \in Card /\ Blank(new[t])
  <2>1. CardOf(d[t], d) \in Card /\ Blank(CardOf(d[t], d))
    BY <1>1, CardOfType
  <2> QED
    BY <2>1, <1>2
<1>4. new \in [Ids -> Card]
  BY <1>3 DEF SetTicks
<1>5. \A b \in Ids : new[b].there = d[b].there /\ (d[b].there => new[b].closed = d[b].closed)
  BY <1>1, <1>2, CardOfFields
<1>6. ASSUME NEW t \in Ids PROVE Agrees(new[t], new)
  <2>1. CASE ~d[t].there
    BY <2>1, <1>5 DEF Agrees
  <2>2. CASE d[t].there
    <3>1. new[t].by = d[t].by /\ new[t].closed = d[t].closed /\ new[t].blocked = IsBlocked(d[t], d)
      BY <2>2, <1>1, <1>2, CardOfFields
    <3>2. d[t].by \subseteq Ids
      BY <1>1
    <3> QED
      BY <3>1, <3>2, <1>5 DEF Agrees, IsBlocked
  <2> QED
    BY <2>1, <2>2
<1> QED
  BY <1>3, <1>4, <1>6 DEF Good

\* removeTick
LEMMA RemoveTickGood ==
  ASSUME NEW t \in Ids, Good(shown)
  PROVE  Good(RemoveTick(t))
<1> DEFINE new == RemoveTick(t)
<1>1. \A u \in Ids : new[u] = IF u = t THEN NoCard ELSE shown[u]
  BY DEF RemoveTick, Good
<1>2. NoCard \in Card /\ Blank(NoCard)
  BY DEF NoCard, Card, Blank
<1>3. new \in [Ids -> Card] /\ \A u \in Ids : Blank(new[u])
  BY <1>1, <1>2 DEF RemoveTick, Good
<1>4. ASSUME NEW u \in Ids PROVE Agrees(new[u], new)
  <2>1. CASE u = t
    BY <2>1, <1>1 DEF Agrees, NoCard
  <2>2. CASE u # t
    <3>1. new[u] = shown[u] /\ Agrees(shown[u], shown) /\ shown[u].by \subseteq Ids
      BY <2>2, <1>1 DEF Good, Card
    <3>2. \A b \in shown[u].by : new[b] = shown[b] \/ ~new[b].there
      BY <3>1, <1>1 DEF NoCard
    <3> QED
      BY <3>1, <3>2 DEF Agrees
  <2> QED
    BY <2>1, <2>2
<1> QED
  BY <1>3, <1>4 DEF Good

\* updateTick
LEMMA UpdateTickGood ==
  ASSUME NEW t \in Ids, NEW c \in Ticks, Good(shown)
  PROVE  Good(UpdateTick(t, c))
<1> DEFINE base == [shown EXCEPT ![t] = CardOf(c, shown)]
           new  == UpdateTick(t, c)
<1>1. c.there \in BOOLEAN /\ c.closed \in BOOLEAN /\ c.by \in SUBSET Ids
  BY TickType
<1>1a. c.there
  BY DEF Ticks
<1>2. \A u \in Ids :
        new[u] = IF u = t THEN CardOf(c, base)
                 ELSE IF shown[u].there /\ t \in shown[u].by /\ Again(t, c)
                      THEN CardOf(shown[u], base) ELSE shown[u]
  BY DEF UpdateTick
<1>3. \A u \in Ids : shown[u] \in Card /\ Blank(shown[u]) /\ Agrees(shown[u], shown)
  BY DEF Good
<1>4. \A u \in Ids : shown[u].there \in BOOLEAN /\ shown[u].closed \in BOOLEAN
                     /\ shown[u].by \in SUBSET Ids
  BY <1>3 DEF Card
<1>5. ASSUME NEW u \in Ids PROVE new[u] \in Card /\ Blank(new[u])
  <2>1. CardOf(c, base) \in Card /\ Blank(CardOf(c, base))
    BY <1>1, CardOfType
  <2>2. CardOf(shown[u], base) \in Card /\ Blank(CardOf(shown[u], base))
    BY <1>4, CardOfType
  <2> QED
    BY <2>1, <2>2, <1>2, <1>3
<1>6. new \in [Ids -> Card]
  BY <1>5 DEF UpdateTick
<1>7. \A b \in Ids : base[b] = IF b = t THEN CardOf(c, shown) ELSE shown[b]
  BY DEF Good
<1>8. \A b \in Ids : new[b].there = base[b].there /\ new[b].closed = base[b].closed
  <2>1. /\ CardOf(c, base).there = CardOf(c, shown).there
        /\ CardOf(c, base).closed = CardOf(c, shown).closed
    BY <1>1a DEF CardOf
  <2>2. ASSUME NEW b \in Ids, shown[b].there
        PROVE  /\ CardOf(shown[b], base).there = shown[b].there
               /\ CardOf(shown[b], base).closed = shown[b].closed
    BY <2>2 DEF CardOf
  <2> SUFFICES ASSUME NEW b \in Ids
              PROVE  new[b].there = base[b].there /\ new[b].closed = base[b].closed
    OBVIOUS
  <2> HIDE DEF new, base
  <2>3. CASE b = t
    <3>1. new[b] = CardOf(c, base) /\ base[b] = CardOf(c, shown)
      BY <2>3, <1>2, <1>7
    <3> QED
      BY <3>1, <2>1
  <2>4. CASE b # t /\ shown[b].there /\ t \in shown[b].by /\ Again(t, c)
    <3>1. new[b] = CardOf(shown[b], base) /\ base[b] = shown[b]
      BY <2>4, <1>2, <1>7
    <3> QED
      BY <3>1, <2>2, <2>4
  <2>5. CASE b # t /\ ~(shown[b].there /\ t \in shown[b].by /\ Again(t, c))
    BY <2>5, <1>2, <1>7
  <2> QED
    BY <2>3, <2>4, <2>5
<1>9. ASSUME NEW u \in Ids PROVE Agrees(new[u], new)
  <2>1. CASE u = t \/ (shown[u].there /\ t \in shown[u].by /\ Again(t, c))
    <3>1. PICK k : new[u] = CardOf(k, base)
      BY <2>1, <1>2
    <3>2. Agrees(new[u], base)
      BY <3>1, CardOfAgrees
    <3>3. new[u].by \subseteq Ids
      BY <1>5 DEF Card
    <3>4. \A b \in new[u].by : new[b].there = base[b].there /\ new[b].closed = base[b].closed
      BY <3>3, <1>8
    <3> HIDE DEF base, new
    <3> QED
      BY <3>2, <3>3, <3>4, AgreesDepends
  <2>2. CASE ~(u = t \/ (shown[u].there /\ t \in shown[u].by /\ Again(t, c)))
    <3>1. new[u] = shown[u]
      BY <2>2, <1>2
    <3>2. CASE ~shown[u].there
      BY <3>1, <3>2 DEF Agrees
    <3>3. CASE t \notin shown[u].by
      <4>1. \A b \in shown[u].by : new[b].there = shown[b].there /\ new[b].closed = shown[b].closed
        BY <3>3, <1>4, <1>7, <1>8
      <4> QED
        BY <3>1, <4>1, <1>3, <1>4, AgreesDepends
    <3>4. CASE ~Again(t, c)
      <4>1. shown[t].there /\ shown[t].closed = c.closed
        BY <3>4, <1>1, <1>1a, <1>4 DEF Again
      <4>2. new[t].there = shown[t].there /\ new[t].closed = shown[t].closed
        <5>1. new[t].there = CardOf(c, shown).there /\ new[t].closed = CardOf(c, shown).closed
          BY <1>7, <1>8
        <5>2. CardOf(c, shown).there /\ CardOf(c, shown).closed = c.closed
          BY <1>1a DEF CardOf
        <5>3. CardOf(c, shown).there \in BOOLEAN /\ shown[t].there \in BOOLEAN
          BY <1>1a, <1>4 DEF CardOf
        <5> QED
          BY <4>1, <5>1, <5>2, <5>3
      <4>3. \A b \in shown[u].by : new[b].there = shown[b].there /\ new[b].closed = shown[b].closed
        <5>1. shown[u].by \subseteq Ids
          BY <1>4
        <5> QED
          BY <4>2, <5>1, <1>7, <1>8
      <4> QED
        BY <3>1, <4>3, <1>3, <1>4, AgreesDepends
    <3> QED
      BY <2>2, <3>2, <3>3, <3>4
  <2> QED
    BY <2>1, <2>2
<1> QED
  BY <1>5, <1>6, <1>9 DEF Good

-----------------------------------------------------------------------------
IInv == TypeOK /\ BlockedIsTrue

\* The parts of the invariant that are not about cards.
Others ==
  /\ disk \in Disk
  /\ events \in Seq(Event)
  /\ known \subseteq Ids /\ timer \in BOOLEAN /\ last \in Event
  /\ stream \in BOOLEAN
  /\ channel \in Seq(Event) /\ Len(channel) <= Room
  /\ requests \subseteq Request /\ asked \in Nat
  /\ error \in BOOLEAN /\ changes \in 0 .. MaxChanges /\ drops \in 0 .. MaxDrops
  /\ missed \subseteq Ids /\ newest \in [Ids -> Nat]

LEMMA Parts == IInv <=> Others /\ Good(shown)
BY DEF IInv, TypeOK, Others, Good, Blank, BlockedIsTrue, Agrees

LEMMA AskType ==
  ASSUME NEW n \in Nat, NEW S \in SUBSET Ids
  PROVE  Ask(n, S) \in Request
<1>1. Unanswered \in Disk
  BY DEF Unanswered, Disk
<1> QED
  BY <1>1 DEF Ask, Request

LEMMA InitHolds == Init => IInv
<1> SUFFICES ASSUME Init PROVE Others /\ Good(shown)
  BY Parts
<1> USE BoardAssumption
<1>0. timer \in BOOLEAN /\ stream \in BOOLEAN /\ error \in BOOLEAN
  BY Zenon DEF Init
<1>1. disk \in Disk /\ events \in Seq(Event) /\ known \subseteq Ids
  <2>1. disk \in Disk /\ events = <<>> /\ known = {}
    BY DEF Init
  <2> QED
    BY <2>1
<1>2. last \in Event
  BY DEF Init, Event
<1>3. channel \in Seq(Event) /\ Len(channel) <= Room
  <2>1. channel = <<>>
    BY DEF Init
  <2> QED
    BY <2>1
<1>4. requests \subseteq Request /\ asked \in Nat
  <2>1. Ask(0, Ids) \in Request
    BY AskType
  <2> QED
    BY <2>1 DEF Init
<1>5. changes \in 0 .. MaxChanges /\ drops \in 0 .. MaxDrops
  <2>1. changes = 0 /\ drops = 0
    BY DEF Init
  <2> QED
    BY <2>1
<1>5a. missed \subseteq Ids /\ newest \in [Ids -> Nat]
  <2>1. missed = {} /\ newest = [t \in Ids |-> 0]
    BY DEF Init
  <2> QED
    BY <2>1
<1>6. Good(shown)
  <2>1. NoCard \in Card /\ Blank(NoCard)
    BY DEF NoCard, Card, Blank
  <2>2. shown = [t \in Ids |-> NoCard]
    BY DEF Init
  <2>3. \A t \in Ids : Agrees(shown[t], shown)
    BY <2>2 DEF Agrees, NoCard
  <2> QED
    BY <2>1, <2>2, <2>3 DEF Good
<1> QED
  BY <1>0, <1>1, <1>2, <1>3, <1>4, <1>5, <1>5a, <1>6 DEF Others

LEMMA StepKeeps == IInv /\ [Next]_vars => IInv'
<1> SUFFICES ASSUME Others, Good(shown), [Next]_vars
             PROVE  Others' /\ Good(shown)'
  BY DEF IInv, TypeOK, Others, Good, Blank, BlockedIsTrue, Agrees
<1> USE BoardAssumption
<1>1. ASSUME NEW t \in Ids, Change(t) PROVE Others' /\ Good(shown)'
  <2>1. PICK c \in Ticks \cup {Absent} :
          /\ disk' = [disk EXCEPT ![t] = c]
          /\ events' = Append(events, [id |-> t, removed |-> c = Absent])
    BY <1>1 DEF Change
  <2>2. disk' \in Disk
    BY <2>1 DEF Others, Disk
  <2>3. events' \in Seq(Event)
    <3>1. [id |-> t, removed |-> c = Absent] \in Event
      BY <1>1 DEF Event
    <3> QED
      BY <2>1, <3>1 DEF Others
  <2>4. known' \subseteq Ids /\ changes' \in 0 .. MaxChanges
    BY <1>1 DEF Change, Others
  <2>5. UNCHANGED <<timer, last, stream, channel, requests, asked, shown, error, drops, missed, newest>>
    BY <1>1 DEF Change, browser
  <2> QED
    BY <2>2, <2>3, <2>4, <2>5 DEF Others, Good
<1>2. ASSUME WatchFiles PROVE Others' /\ Good(shown)'
  <2>1. Head(events) \in Event /\ events' \in Seq(Event)
    BY <1>2 DEF WatchFiles, Others
  <2>2. known' \subseteq Ids /\ timer' \in BOOLEAN /\ last' \in Event
    BY <1>2, <2>1 DEF WatchFiles, Others, server, Event
  <2>3. UNCHANGED <<disk, stream, channel, requests, asked, shown, error, changes, drops, newest>>
    BY <1>2 DEF WatchFiles, browser
  <2>4. missed' \subseteq Ids
    BY <1>2 DEF WatchFiles, Superseded, Others, Event
  <2> QED
    BY <2>1, <2>2, <2>3, <2>4 DEF Others, Good
<1>3. ASSUME Broadcast PROVE Others' /\ Good(shown)'
  <2>1. channel' \in Seq(Event) /\ Len(channel') <= Room
    <3>1. CASE stream /\ Fits
      BY <1>3, <3>1 DEF Broadcast, Others, Fits
    <3>2. CASE ~(stream /\ Fits)
      BY <1>3, <3>2 DEF Broadcast, Others
    <3> QED
      BY <3>1, <3>2
  <2>2. UNCHANGED <<disk, events, known, last, stream, requests, asked, shown, error, changes, drops, newest>>
        /\ timer' = FALSE
    BY <1>3 DEF Broadcast, browser
  <2>3. missed' \subseteq Ids
    BY <1>3 DEF Broadcast, Dropped, Others, Event
  <2> QED
    BY <2>1, <2>2, <2>3 DEF Others, Good
<1>4. ASSUME Connect PROVE Others' /\ Good(shown)'
  <2>1. UNCHANGED <<disk, events, known, timer, last, requests, asked, shown, error, changes, drops, missed, newest>>
        /\ stream' = TRUE /\ channel' = <<>>
    BY <1>4 DEF Connect, browser, server
  <2>2. channel' \in Seq(Event) /\ Len(channel') <= Room
    BY <2>1
  <2> QED
    BY <2>1, <2>2 DEF Others, Good
<1>5. ASSUME Disconnect PROVE Others' /\ Good(shown)'
  <2>1. UNCHANGED <<disk, events, known, timer, last, requests, asked, shown, error, changes, newest>>
        /\ stream' = FALSE /\ channel' = <<>>
    BY <1>5 DEF Disconnect, browser, server
  <2>2. channel' \in Seq(Event) /\ Len(channel') <= Room /\ drops' \in 0 .. MaxDrops
    BY <1>5, <2>1 DEF Disconnect, Others
  <2>3. missed' \subseteq Ids
    <3>1. \A i \in DOMAIN channel : channel[i] \in Event
      BY DEF Others
    <3> QED
      BY <1>5, <3>1 DEF Disconnect, InChannel, Others, Event
  <2> QED
    BY <2>1, <2>2, <2>3 DEF Others, Good
<1>6. ASSUME Receive PROVE Others' /\ Good(shown)'
  <2> DEFINE m == Head(channel)
  <2>1. m \in Event /\ channel' \in Seq(Event) /\ Len(channel') <= Room
    BY <1>6 DEF Receive, Others
  <2>2. m.id \in Ids
    BY <2>1 DEF Event
  <2>3. UNCHANGED <<disk, events, known, timer, last, stream, error, changes, drops, missed>>
    BY <1>6 DEF Receive, server
  <2>4. CASE m.removed
    <3>1. shown' = RemoveTick(m.id) /\ requests' = requests /\ asked' = asked
      BY <1>6, <2>4 DEF Receive
    <3>1a. newest' \in [Ids -> Nat]
      BY <1>6, <2>4 DEF Receive, Others
    <3>2. Good(shown)'
      BY <3>1, <2>2, RemoveTickGood DEF Good
    <3> QED
      BY <2>1, <2>3, <3>1, <3>1a, <3>2 DEF Others
  <2>5. CASE ~m.removed
    <3>1. requests' = requests \cup {Ask(asked, {m.id})} /\ asked' = asked + 1 /\ shown' = shown
         /\ newest' = newest
      BY <1>6, <2>5 DEF Receive, Fetched
    <3>2. Ask(asked, {m.id}) \in Request
      BY <2>2, AskType DEF Others
    <3> QED
      BY <2>1, <2>3, <3>1, <3>2 DEF Others, Good
  <2> QED
    BY <2>4, <2>5
<1>7. ASSUME NEW r \in requests, Serve(r) PROVE Others' /\ Good(shown)'
  <2> DEFINE answer == [t \in Ids |-> IF t \in r.of THEN disk[t] ELSE Absent]
  <2>1. r \in Request
    BY <1>7 DEF Others
  <2>2. answer \in Disk
    BY DEF Others, Disk
  <2>3. [r EXCEPT !.answered = TRUE, !.n = asked, !.answer = answer] \in Request
    BY <2>1, <2>2 DEF Request, Others
  <2>4. requests' \subseteq Request
    BY <1>7, <2>3 DEF Serve, Others
  <2>4a. asked' \in Nat
    <3>1. asked' = asked + 1
      BY <1>7, Zenon DEF Serve
    <3> QED
      BY <3>1 DEF Others
  <2>4b. missed' \subseteq Ids
    <3> DEFINE made == {t \in Ids \ InChannel : Brings(r, t)}
    <3>1. missed' = missed \ made
      BY <1>7 DEF Serve
    <3> HIDE DEF made
    <3> QED
      BY <3>1 DEF Others
  <2>5. UNCHANGED <<disk, events, known, timer, last, stream, channel, shown, error, changes, drops, newest>>
    BY <1>7 DEF Serve, server
  <2> QED
    BY <2>4, <2>4a, <2>4b, <2>5 DEF Others, Good
<1>8. ASSUME NEW r \in requests, AnswerList(r) PROVE Others' /\ Good(shown)'
  <2>1. r.answer \in Disk
    BY <1>8 DEF Others, Request
  <2>2. shown' = SetTicks(r.answer) /\ error' = FALSE /\ requests' \subseteq requests
    BY <1>8 DEF AnswerList
  <2>3. Good(shown)'
    BY <2>1, <2>2, SetTicksGood DEF Good
  <2>3a. newest' \in [Ids -> Nat] /\ missed' \subseteq Ids
    <3>1. r.n \in Nat /\ r.of \subseteq Ids
      BY <1>8 DEF Others, Request
    <3>2. \A t \in Ids : Latest(r, t) \in Nat
      BY <3>1 DEF Latest, Others
    <3> QED
      BY <1>8, <3>1, <3>2 DEF AnswerList, Overtaken, Others
  <2>4. UNCHANGED <<disk, events, known, timer, last, stream, channel, asked, changes, drops>>
    BY <1>8 DEF AnswerList, server
  <2> QED
    BY <2>2, <2>3, <2>3a, <2>4 DEF Others
<1>9. ASSUME NEW r \in requests, NEW t \in Ids, AnswerTick(r, t) PROVE Others' /\ Good(shown)'
  <2>1. r.answer[t] \in Ticks \cup {Absent}
    BY <1>9 DEF Others, Request, Disk
  <2>2. requests' \subseteq requests
    BY <1>9 DEF AnswerTick
  <2>3. UNCHANGED <<disk, events, known, timer, last, stream, channel, asked, changes, drops>>
    BY <1>9 DEF AnswerTick, server
  <2>4. CASE r.answer[t].there
    <3>1. shown' = UpdateTick(t, r.answer[t]) /\ error' = error
      BY <1>9, <2>4 DEF AnswerTick
    <3>2. r.answer[t] \in Ticks
      BY <2>1, <2>4 DEF Absent
    <3>3. Good(shown)'
      BY <3>1, <3>2, UpdateTickGood DEF Good
    <3>4. newest' \in [Ids -> Nat] /\ missed' \subseteq Ids
      <4>1. r.n \in Nat /\ r.of \subseteq Ids
        BY <1>9 DEF Others, Request
      <4>2. Latest(r, t) \in Nat
        BY <4>1 DEF Latest, Others
      <4> QED
        BY <1>9, <2>4, <4>1, <4>2 DEF AnswerTick, Overtaken, Others
    <3> QED
      BY <2>2, <2>3, <3>1, <3>3, <3>4 DEF Others
  <2>5. CASE ~r.answer[t].there
    <3>1. error' = TRUE /\ shown' = shown /\ missed' = missed /\ newest' = newest
      BY <1>9, <2>5 DEF AnswerTick
    <3> QED
      BY <2>2, <2>3, <3>1 DEF Others, Good
  <2> QED
    BY <2>4, <2>5
<1>10. ASSUME NEW r \in requests, Lose(r) PROVE Others' /\ Good(shown)'
  <2>1. UNCHANGED <<disk, events, known, timer, last, stream, channel, asked, shown, changes, newest>>
    BY <1>10 DEF Lose, server
  <2>2. requests' \subseteq requests /\ error' = TRUE /\ drops' \in 0 .. MaxDrops
         /\ missed' \subseteq Ids
    BY <1>10 DEF Lose, Others, Request
  <2> QED
    BY <2>1, <2>2 DEF Others, Good
<1>11. ASSUME UNCHANGED vars PROVE Others' /\ Good(shown)'
  BY <1>11 DEF vars, Others, Good
<1> QED
  BY <1>1, <1>2, <1>3, <1>4, <1>5, <1>6, <1>7, <1>8, <1>9, <1>10, <1>11 DEF Next, System

-----------------------------------------------------------------------------
THEOREM InvariantHolds == Spec => []IInv
BY InitHolds, StepKeeps, PTL DEF Spec

\* The client's store, the server's channel and the requests keep
\* their shape; a tick that is not there leaves no card behind.
THEOREM TypeCorrect == Spec => []TypeOK
<1>1. IInv => TypeOK
  BY DEF IInv
<1> QED
  BY <1>1, InvariantHolds, PTL

\* However events are lost, answers overtake each other and ticks come and go,
\* a card never contradicts the cards of its blockers.
THEOREM BlockedNeverLies == Spec => []BlockedIsTrue
<1>1. IInv => BlockedIsTrue
  BY DEF IInv
<1> QED
  BY <1>1, InvariantHolds, PTL

-----------------------------------------------------------------------------
(***************************************************************************)
(* A board that is out of date will be told.  NewsInv says what is under   *)
(* way for a tick that is not shown as it is, if the last word of it was   *)
(* not lost; the rest says why that brings the tick as it is now.  The     *)
(* last event of a tick, and the last message, say whether it is there,    *)
(* unless a later one is still with the server; and of the answers that    *)
(* are taken for news the one that was read last is shown last.            *)
(***************************************************************************)
Gone(t) == ~disk[t].there
IsLast(q, i) == \A j \in DOMAIN q : q[j].id = q[i].id => j <= i

\* The server has yet to take a change of a tick, and yet to tell of one.
Pending(t) == \E i \in DOMAIN events : events[i].id = t /\ (events[i].removed \/ t \notin known)
Announced(t) == Pending(t) \/ (timer /\ last.id = t)

\* Answers that would be taken for news of a tick.
Late(t) == {r \in requests : r.answered /\ t \in r.of /\ newest[t] <= r.n}

Wanted(t) == \E r \in requests : ~r.answered /\ Brings(r, t)
Served(t) ==
  \E r \in Late(t) : /\ Brings(r, t) /\ r.answer[t] = disk[t]
                     /\ \A s \in Late(t) : r.n < s.n => s.answer[t] = disk[t]
Settled(t) == Current(t) /\ \A s \in Late(t) : s.answer[t] = disk[t]
Fetching(t) == Wanted(t) \/ Served(t) \/ Settled(t)

EventsInv ==
  \A t \in Ids : \A i \in DOMAIN events :
    events[i].id = t /\ IsLast(events, i) => (events[i].removed <=> Gone(t))

TimerInv ==
  \A t \in Ids : timer /\ last.id = t => Pending(t) \/ (last.removed <=> Gone(t))

ChannelInv ==
  \A t \in Ids : \A i \in DOMAIN channel :
    channel[i].id = t /\ IsLast(channel, i) =>
      t \in missed \/ Announced(t) \/ (channel[i].removed <=> Gone(t))

RequestsInv ==
  /\ \A r \in requests : r.n < asked /\ (r.of = Ids \/ \E t \in Ids : r.of = {t})
  /\ \A r, s \in requests : r.n = s.n => r = s
  /\ \A t \in Ids : newest[t] <= asked

NewsInv == \A t \in Ids \ missed : Announced(t) \/ t \in InChannel \/ Fetching(t)

ServerInv  == EventsInv /\ TimerInv
BrowserInv == ChannelInv /\ (~stream => channel = <<>>) /\ RequestsInv /\ NewsInv

LEMMA NewsInit == Init => ServerInv /\ BrowserInv
<1> SUFFICES ASSUME Init PROVE ServerInv /\ BrowserInv
  OBVIOUS
<1>1. events = <<>> /\ timer = FALSE /\ channel = <<>>
  BY DEF Init
<1>2. requests = {Ask(0, Ids)} /\ asked = 1 /\ newest = [t \in Ids |-> 0]
  BY DEF Init
<1>3. ServerInv
  BY <1>1 DEF ServerInv, EventsInv, TimerInv
<1>4. ChannelInv /\ (~stream => channel = <<>>)
  BY <1>1 DEF ChannelInv
<1>5. RequestsInv
  BY <1>2 DEF RequestsInv, Ask
<1>6. NewsInv
  <2>1. \A t \in Ids : Wanted(t)
    BY <1>2 DEF Wanted, Brings, Ask
  <2> QED
    BY <2>1 DEF NewsInv, Fetching
<1> QED
  BY <1>3, <1>4, <1>5, <1>6 DEF BrowserInv

\* What a card shows of the tick it was made of, and that an update of one tick
\* leaves what the others show of theirs.
LEMMA ShowsWhatItWas ==
  ASSUME NEW c \in Ticks \cup {Absent}, NEW others
  PROVE  /\ CardOf(c, others).there = c.there
         /\ CardOf(c, others).closed = c.closed
         /\ CardOf(c, others).by = c.by
<1>1. CASE c.there
  BY <1>1 DEF CardOf
<1>2. CASE ~c.there
  <2>1. c = Absent
    BY <1>2 DEF Ticks
  <2> QED
    BY <2>1, <1>2 DEF CardOf, NoCard, Absent
<1> QED
  BY <1>1, <1>2

LEMMA UpdateShows ==
  ASSUME Good(shown), NEW t \in Ids, NEW c \in Ticks
  PROVE  LET new == UpdateTick(t, c) IN
         /\ new[t].there = c.there /\ new[t].closed = c.closed /\ new[t].by = c.by
         /\ \A u \in Ids : u # t =>
              /\ new[u].there = shown[u].there /\ new[u].closed = shown[u].closed
              /\ new[u].by = shown[u].by
<1> DEFINE base == [shown EXCEPT ![t] = CardOf(c, shown)]
           new == UpdateTick(t, c)
<1>1. \A u \in Ids :
        new[u] = IF u = t THEN CardOf(c, base)
                 ELSE IF shown[u].there /\ t \in shown[u].by /\ Again(t, c)
                      THEN CardOf(shown[u], base) ELSE shown[u]
  BY DEF UpdateTick
<1> HIDE DEF base, new
<1>2. \A u \in Ids : shown[u].there =>
        /\ CardOf(shown[u], base).there = shown[u].there
        /\ CardOf(shown[u], base).closed = shown[u].closed
        /\ CardOf(shown[u], base).by = shown[u].by
  BY DEF CardOf
<1>3. new[t].there = c.there /\ new[t].closed = c.closed /\ new[t].by = c.by
  BY <1>1, ShowsWhatItWas
<1>4. \A u \in Ids : u # t =>
        /\ new[u].there = shown[u].there /\ new[u].closed = shown[u].closed
        /\ new[u].by = shown[u].by
  BY <1>1, <1>2
<1> QED
  BY <1>3, <1>4 DEF new

\* Messages that are left when the first is taken.
LEMMA TailOf ==
  ASSUME NEW q \in Seq(Event), q # <<>>
  PROVE  /\ DOMAIN Tail(q) = 1 .. (Len(q) - 1) /\ DOMAIN q = 1 .. Len(q)
         /\ Len(q) \in Nat /\ Len(q) >= 1
         /\ \A i \in DOMAIN Tail(q) : Tail(q)[i] = q[i + 1] /\ i + 1 \in DOMAIN q /\ i \in Nat
         /\ \A i \in DOMAIN q : i # 1 => i - 1 \in DOMAIN Tail(q) /\ Tail(q)[i - 1] = q[i]
         /\ Head(q) = q[1] /\ 1 \in DOMAIN q
         /\ Head(q) \in Event
OBVIOUS

LEMMA Appended ==
  ASSUME NEW q \in Seq(Event), NEW e \in Event
  PROVE  /\ DOMAIN Append(q, e) = 1 .. (Len(q) + 1) /\ DOMAIN q = 1 .. Len(q) /\ Len(q) \in Nat
         /\ \A i \in DOMAIN q : Append(q, e)[i] = q[i] /\ i \in DOMAIN Append(q, e)
         /\ Append(q, e)[Len(q) + 1] = e
         /\ Len(Append(q, e)) = Len(q) + 1
OBVIOUS

-----------------------------------------------------------------------------
\* What a step leaves of these when it does not touch what they are about.
LEMMA ServerKept ==
  ASSUME UNCHANGED <<disk, events, known, timer, last>>
  PROVE  /\ ServerInv => ServerInv'
         /\ \A t \in Ids : (Announced(t)' <=> Announced(t)) /\ (Gone(t)' <=> Gone(t))
BY DEF ServerInv, EventsInv, TimerInv, Announced, Pending, Gone, IsLast

LEMMA FetchingKept ==
  ASSUME NEW t \in Ids, disk'[t] = disk[t], shown'[t].there = shown[t].there,
         shown'[t].closed = shown[t].closed, shown'[t].by = shown[t].by,
         newest'[t] = newest[t], Fetching(t),
         \A r : t \in r.of => (r \in requests' <=> r \in requests)
  PROVE  Fetching(t)'
<1>1. \A r : (r \in Late(t))' <=> r \in Late(t)
  BY DEF Late
<1>2. \A r : Brings(r, t)' <=> Brings(r, t)
  BY DEF Brings
<1>3. Wanted(t) => Wanted(t)'
  BY <1>2 DEF Wanted, Brings
<1>4. Served(t) => Served(t)'
  BY <1>1, <1>2 DEF Served
<1>5. Settled(t) => Settled(t)'
  BY <1>1 DEF Settled, Current
<1> QED
  BY <1>3, <1>4, <1>5 DEF Fetching

LEMMA ChannelKept ==
  ASSUME ChannelInv, UNCHANGED channel, missed \subseteq missed',
         \A t \in Ids : (Announced(t) => Announced(t)') /\ (Announced(t)' \/ (Gone(t)' <=> Gone(t)))
  PROVE  ChannelInv'
BY DEF ChannelInv, IsLast

LEMMA InChannelKept ==
  ASSUME UNCHANGED channel
  PROVE  InChannel' = InChannel
BY DEF InChannel

LEMMA ChangeNews ==
  ASSUME Others, ServerInv, BrowserInv, NEW t \in Ids, Change(t)
  PROVE  ServerInv' /\ BrowserInv'
<1>1. PICK c \in (Ticks \cup {Absent}) \ {disk[t]} :
        /\ disk' = [disk EXCEPT ![t] = c]
        /\ events' = Append(events, [id |-> t, removed |-> c = Absent])
  BY DEF Change
<1> DEFINE e == [id |-> t, removed |-> c = Absent]
<1>2. known' = known \ {t} /\ UNCHANGED <<timer, last, stream, channel, requests, asked, shown, newest, missed>>
  BY DEF Change, browser
<1>3. disk'[t] = c /\ \A u \in Ids : u # t => disk'[u] = disk[u]
  BY <1>1 DEF Others, Disk
<1>4. e \in Event /\ e.id = t /\ (e.removed <=> Gone(t)')
  <2>1. e.removed <=> ~c.there
    <3>1. CASE c = Absent
      BY <3>1 DEF Absent
    <3>2. CASE c # Absent
      <4>1. c \in Ticks
        BY <3>2, <1>1
      <4> QED
        BY <4>1, <3>2 DEF Ticks
    <3> QED
      BY <3>1, <3>2
  <2> QED
    BY <2>1, <1>3 DEF Gone, Event
<1>5. \A u \in Ids : u # t => (Gone(u)' <=> Gone(u))
  BY <1>3 DEF Gone
<1> HIDE DEF e
<1>6. events' = Append(events, e) /\ events \in Seq(Event)
  BY <1>1 DEF e, Others
<1>7. /\ DOMAIN events' = 1 .. (Len(events) + 1) /\ DOMAIN events = 1 .. Len(events) /\ Len(events) \in Nat
      /\ \A i \in DOMAIN events : events'[i] = events[i] /\ i \in DOMAIN events'
      /\ events'[Len(events) + 1] = e
  BY <1>4, <1>6, Appended
<1>8. Pending(t)' /\ \A u \in Ids : Pending(u) => Pending(u)'
  <2>1. Pending(t)'
    <3>1. Len(events) + 1 \in DOMAIN events'
      BY <1>7
    <3> QED
      BY <3>1, <1>2, <1>4, <1>7 DEF Pending
  <2>2. ASSUME NEW u \in Ids, u # t, Pending(u) PROVE Pending(u)'
    BY <2>2, <1>2, <1>7 DEF Pending
  <2> QED
    BY <2>1, <2>2
<1>9. EventsInv'
  <2> SUFFICES ASSUME NEW u \in Ids, NEW i \in DOMAIN events', events'[i].id = u, IsLast(events, i)'
               PROVE  events'[i].removed <=> Gone(u)'
    BY DEF EventsInv
  <2>1. CASE i = Len(events) + 1
    BY <2>1, <1>4, <1>7
  <2>2. CASE i # Len(events) + 1
    <3>1. i \in DOMAIN events /\ events'[i] = events[i] /\ i < Len(events) + 1
      BY <2>2, <1>7
    <3>2. u # t
      BY <3>1, <1>4, <1>7 DEF IsLast
    <3>3. IsLast(events, i)
      BY <3>1, <1>7 DEF IsLast
    <3> QED
      BY <3>1, <3>2, <3>3, <1>5 DEF ServerInv, EventsInv
  <2> QED
    BY <2>1, <2>2
<1>10. TimerInv'
  BY <1>2, <1>5, <1>8 DEF ServerInv, TimerInv
<1>11. \A u \in Ids : (Announced(u) => Announced(u)') /\ (Announced(u)' \/ (Gone(u)' <=> Gone(u)))
  BY <1>2, <1>5, <1>8 DEF Announced
<1>12. ChannelInv' /\ RequestsInv' /\ (~stream' => channel' = <<>>)
  <2>1. ChannelInv'
    BY <1>2, <1>11, ChannelKept DEF BrowserInv
  <2> QED
    BY <2>1, <1>2 DEF BrowserInv, RequestsInv
<1>13. NewsInv'
  <2> SUFFICES ASSUME NEW u \in Ids \ missed
               PROVE  Announced(u)' \/ (u \in InChannel)' \/ Fetching(u)'
    BY <1>2 DEF NewsInv
  <2>1. CASE u = t
    BY <2>1, <1>8 DEF Announced
  <2>2. CASE u # t /\ Announced(u)
    BY <2>2, <1>11
  <2>3. CASE u # t /\ u \in InChannel
    BY <2>3, <1>2, InChannelKept
  <2>4. CASE u # t /\ Fetching(u)
    BY <2>4, <1>2, <1>3, FetchingKept
  <2> QED
    BY <2>1, <2>2, <2>3, <2>4 DEF BrowserInv, NewsInv
<1> QED
  BY <1>9, <1>10, <1>12, <1>13 DEF ServerInv, BrowserInv

LEMMA WatchNews ==
  ASSUME Others, ServerInv, BrowserInv, WatchFiles
  PROVE  ServerInv' /\ BrowserInv'
<1> DEFINE e == Head(events)
<1>1. events # <<>> /\ events \in Seq(Event) /\ events' = Tail(events)
  BY DEF WatchFiles, Others
<1>2. UNCHANGED <<disk, stream, channel, requests, asked, shown, newest>>
  BY DEF WatchFiles, browser
<1>3. /\ DOMAIN events' = 1 .. (Len(events) - 1) /\ DOMAIN events = 1 .. Len(events)
      /\ Len(events) \in Nat
      /\ \A i \in DOMAIN events' : events'[i] = events[i + 1] /\ i + 1 \in DOMAIN events /\ i \in Nat
      /\ \A i \in DOMAIN events : i # 1 => i - 1 \in DOMAIN events' /\ events'[i - 1] = events[i]
      /\ e = events[1] /\ 1 \in DOMAIN events /\ e \in Event
  BY <1>1, TailOf
<1>4. e.id \in Ids /\ e.removed \in BOOLEAN
  BY <1>3 DEF Event
<1> HIDE DEF e
<1>5. \A u \in Ids : Gone(u)' <=> Gone(u)
  BY <1>2 DEF Gone
<1>6. EventsInv'
  <2> SUFFICES ASSUME NEW u \in Ids, NEW i \in DOMAIN events', events'[i].id = u, IsLast(events, i)'
               PROVE  events'[i].removed <=> Gone(u)'
    BY DEF EventsInv
  <2>1. events'[i] = events[i + 1] /\ i + 1 \in DOMAIN events /\ i \in Nat
    BY <1>3
  <2>2. IsLast(events, i + 1)
    <3> SUFFICES ASSUME NEW j \in DOMAIN events, events[j].id = events[i + 1].id
                 PROVE  j <= i + 1
      BY DEF IsLast
    <3>1. CASE j = 1
      BY <3>1, <2>1
    <3>2. CASE j # 1
      <4>1. j - 1 \in DOMAIN events' /\ events'[j - 1] = events[j]
        BY <3>2, <1>3
      <4>2. j - 1 <= i
        BY <4>1, <2>1 DEF IsLast
      <4> QED
        BY <4>2, <1>3, <2>1
    <3> QED
      BY <3>1, <3>2
  <2> QED
    BY <2>1, <2>2, <1>5 DEF ServerInv, EventsInv
\* A later event of the first one's tick.
<1>7. IsLast(events, 1) \/ \E j \in DOMAIN events' : events'[j].id = e.id
  <2> SUFFICES ASSUME ~IsLast(events, 1) PROVE \E j \in DOMAIN events' : events'[j].id = e.id
    OBVIOUS
  <2>1. PICK j \in DOMAIN events : events[j].id = e.id /\ ~(j <= 1)
    BY <1>3 DEF IsLast
  <2>2. j # 1
    BY <2>1
  <2> QED
    BY <2>1, <2>2, <1>3
<1>8. IsLast(events, 1) => (e.removed <=> Gone(e.id))
  BY <1>3, <1>4 DEF ServerInv, EventsInv
<1>9. CASE Spurious(e)
  <2>1. UNCHANGED <<known, timer, last, missed>>
    BY <1>9 DEF WatchFiles, server, e
  <2>2. ASSUME NEW u \in Ids, Pending(u) PROVE Pending(u)'
    <3>1. PICK i \in DOMAIN events : events[i].id = u /\ (events[i].removed \/ u \notin known)
      BY <2>2 DEF Pending
    <3>2. CASE i # 1
      BY <3>1, <3>2, <2>1, <1>3 DEF Pending
    <3>3. CASE i = 1
      <4>1. e.id = u /\ ~e.removed /\ u \notin known /\ disk[u] = Absent
        BY <3>1, <3>3, <1>3, <1>9 DEF Spurious
      <4>2. Gone(u)
        BY <4>1 DEF Gone, Absent
      <4>3. \E j \in DOMAIN events' : events'[j].id = u
        BY <4>1, <4>2, <1>7, <1>8
      <4> QED
        BY <4>1, <4>3, <2>1 DEF Pending
    <3> QED
      BY <3>2, <3>3
  <2>3. TimerInv'
    BY <2>1, <2>2, <1>5 DEF ServerInv, TimerInv
  <2>4. \A u \in Ids : Announced(u) => Announced(u)'
    BY <2>1, <2>2 DEF Announced
  <2>5. ChannelInv'
    BY <2>1, <2>4, <1>2, <1>5, ChannelKept DEF BrowserInv
  <2>6. NewsInv'
    <3> SUFFICES ASSUME NEW u \in Ids \ missed
                 PROVE  Announced(u)' \/ (u \in InChannel)' \/ Fetching(u)'
      BY <2>1 DEF NewsInv
    <3>1. Announced(u) \/ u \in InChannel \/ Fetching(u)
      BY DEF BrowserInv, NewsInv
    <3>2. Fetching(u) => Fetching(u)'
      BY <1>2, FetchingKept
    <3> QED
      BY <3>1, <3>2, <2>4, <1>2, InChannelKept
  <2> QED
    BY <2>3, <2>5, <2>6, <1>2, <1>6 DEF ServerInv, BrowserInv, RequestsInv
<1>10. CASE ~Spurious(e)
  <2>1. /\ missed' = (missed \cup Superseded(e)) \ {e.id}
        /\ known' = IF e.removed THEN known \ {e.id} ELSE known \cup {e.id}
        /\ timer' = TRUE /\ last' = e
    BY <1>10 DEF WatchFiles, e
  <2>2. ASSUME NEW u \in Ids, u # e.id, Pending(u) PROVE Pending(u)'
    <3>1. PICK i \in DOMAIN events : events[i].id = u /\ (events[i].removed \/ u \notin known)
      BY <2>2 DEF Pending
    <3>2. i # 1 /\ (u \in known' <=> u \in known)
      BY <3>1, <2>1, <2>2, <1>3
    <3> QED
      BY <3>1, <3>2, <1>3 DEF Pending
  <2>3. TimerInv'
    <3> SUFFICES ASSUME NEW u \in Ids, u = e.id
                 PROVE  Pending(u)' \/ (e.removed <=> Gone(u))
      BY <2>1, <1>5 DEF TimerInv
    <3>1. CASE e.removed
      <4>1. u \notin known'
        BY <3>1, <2>1
      <4> QED
        BY <4>1, <1>7, <1>8 DEF Pending
    <3>2. CASE ~e.removed
      <4>1. disk[e.id] \in Ticks
        BY <3>2, <1>4, <1>10 DEF Spurious, Others, Disk
      <4> QED
        BY <4>1, <3>2 DEF Gone, Ticks
    <3> QED
      BY <3>1, <3>2
  <2>4. ASSUME NEW u \in Ids
        PROVE  \/ Announced(u)'
               \/ u \in missed'
               \/ ~Announced(u) /\ u \notin missed
    <3>1. CASE u = e.id
      BY <3>1, <2>1 DEF Announced
    <3>2. CASE u # e.id /\ Pending(u)
      BY <3>2, <2>2 DEF Announced
    <3>3. CASE u # e.id /\ ~Pending(u)
      BY <3>3, <2>1 DEF Announced, Superseded
    <3> QED
      BY <3>1, <3>2, <3>3
  <2>5. ChannelInv'
    BY <2>4, <1>2, <1>5 DEF BrowserInv, ChannelInv, IsLast
  <2>6. NewsInv'
    <3> SUFFICES ASSUME NEW u \in Ids, u \notin missed'
                 PROVE  Announced(u)' \/ (u \in InChannel)' \/ Fetching(u)'
      BY DEF NewsInv
    <3>1. Announced(u)' \/ u \in InChannel \/ Fetching(u)
      BY <2>4 DEF BrowserInv, NewsInv
    <3>2. Fetching(u) => Fetching(u)'
      BY <1>2, FetchingKept
    <3> QED
      BY <3>1, <3>2, <1>2, InChannelKept
  <2> QED
    BY <2>3, <2>5, <2>6, <1>2, <1>6 DEF ServerInv, BrowserInv, RequestsInv
<1> QED
  BY <1>9, <1>10

LEMMA BroadcastNews ==
  ASSUME Others, ServerInv, BrowserInv, Broadcast
  PROVE  ServerInv' /\ BrowserInv'
<1>1. /\ timer /\ timer' = FALSE
      /\ channel' = IF stream /\ Fits THEN Append(channel, last) ELSE channel
      /\ missed' = missed \cup Dropped
      /\ UNCHANGED <<disk, events, known, last, stream, requests, asked, shown, newest>>
  BY DEF Broadcast, browser
<1>2. last \in Event /\ last.id \in Ids /\ channel \in Seq(Event)
  BY DEF Others, Event
<1>3. \A u \in Ids : (Gone(u)' <=> Gone(u)) /\ (Pending(u)' <=> Pending(u))
  BY <1>1 DEF Gone, Pending
<1>4. \A u \in Ids : u # last.id => (Announced(u)' <=> Announced(u))
  BY <1>1, <1>3 DEF Announced
<1>5. ServerInv'
  BY <1>1, <1>3 DEF ServerInv, EventsInv, TimerInv, IsLast
<1>6. \A u \in Ids : Fetching(u) => Fetching(u)'
  BY <1>1, FetchingKept
<1>7. RequestsInv'
  BY <1>1 DEF BrowserInv, RequestsInv
<1>8. CASE stream /\ Fits
  <2>1. channel' = Append(channel, last)
    BY <1>1, <1>8
  <2>2. /\ DOMAIN channel' = 1 .. (Len(channel) + 1) /\ DOMAIN channel = 1 .. Len(channel)
        /\ Len(channel) \in Nat
        /\ \A i \in DOMAIN channel : channel'[i] = channel[i] /\ i \in DOMAIN channel'
        /\ channel'[Len(channel) + 1] = last
    BY <1>2, <2>1, Appended
  <2>3. ChannelInv'
    <3> SUFFICES ASSUME NEW u \in Ids, NEW i \in DOMAIN channel', channel'[i].id = u, IsLast(channel, i)'
                 PROVE  u \in missed' \/ Announced(u)' \/ (channel'[i].removed <=> Gone(u)')
      BY DEF ChannelInv
    <3>1. CASE i = Len(channel) + 1
      <4>1. channel'[i] = last
        BY <3>1, <2>2
      <4>2. Pending(u) \/ (last.removed <=> Gone(u))
        BY <4>1, <1>1 DEF ServerInv, TimerInv
      <4> QED
        BY <4>1, <4>2, <1>3 DEF Announced
    <3>2. CASE i # Len(channel) + 1
      <4>1. i \in DOMAIN channel /\ channel'[i] = channel[i] /\ i < Len(channel) + 1
        BY <3>2, <2>2
      <4>2. u # last.id
        BY <4>1, <2>2 DEF IsLast
      <4>3. IsLast(channel, i)
        BY <4>1, <2>2 DEF IsLast
      <4>4. u \in missed \/ Announced(u) \/ (channel[i].removed <=> Gone(u))
        BY <4>1, <4>3 DEF BrowserInv, ChannelInv
      <4> QED
        BY <4>1, <4>2, <4>4, <1>1, <1>3, <1>4
    <3> QED
      BY <3>1, <3>2
  <2>4. last.id \in InChannel' /\ InChannel \subseteq InChannel'
    <3>1. Len(channel) + 1 \in DOMAIN channel'
      BY <2>2
    <3> QED
      BY <3>1, <1>1, <2>2 DEF InChannel
  <2>5. NewsInv'
    BY <2>4, <1>1, <1>4, <1>6 DEF BrowserInv, NewsInv
  <2> QED
    BY <2>3, <2>5, <1>1, <1>5, <1>7, <1>8 DEF BrowserInv
<1>9. CASE ~(stream /\ Fits)
  <2>1. channel' = channel /\ last.id \in missed' /\ missed \subseteq missed'
    BY <1>1, <1>9 DEF Dropped, Fits
  <2>2. ChannelInv'
    BY <2>1, <1>3, <1>4 DEF BrowserInv, ChannelInv, IsLast
  <2>3. NewsInv'
    BY <2>1, <1>4, <1>6, InChannelKept DEF BrowserInv, NewsInv
  <2> QED
    BY <2>1, <2>2, <2>3, <1>1, <1>5, <1>7 DEF BrowserInv
<1> QED
  BY <1>8, <1>9

\* Connect, Disconnect and Lose.
LEMMA BreakNews ==
  ASSUME Others, ServerInv, BrowserInv, Connect \/ Disconnect \/ \E r \in requests : Lose(r)
  PROVE  ServerInv' /\ BrowserInv'
<1>1. UNCHANGED <<disk, events, known, timer, last, asked, shown, newest>>
  BY DEF Connect, Disconnect, Lose, server, browser
<1>2. ServerInv' /\ \A u \in Ids : (Announced(u)' <=> Announced(u)) /\ (Gone(u)' <=> Gone(u))
  BY <1>1, ServerKept
<1>3. CASE Connect \/ Disconnect
  <2>1. requests' = requests /\ channel' = <<>>
    BY <1>3 DEF Connect, Disconnect, browser
  <2>2. missed' = missed \cup InChannel
    <3>1. CASE Connect
      <4>1. channel = <<>> /\ missed' = missed
        BY <3>1 DEF Connect, BrowserInv
      <4>2. InChannel = {}
        BY <4>1 DEF InChannel
      <4> QED
        BY <4>1, <4>2
    <3>2. CASE Disconnect
      BY <3>2 DEF Disconnect
    <3> QED
      BY <1>3, <3>1, <3>2
  <2>3. ChannelInv' /\ RequestsInv'
    BY <1>1, <2>1 DEF ChannelInv, BrowserInv, RequestsInv
  <2>4. \A u \in Ids : Fetching(u) => Fetching(u)'
    BY <1>1, <2>1, FetchingKept
  <2>5. NewsInv'
    BY <1>2, <2>2, <2>4 DEF BrowserInv, NewsInv
  <2> QED
    BY <1>2, <2>1, <2>3, <2>5 DEF BrowserInv
<1>4. ASSUME NEW r \in requests, Lose(r) PROVE ServerInv' /\ BrowserInv'
  <2>1. requests' = requests \ {r} /\ missed' = missed \cup r.of /\ UNCHANGED <<stream, channel>>
    BY <1>4 DEF Lose
  <2>2. ChannelInv'
    BY <1>2, <2>1, ChannelKept DEF BrowserInv
  <2>3. RequestsInv'
    BY <1>1, <2>1 DEF BrowserInv, RequestsInv
  <2>4. ASSUME NEW u \in Ids, u \notin r.of, Fetching(u) PROVE Fetching(u)'
    <3>1. \A q : u \in q.of => (q \in requests' <=> q \in requests)
      BY <2>1, <2>4
    <3> QED
      BY <3>1, <1>1, <2>4, FetchingKept
  <2>5. NewsInv'
    BY <1>2, <2>1, <2>4, InChannelKept DEF BrowserInv, NewsInv
  <2> QED
    BY <1>2, <2>1, <2>2, <2>3, <2>5 DEF BrowserInv
<1> QED
  BY <1>3, <1>4

LEMMA ReceiveNews ==
  ASSUME Others, ServerInv, BrowserInv, Good(shown), Receive
  PROVE  ServerInv' /\ BrowserInv'
<1>1. /\ channel # <<>> /\ channel \in Seq(Event) /\ channel' = Tail(channel)
      /\ UNCHANGED <<disk, events, known, timer, last, stream, missed>>
  BY DEF Receive, server, Others
<1> PICK m : m = Head(channel)
  OBVIOUS
<1>2. /\ DOMAIN channel' = 1 .. (Len(channel) - 1) /\ DOMAIN channel = 1 .. Len(channel)
      /\ Len(channel) \in Nat
      /\ \A i \in DOMAIN channel' : channel'[i] = channel[i + 1] /\ i + 1 \in DOMAIN channel /\ i \in Nat
      /\ \A i \in DOMAIN channel : i # 1 => i - 1 \in DOMAIN channel' /\ channel'[i - 1] = channel[i]
      /\ m = channel[1] /\ 1 \in DOMAIN channel /\ m \in Event
  BY <1>1, TailOf
<1>3. m.id \in Ids /\ m.removed \in BOOLEAN
  BY <1>2 DEF Event
<1>4. ServerInv' /\ \A u \in Ids : (Announced(u)' <=> Announced(u)) /\ (Gone(u)' <=> Gone(u))
  BY <1>1, ServerKept
<1>5. ChannelInv'
  <2> SUFFICES ASSUME NEW u \in Ids, NEW i \in DOMAIN channel', channel'[i].id = u, IsLast(channel, i)'
               PROVE  u \in missed' \/ Announced(u)' \/ (channel'[i].removed <=> Gone(u)')
    BY DEF ChannelInv
  <2>1. channel'[i] = channel[i + 1] /\ i + 1 \in DOMAIN channel /\ i \in Nat
    BY <1>2
  <2>2. IsLast(channel, i + 1)
    <3> SUFFICES ASSUME NEW j \in DOMAIN channel, channel[j].id = channel[i + 1].id
                 PROVE  j <= i + 1
      BY DEF IsLast
    <3>1. CASE j = 1
      BY <3>1, <2>1
    <3>2. CASE j # 1
      <4>1. j - 1 \in DOMAIN channel' /\ channel'[j - 1] = channel[j]
        BY <3>2, <1>2
      <4>2. j - 1 <= i
        BY <4>1, <2>1 DEF IsLast
      <4> QED
        BY <4>2, <1>2, <2>1
    <3> QED
      BY <3>1, <3>2
  <2> QED
    BY <2>1, <2>2, <1>1, <1>4 DEF BrowserInv, ChannelInv
<1>6. m.id \in InChannel' \/ IsLast(channel, 1)
  <2> SUFFICES ASSUME ~IsLast(channel, 1) PROVE m.id \in InChannel'
    OBVIOUS
  <2>1. PICK j \in DOMAIN channel : channel[j].id = m.id /\ ~(j <= 1)
    BY <1>2 DEF IsLast
  <2>2. j # 1
    BY <2>1
  <2>3. j - 1 \in DOMAIN channel' /\ channel'[j - 1] = channel[j]
    BY <2>2, <1>2
  <2> QED
    BY <2>1, <2>3 DEF InChannel
<1>7. \A u \in InChannel : u # m.id => u \in InChannel'
  <2> SUFFICES ASSUME NEW u \in InChannel, u # m.id PROVE u \in InChannel'
    OBVIOUS
  <2>1. PICK i \in DOMAIN channel : channel[i].id = u
    BY DEF InChannel
  <2>2. i - 1 \in DOMAIN channel' /\ channel'[i - 1] = channel[i]
    BY <2>1, <1>2
  <2> QED
    BY <2>1, <2>2 DEF InChannel
<1>8. \/ m.id \in missed \/ Announced(m.id) \/ m.id \in InChannel'
      \/ (m.removed <=> Gone(m.id))
  BY <1>2, <1>3, <1>6 DEF BrowserInv, ChannelInv
<1>9. CASE m.removed
  <2>1. /\ requests' = requests /\ asked' = asked
        /\ shown' = RemoveTick(m.id) /\ newest' = [newest EXCEPT ![m.id] = asked]
    BY <1>9 DEF Receive
  <2>2. newest'[m.id] = asked /\ \A u \in Ids : u # m.id => newest'[u] = newest[u]
    BY <2>1, <1>3 DEF Others
  <2>3. shown'[m.id] = NoCard /\ \A u \in Ids : u # m.id => shown'[u] = shown[u]
    BY <2>1, <1>3 DEF RemoveTick, Good
  <2>4. RequestsInv'
    <3>1. asked \in Nat
      BY DEF Others
    <3> QED
      BY <3>1, <2>1, <2>2 DEF BrowserInv, RequestsInv
  <2>5. ASSUME NEW u \in Ids, u = m.id, Gone(u) PROVE Fetching(u)'
    <3>1. disk[u] = Absent
      BY <2>5 DEF Gone, Others, Disk, Ticks
    <3>2. Current(u)'
      <4>1. disk'[u] = Absent /\ shown'[u] = NoCard
        BY <3>1, <2>3, <2>5, <1>1
      <4> QED
        BY <4>1 DEF Current, NoCard, Absent
    <3>3. Late(u)' = {}
      <4>1. \A r \in requests : r.n \in Nat /\ r.n < asked
        BY DEF Others, Request, BrowserInv, RequestsInv
      <4>2. asked \in Nat
        BY DEF Others
      <4> QED
        BY <4>1, <4>2, <2>1, <2>2, <2>5 DEF Late
    <3> QED
      BY <3>2, <3>3 DEF Fetching, Settled
  <2>6. ASSUME NEW u \in Ids, u # m.id, Fetching(u) PROVE Fetching(u)'
    BY <2>6, <2>1, <2>2, <2>3, <1>1, FetchingKept
  <2>7. NewsInv'
    <3> SUFFICES ASSUME NEW u \in Ids \ missed
                 PROVE  Announced(u)' \/ (u \in InChannel)' \/ Fetching(u)'
      BY <1>1 DEF NewsInv
    <3>1. Announced(u) \/ u \in InChannel \/ Fetching(u)
      BY DEF BrowserInv, NewsInv
    <3>2. CASE u # m.id
      BY <3>1, <3>2, <1>4, <1>7, <2>6
    <3>3. CASE u = m.id
      BY <3>3, <1>4, <1>8, <1>9, <2>5
    <3> QED
      BY <3>2, <3>3
  <2> QED
    BY <2>4, <2>7, <1>1, <1>4, <1>5, <1>2 DEF BrowserInv
<1>10. CASE ~m.removed
  <2> DEFINE q == Ask(asked, {m.id})
  <2>1. /\ requests' = requests \cup {q} /\ asked' = asked + 1
        /\ UNCHANGED <<shown, newest>>
    BY <1>10 DEF Receive, Fetched
  <2>2. q.n = asked /\ q.of = {m.id} /\ ~q.answered
    BY DEF Ask
  <2> HIDE DEF q
  <2>3. asked \in Nat /\ \A r \in requests : r.n \in Nat /\ r.n < asked
    BY DEF Others, Request, BrowserInv, RequestsInv
  <2>4. RequestsInv'
    <3>1. \A r \in requests' : r.n < asked' /\ (r.of = Ids \/ \E t \in Ids : r.of = {t})
      BY <2>1, <2>2, <2>3, <1>3 DEF BrowserInv, RequestsInv
    <3>2. \A r, s \in requests' : r.n = s.n => r = s
      BY <2>1, <2>2, <2>3 DEF BrowserInv, RequestsInv
    <3>3. \A t \in Ids : newest'[t] <= asked'
      <4>1. \A t \in Ids : newest[t] \in Nat
        BY DEF Others
      <4> QED
        BY <4>1, <2>1, <2>3 DEF BrowserInv, RequestsInv
    <3> QED
      BY <3>1, <3>2, <3>3 DEF RequestsInv
  <2>5. ASSUME NEW u \in Ids, u = m.id, ~Gone(u) PROVE Fetching(u)'
    <3>1. Wanted(u)'
      BY <2>1, <2>2, <2>5, <1>1 DEF Wanted, Brings, Gone
    <3> QED
      BY <3>1 DEF Fetching
  <2>6. ASSUME NEW u \in Ids, u # m.id, Fetching(u) PROVE Fetching(u)'
    <3>1. \A r : u \in r.of => (r \in requests' <=> r \in requests)
      BY <2>1, <2>2, <2>6
    <3> QED
      BY <3>1, <2>6, <2>1, <1>1, FetchingKept
  <2>7. NewsInv'
    <3> SUFFICES ASSUME NEW u \in Ids \ missed
                 PROVE  Announced(u)' \/ (u \in InChannel)' \/ Fetching(u)'
      BY <1>1 DEF NewsInv
    <3>1. Announced(u) \/ u \in InChannel \/ Fetching(u)
      BY DEF BrowserInv, NewsInv
    <3>2. CASE u # m.id
      BY <3>1, <3>2, <1>4, <1>7, <2>6
    <3>3. CASE u = m.id
      BY <3>3, <1>4, <1>8, <1>10, <2>5
    <3> QED
      BY <3>2, <3>3
  <2> QED
    BY <2>4, <2>7, <1>1, <1>4, <1>5, <1>2 DEF BrowserInv
<1> QED
  BY <1>3, <1>9, <1>10

LEMMA ServeNews ==
  ASSUME Others, ServerInv, BrowserInv, NEW r \in requests, Serve(r)
  PROVE  ServerInv' /\ BrowserInv'
<1>0. PICK q : q = [r EXCEPT !.answered = TRUE, !.n = asked,
                              !.answer = [t \in Ids |-> IF t \in r.of THEN disk[t] ELSE Absent]]
  OBVIOUS
<1> DEFINE made == {t \in Ids \ InChannel : Brings(r, t)}
<1>1. /\ requests' = (requests \ {r}) \cup {q} /\ asked' = asked + 1 /\ ~r.answered
      /\ missed' = missed \ made
      /\ UNCHANGED <<disk, events, known, timer, last, stream, channel, shown, newest>>
  BY <1>0, Zenon DEF Serve, server
<1>2. r \in Request
  BY DEF Others
<1>3. /\ q.answered /\ q.n = asked /\ q.of = r.of
      /\ \A t \in Ids : t \in r.of => q.answer[t] = disk[t]
  BY <1>0, <1>2 DEF Request
<1>4. \A t \in Ids : t \in made <=> t \notin InChannel /\ Brings(r, t)
  OBVIOUS
<1> HIDE DEF made
<1>5. asked \in Nat /\ \A s \in requests : s.n \in Nat /\ s.n < asked
  BY DEF Others, Request, BrowserInv, RequestsInv
<1>6. ServerInv' /\ \A u \in Ids : (Announced(u)' <=> Announced(u)) /\ (Gone(u)' <=> Gone(u))
  BY <1>1, ServerKept
<1>7. RequestsInv'
  <2>1. \A s \in requests' : s.n < asked' /\ (s.of = Ids \/ \E t \in Ids : s.of = {t})
    BY <1>1, <1>3, <1>5 DEF BrowserInv, RequestsInv
  <2>2. \A s, z \in requests' : s.n = z.n => s = z
    BY <1>1, <1>3, <1>5 DEF BrowserInv, RequestsInv
  <2>3. \A t \in Ids : newest'[t] <= asked'
    <3>1. \A t \in Ids : newest[t] \in Nat
      BY DEF Others
    <3> QED
      BY <3>1, <1>1, <1>5 DEF BrowserInv, RequestsInv
  <2> QED
    BY <2>1, <2>2, <2>3 DEF RequestsInv
<1>8. ChannelInv'
  <2> SUFFICES ASSUME NEW u \in Ids, NEW i \in DOMAIN channel, channel[i].id = u, IsLast(channel, i)
               PROVE  u \in missed' \/ Announced(u)' \/ (channel[i].removed <=> Gone(u)')
    BY <1>1 DEF ChannelInv, IsLast
  <2>1. u \in InChannel
    BY DEF InChannel
  <2>2. u \notin made
    BY <2>1, <1>4
  <2> QED
    BY <2>2, <1>1, <1>6 DEF BrowserInv, ChannelInv
<1>9. \A u \in Ids : Late(u) \subseteq Late(u)' /\ Late(u)' \subseteq Late(u) \cup {q}
  BY <1>1, <1>3 DEF Late
\* Of the ticks it brings it is the newest answer.
<1>10. ASSUME NEW u \in Ids, Brings(r, u) PROVE Fetching(u)'
  <2>1. u \in r.of
    BY <1>10 DEF Brings
  <2>2. q \in Late(u)'
    BY <2>1, <1>1, <1>3 DEF Late, BrowserInv, RequestsInv
  <2>3. Brings(q, u)'
    BY <1>1, <1>3, <1>10 DEF Brings
  <2>4. \A s \in Late(u)' : q.n < s.n => FALSE
    <3>1. \A s \in Late(u) : s.n < q.n /\ s.n \in Nat
      BY <1>3, <1>5 DEF Late
    <3> QED
      BY <3>1, <1>3, <1>5, <1>9
  <2>5. q.answer[u] = disk'[u]
    BY <2>1, <1>1, <1>3
  <2> QED
    BY <2>2, <2>3, <2>4, <2>5 DEF Fetching, Served
<1>11. ASSUME NEW u \in Ids, ~Brings(r, u), Fetching(u) PROVE Fetching(u)'
  <2>1. \A s \in Late(u)' : s \in Late(u) \/ s.answer[u] = disk[u]
    BY <1>1, <1>3, <1>9 DEF Late
  <2>2. CASE Wanted(u)
    <3>1. PICK s \in requests : ~s.answered /\ Brings(s, u)
      BY <2>2 DEF Wanted
    <3>2. s \in requests' /\ Brings(s, u)'
      BY <3>1, <1>1, <1>11 DEF Brings
    <3> QED
      BY <3>1, <3>2 DEF Wanted, Fetching, Brings
  <2>3. CASE Served(u)
    <3>1. PICK s \in Late(u) : /\ Brings(s, u) /\ s.answer[u] = disk[u]
                               /\ \A z \in Late(u) : s.n < z.n => z.answer[u] = disk[u]
      BY <2>3 DEF Served
    <3>2. s \in Late(u)' /\ Brings(s, u)'
      BY <3>1, <1>1, <1>9 DEF Brings
    <3>3. \A z \in Late(u)' : s.n < z.n => z.answer[u] = disk'[u]
      BY <3>1, <2>1, <1>1
    <3> QED
      BY <3>1, <3>2, <3>3, <1>1 DEF Fetching, Served
  <2>4. CASE Settled(u)
    BY <2>4, <2>1, <1>1 DEF Settled, Current, Fetching
  <2> QED
    BY <2>2, <2>3, <2>4, <1>11 DEF Fetching
<1>12. NewsInv'
  <2> SUFFICES ASSUME NEW u \in Ids, u \notin missed'
               PROVE  Announced(u)' \/ (u \in InChannel)' \/ Fetching(u)'
    BY DEF NewsInv
  <2>1. CASE Brings(r, u)
    BY <2>1, <1>10
  <2>2. CASE ~Brings(r, u)
    <3>1. u \notin missed
      BY <2>2, <1>1, <1>4
    <3>2. Announced(u) \/ u \in InChannel \/ Fetching(u)
      BY <3>1 DEF BrowserInv, NewsInv
    <3> QED
      BY <2>2, <3>2, <1>1, <1>6, <1>11, InChannelKept
  <2> QED
    BY <2>1, <2>2
<1> QED
  BY <1>1, <1>6, <1>7, <1>8, <1>12 DEF BrowserInv

\* An answer that is no older than what is shown of t is shown of it.
LEMMA NewsOfOne ==
  ASSUME Others, BrowserInv, NEW t \in Ids, NEW r \in Late(t),
         requests' = requests \ {r}, disk' = disk, newest'[t] = r.n,
         shown'[t].there = r.answer[t].there, shown'[t].closed = r.answer[t].closed,
         shown'[t].by = r.answer[t].by, Fetching(t)
  PROVE  Fetching(t)'
<1>1. \A s \in requests : s.n \in Nat
  BY DEF Others, Request
<1>2. r \in requests /\ r.answered /\ t \in r.of
  BY DEF Late
<1>3. \A s \in Late(t)' : s \in requests /\ s \in Late(t) /\ r.n < s.n
  <2>1. newest[t] <= r.n /\ newest[t] \in Nat
    BY DEF Late, Others
  <2> SUFFICES ASSUME NEW s \in Late(t)' PROVE s \in requests /\ s \in Late(t) /\ r.n < s.n
    OBVIOUS
  <2>2. s \in requests /\ s # r /\ s.answered /\ t \in s.of /\ r.n <= s.n
    BY DEF Late
  <2>3. s.n # r.n
    BY <2>2, <1>2 DEF BrowserInv, RequestsInv
  <2> QED
    BY <2>1, <2>2, <2>3, <1>1, <1>2 DEF Late
<1>4. CASE Wanted(t)
  BY <1>2, <1>4 DEF Wanted, Brings, Fetching
<1>5. CASE Settled(t)
  BY <1>3, <1>5 DEF Settled, Current, Fetching
<1>6. CASE Served(t)
  <2>1. PICK w \in Late(t) : /\ Brings(w, t) /\ w.answer[t] = disk[t]
                             /\ \A s \in Late(t) : w.n < s.n => s.answer[t] = disk[t]
    BY <1>6 DEF Served
  <2>2. w \in requests /\ w.answered /\ t \in w.of /\ w.n \in Nat /\ r.n \in Nat
    BY <1>1, <1>2 DEF Late
  <2>3. CASE w.n <= r.n
    <3>1. r.answer[t] = disk[t]
      <4>1. CASE w = r
        BY <4>1, <2>1
      <4>2. CASE w # r
        <5>1. w.n # r.n
          BY <4>2, <2>2, <1>2 DEF BrowserInv, RequestsInv
        <5> QED
          BY <5>1, <2>1, <2>2, <2>3
      <4> QED
        BY <4>1, <4>2
    <3>2. \A s \in Late(t)' : s.answer[t] = disk[t]
      BY <1>1, <1>3, <2>1, <2>2, <2>3
    <3> QED
      BY <3>1, <3>2 DEF Fetching, Settled, Current
  <2>4. CASE r.n < w.n
    <3>1. w \in Late(t)' /\ Brings(w, t)'
      BY <2>1, <2>2, <2>4 DEF Late, Brings
    <3>2. \A s \in Late(t)' : w.n < s.n => s.answer[t] = disk'[t]
      BY <1>3, <2>1
    <3> QED
      BY <2>1, <3>1, <3>2 DEF Fetching, Served
  <2> QED
    BY <2>2, <2>3, <2>4
<1> QED
  BY <1>4, <1>5, <1>6 DEF Fetching

LEMMA AnswerListNews ==
  ASSUME Others, ServerInv, BrowserInv, NEW r \in requests, AnswerList(r)
  PROVE  ServerInv' /\ BrowserInv'
<1>1. /\ r.answered /\ r.of = Ids /\ requests' = requests \ {r}
      /\ shown' = SetTicks(r.answer) /\ missed' = missed \cup Overtaken(r)
      /\ newest' = [t \in Ids |-> Latest(r, t)]
      /\ UNCHANGED <<disk, events, known, timer, last, stream, channel, asked>>
  BY DEF AnswerList, server
<1>2. r \in Request /\ r.n \in Nat /\ r.n < asked /\ asked \in Nat
  BY DEF Others, Request, BrowserInv, RequestsInv
<1>3. ServerInv' /\ \A u \in Ids : (Announced(u)' <=> Announced(u)) /\ (Gone(u)' <=> Gone(u))
  BY <1>1, ServerKept
<1>4. ChannelInv'
  BY <1>1, <1>3, ChannelKept DEF BrowserInv
<1>5. RequestsInv'
  <2>1. \A t \in Ids : newest'[t] <= asked
    BY <1>1, <1>2 DEF Latest, BrowserInv, RequestsInv
  <2> QED
    BY <2>1, <1>1 DEF BrowserInv, RequestsInv
<1>6. \A u \in Ids : /\ shown'[u].there = r.answer[u].there
                     /\ shown'[u].closed = r.answer[u].closed
                     /\ shown'[u].by = r.answer[u].by
  <2>1. r.answer \in Disk
    BY <1>2 DEF Request
  <2>2. \A u \in Ids : r.answer[u] \in Ticks \cup {Absent}
    BY <2>1 DEF Disk
  <2>3. \A u \in Ids : shown'[u] = CardOf(r.answer[u], r.answer)
    BY <1>1 DEF SetTicks
  <2> QED
    BY <2>2, <2>3, ShowsWhatItWas
<1>7. NewsInv'
  <2> SUFFICES ASSUME NEW u \in Ids, u \notin missed'
               PROVE  Announced(u)' \/ (u \in InChannel)' \/ Fetching(u)'
    BY DEF NewsInv
  <2>1. u \notin missed /\ ~(r.n < newest[u]) /\ newest[u] \in Nat
    BY <1>1 DEF Overtaken, Others
  <2>2. r \in Late(u) /\ newest'[u] = r.n
    BY <2>1, <1>1, <1>2 DEF Late, Latest
  <2>3. Fetching(u) => Fetching(u)'
    BY <2>2, <1>1, <1>6, NewsOfOne
  <2>4. Announced(u) \/ u \in InChannel \/ Fetching(u)
    BY <2>1 DEF BrowserInv, NewsInv
  <2> QED
    BY <2>3, <2>4, <1>1, <1>3, InChannelKept
<1> QED
  BY <1>1, <1>3, <1>4, <1>5, <1>7 DEF BrowserInv

LEMMA AnswerTickNews ==
  ASSUME Others, ServerInv, BrowserInv, Good(shown),
         NEW r \in requests, NEW t \in Ids, AnswerTick(r, t)
  PROVE  ServerInv' /\ BrowserInv'
<1> USE BoardAssumption
<1>1. /\ r.answered /\ r.of = {t} /\ requests' = requests \ {r}
      /\ UNCHANGED <<disk, events, known, timer, last, stream, channel, asked>>
  BY DEF AnswerTick, server
<1>2. r \in Request /\ r.n \in Nat /\ r.n < asked /\ asked \in Nat
  BY DEF Others, Request, BrowserInv, RequestsInv
<1>3. ServerInv' /\ \A u \in Ids : (Announced(u)' <=> Announced(u)) /\ (Gone(u)' <=> Gone(u))
  BY <1>1, ServerKept
<1>4. r.answer[t] \in Ticks \cup {Absent}
  <2>1. r.answer \in Disk
    BY <1>2 DEF Request
  <2> QED
    BY <2>1 DEF Disk
<1>5. \A u \in Ids : u # t => \A q : u \in q.of => (q \in requests' <=> q \in requests)
  BY <1>1
<1>6. CASE r.answer[t].there
  <2>1. /\ shown' = UpdateTick(t, r.answer[t]) /\ missed' = missed \cup Overtaken(r)
        /\ newest' = [newest EXCEPT ![t] = Latest(r, t)]
    BY <1>6 DEF AnswerTick
  <2>2. newest'[t] = Latest(r, t) /\ \A u \in Ids : u # t => newest'[u] = newest[u]
    BY <2>1 DEF Others
  <2>3. r.answer[t] \in Ticks
    BY <1>4, <1>6 DEF Absent
  <2>4. /\ shown'[t].there = r.answer[t].there
        /\ shown'[t].closed = r.answer[t].closed /\ shown'[t].by = r.answer[t].by
        /\ \A u \in Ids : u # t => /\ shown'[u].there = shown[u].there
                                   /\ shown'[u].closed = shown[u].closed
                                   /\ shown'[u].by = shown[u].by
    BY <2>1, <2>3, UpdateShows
  <2>5. RequestsInv'
    <3>1. \A u \in Ids : newest'[u] <= asked
      BY <2>2, <1>2 DEF Latest, BrowserInv, RequestsInv
    <3> QED
      BY <3>1, <1>1 DEF BrowserInv, RequestsInv
  <2>6. ChannelInv'
    BY <1>1, <1>3, <2>1, ChannelKept DEF BrowserInv
  <2>7. ASSUME NEW u \in Ids, u \notin missed', Fetching(u) PROVE Fetching(u)'
    <3>1. CASE u = t
      <4>1. ~(r.n < newest[u]) /\ newest[u] \in Nat
        BY <3>1, <2>1, <2>7, <1>1 DEF Overtaken, Others
      <4>2. r \in Late(u) /\ newest'[u] = r.n
        BY <3>1, <4>1, <2>2, <1>1, <1>2 DEF Late, Latest
      <4> QED
        BY <3>1, <4>2, <2>4, <2>7, <1>1, NewsOfOne
    <3>2. CASE u # t
      BY <3>2, <2>2, <2>4, <2>7, <1>1, <1>5, FetchingKept
    <3> QED
      BY <3>1, <3>2
  <2>8. NewsInv'
    BY <2>1, <2>7, <1>1, <1>3, InChannelKept DEF BrowserInv, NewsInv
  <2> QED
    BY <2>5, <2>6, <2>8, <1>1, <1>3 DEF BrowserInv
<1>7. CASE ~r.answer[t].there
  <2>1. UNCHANGED <<shown, missed, newest>>
    BY <1>7 DEF AnswerTick
  <2>2. RequestsInv' /\ ChannelInv'
    <3>1. ChannelInv'
      BY <1>1, <1>3, <2>1, ChannelKept DEF BrowserInv
    <3> QED
      BY <3>1, <2>1, <1>1 DEF BrowserInv, RequestsInv
  <2>3. ASSUME NEW u \in Ids, Fetching(u) PROVE Fetching(u)'
    <3>1. CASE u # t
      BY <3>1, <2>1, <2>3, <1>1, <1>5, FetchingKept
    <3>2. CASE u = t
      <4>1. \A s : s \in Late(u)' <=> s \in Late(u) /\ s # r
        BY <2>1, <1>1 DEF Late
      <4>2. CASE Wanted(u)
        BY <4>2, <1>1 DEF Wanted, Brings, Fetching
      <4>3. CASE Settled(u)
        BY <4>1, <4>3, <2>1, <1>1 DEF Settled, Current, Fetching
      <4>4. CASE Served(u)
        <5>1. PICK w \in Late(u) : /\ Brings(w, u) /\ w.answer[u] = disk[u]
                                   /\ \A s \in Late(u) : w.n < s.n => s.answer[u] = disk[u]
          BY <4>4 DEF Served
        <5>2. w # r
          <6>1. r.of # Ids
            BY <1>1
          <6> QED
            BY <3>2, <5>1, <6>1, <1>7 DEF Brings
        <5>3. w \in Late(u)' /\ Brings(w, u)'
          BY <4>1, <5>1, <5>2, <1>1 DEF Brings
        <5>4. \A s \in Late(u)' : w.n < s.n => s.answer[u] = disk'[u]
          BY <4>1, <5>1, <1>1
        <5> QED
          BY <5>1, <5>3, <5>4, <1>1 DEF Served, Fetching
      <4> QED
        BY <4>2, <4>3, <4>4, <2>3 DEF Fetching
    <3> QED
      BY <3>1, <3>2
  <2>4. NewsInv'
    BY <2>1, <2>3, <1>1, <1>3, InChannelKept DEF BrowserInv, NewsInv
  <2> QED
    BY <2>2, <2>4, <1>1, <1>3 DEF BrowserInv
<1> QED
  BY <1>6, <1>7

-----------------------------------------------------------------------------
LEMMA NewsKept == IInv /\ ServerInv /\ BrowserInv /\ [Next]_vars => ServerInv' /\ BrowserInv'
<1> SUFFICES ASSUME Others, Good(shown), ServerInv, BrowserInv, [Next]_vars
             PROVE  ServerInv' /\ BrowserInv'
  BY Parts
<1>1. CASE System
  <2>1. CASE WatchFiles
    BY <2>1, WatchNews
  <2>2. CASE Broadcast
    BY <2>2, BroadcastNews
  <2>3. CASE Connect
    BY <2>3, BreakNews
  <2>4. CASE Receive
    BY <2>4, ReceiveNews
  <2>5. ASSUME NEW r \in requests, Serve(r) PROVE ServerInv' /\ BrowserInv'
    BY <2>5, ServeNews
  <2>6. ASSUME NEW r \in requests, AnswerList(r) PROVE ServerInv' /\ BrowserInv'
    BY <2>6, AnswerListNews
  <2>7. ASSUME NEW r \in requests, NEW t \in Ids, AnswerTick(r, t) PROVE ServerInv' /\ BrowserInv'
    BY <2>7, AnswerTickNews
  <2> QED
    BY <1>1, <2>1, <2>2, <2>3, <2>4, <2>5, <2>6, <2>7 DEF System
<1>2. CASE Disconnect \/ \E r \in requests : Lose(r)
  BY <1>2, BreakNews
<1>3. ASSUME NEW t \in Ids, Change(t) PROVE ServerInv' /\ BrowserInv'
  BY <1>3, ChangeNews
<1>4. CASE UNCHANGED vars
  BY <1>4 DEF vars, ServerInv, EventsInv, TimerInv, BrowserInv, ChannelInv, RequestsInv, NewsInv,
              Announced, Pending, Gone, IsLast, InChannel, Fetching, Wanted, Served, Settled, Late,
              Brings, Current
<1> QED
  BY <1>1, <1>2, <1>3, <1>4 DEF Next

LEMMA QuietIsCurrent == IInv /\ BrowserInv => StaleIsNoticed
<1> SUFFICES ASSUME BrowserInv, Quiet, NEW t \in Ids \ missed
             PROVE  Current(t)
  BY DEF StaleIsNoticed
<1>1. ~Announced(t) /\ t \notin InChannel
  BY DEF Quiet, Announced, Pending, InChannel
<1>2. ~Wanted(t) /\ ~Served(t)
  BY DEF Quiet, Wanted, Served, Late
<1> QED
  BY <1>1, <1>2 DEF BrowserInv, NewsInv, Fetching, Settled

\* However files change, the stream breaks and answers overtake each other, the
\* board ends up with every tick as it is on disk, but for those of which the
\* last message or answer was lost on the way.
THEOREM StaleAlwaysNoticed == Spec => []StaleIsNoticed
<1>1. Init => ServerInv /\ BrowserInv
  BY NewsInit
<1> QED
  BY <1>1, NewsKept, QuietIsCurrent, InvariantHolds, PTL DEF Spec
=============================================================================
