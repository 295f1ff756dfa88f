--------------------------- MODULE ServicesProofs ---------------------------
(***************************************************************************)
(* The background components of the service, for all values of their       *)
(* constants: any streams, thresholds, probes, downloads, nodes and        *)
(* schedules.  Each has an inductive invariant of its own:                 *)
(*   - WarmInv: one goroutine at most warms the session up, and the flag   *)
(*     tells (OneWarmer); StreamInv: what the failures of this instant     *)
(*     have to do with the row the code counts, and each stream with the   *)
(*     failure it reports; RowInv: what all failures within the window     *)
(*     have to do with that row (SickIsRight);                             *)
(*   - HoldInv: a probe that has begun is registered, so cancelDirect      *)
(*     reaches it, and the flag of an installation is up unless another    *)
(*     one's end took it away (SealingFindsNoProbe);                       *)
(*   - ExitInv: a lookup that will write its answer down was begun since   *)
(*     the exit was last forgotten, for a node in use since then           *)
(*     (ShownExitIsValid).                                                 *)
(* The last theorem puts the three together as MCServices runs them.       *)
(***************************************************************************)
EXTENDS MCServices, FiniteSetTheorems, TLAPS

-----------------------------------------------------------------------------
(* SessionWatch: the single flight.                                         *)

Warming(g) == warm[g].pc # "idle"

\* The flag is up exactly while a goroutine works, and two never do.
WarmInv ==
  /\ warming \in BOOLEAN
  /\ warm \in [Warmers -> [pc: WarmPcs, try: Nat]]
  /\ warming <=> \E g \in Warmers : Warming(g)
  /\ \A g, h \in Warmers : Warming(g) /\ Warming(h) => g = h

\* The least element of a set of naturals that has one is in it.
LEMMA MinIsElement ==
  ASSUME NEW S \in SUBSET Nat, NEW x \in S, \A y \in S : x <= y
  PROVE  Min(S) \in S
BY DEF Min

\* Before the flag is taken every goroutine is idle, and the first of them is used.
LEMMA RebuiltKeeps ==
  ASSUME WarmInv, Rebuilt
  PROVE  WarmInv'
<1>1. CASE needed /\ ~warming
  <2> DEFINE IdleOnes == {x \in Warmers : warm[x].pc = "idle"}
             g == Min(IdleOnes)
  <2>1. IdleOnes = Warmers
    BY <1>1 DEF WarmInv, Warming
  <2>2. g \in Warmers
    <3>1. 1 \in Warmers /\ Warmers \in SUBSET Nat /\ \A y \in Warmers : 1 <= y
      BY SessionConstants DEF Warmers
    <3> QED BY <3>1, <2>1, MinIsElement
  <2>3. warming' = TRUE /\ warm' = [warm EXCEPT ![g] = [pc |-> "check", try |-> 0]]
    BY <1>1 DEF Rebuilt
  <2> HIDE DEF g
  <2>4. warm' \in [Warmers -> [pc: WarmPcs, try: Nat]]
    BY <2>2, <2>3 DEF WarmInv, WarmPcs
  <2>5. \A h \in Warmers : Warming(h)' <=> h = g
    BY <1>1, <2>2, <2>3 DEF WarmInv, Warming
  <2> QED BY <2>2, <2>3, <2>4, <2>5 DEF WarmInv
<1>2. CASE ~(needed /\ ~warming)
  BY <1>2 DEF Rebuilt, warmVars, WarmInv, Warming
<1> QED BY <1>1, <1>2

\* A goroutine that works goes on or gives the flag back.
LEMMA WarmStepKeeps ==
  ASSUME WarmInv, NEW g \in Warmers, WarmStep(g)
  PROVE  WarmInv'
<1>1. CASE WarmLeave(g)
  BY <1>1 DEF WarmLeave, WarmInv, Warming, Idle, WarmPcs
<1>2. ASSUME warming' = warming, Warming(g),
             warm' \in [Warmers -> [pc: WarmPcs, try: Nat]],
             \A h \in Warmers \ {g} : warm'[h] = warm[h],
             warm'[g].pc # "idle"
      PROVE  WarmInv'
  BY <1>2 DEF WarmInv, Warming
<1>3. CASE WarmCheck(g)
  <2>1. warm' \in [Warmers -> [pc: WarmPcs, try: Nat]]
    BY <1>3 DEF WarmCheck, WarmInv, WarmPcs
  <2> QED BY <1>2, <1>3, <2>1 DEF WarmCheck, WarmInv, Warming
<1>4. CASE WarmUp(g)
  <2>1. warm' \in [Warmers -> [pc: WarmPcs, try: Nat]]
    BY <1>4 DEF WarmUp, WarmInv, WarmPcs
  <2> QED BY <1>2, <1>4, <2>1 DEF WarmUp, WarmInv, Warming
<1>5. CASE WarmFails(g)
  <2>1. warm' \in [Warmers -> [pc: WarmPcs, try: Nat]]
    BY <1>5 DEF WarmFails, WarmInv, WarmPcs
  <2>2. \A h \in Warmers \ {g} : warm'[h] = warm[h]
    BY <1>5 DEF WarmFails, WarmInv
  <2>3. warm'[g].pc # "idle"
    BY <1>5 DEF WarmFails, WarmInv
  <2> QED BY <1>2, <1>5, <2>1, <2>2, <2>3 DEF WarmFails, Warming
<1> QED BY <1>1, <1>3, <1>4, <1>5 DEF WarmStep

\* Nothing else touches the flag or the goroutines.
LEMMA OthersKeep ==
  ASSUME WarmInv, UNCHANGED warmVars
  PROVE  WarmInv'
BY DEF WarmInv, Warming, warmVars

\* At the start every goroutine is idle and the flag is down.
LEMMA WarmInitially == SessionInit => WarmInv
<1> SUFFICES ASSUME SessionInit PROVE WarmInv
  OBVIOUS
<1>1. warming = FALSE /\ warm = [g \in Warmers |-> Idle]
  BY DEF SessionInit
<1> QED BY <1>1 DEF WarmInv, Warming, Idle, WarmPcs

\* Every step keeps the single flight.
LEMMA WarmStepsKeep ==
  ASSUME WarmInv, [SessionNext]_sessionVars
  PROVE  WarmInv'
<1>1. ASSUME NEW c \in Conns, StreamStep(c) PROVE UNCHANGED warmVars
  BY <1>1 DEF StreamStep, Dial, FirstData, MoreData, ServerReplied, NoteErr, Close,
              Closed, ReportFail, StreamFrame, DecideOnly, warmVars
<1>2. CASE DialFails \/ PacketOpens
  BY <1>2, OthersKeep DEF DialFails, PacketOpens, StreamFrame, warmVars
<1>3. CASE TeardownStep
  <2>1. CASE RebuiltSick \/ RebuiltNetwork
    BY <2>1, RebuiltKeeps DEF RebuiltSick, RebuiltNetwork
  <2>2. CASE TearSick \/ ResetFailures
    BY <2>2, OthersKeep DEF TearSick, ResetFailures
  <2> QED BY <1>3, <2>1, <2>2 DEF TeardownStep
<1>4. CASE NetworkChanged \/ NeededChanges \/ Tick
  BY <1>4, OthersKeep DEF NetworkChanged, NeededChanges, Tick
<1>5. CASE UNCHANGED sessionVars
  BY <1>5, OthersKeep DEF sessionVars, warmVars
<1> QED BY <1>1, <1>2, <1>3, <1>4, <1>5, OthersKeep, WarmStepKeeps DEF SessionNext

\* The invariant holds throughout.
LEMMA WarmInvariant == SessionSpec => []WarmInv
<1>1. WarmInv /\ [SessionNext]_sessionVars => WarmInv'
  BY WarmStepsKeep
<1> QED BY <1>1, WarmInitially, PTL DEF SessionSpec

\* session_watch.go:236-241 and 247: the compare-and-swap and the deferred store keep
\* a single flight, however many teardowns come together.
THEOREM AlwaysOneWarmer == SessionSpec => []OneWarmer
<1>1. WarmInv => OneWarmer
  <2> SUFFICES ASSUME WarmInv PROVE OneWarmer
    OBVIOUS
  <2> DEFINE Busy == {g \in Warmers : warm[g].pc # "idle"}
  <2>1. Cardinality(Busy) <= 1
    <3>1. CASE Busy = {}
      BY <3>1, FS_EmptySet
    <3>2. CASE Busy # {}
      <4>1. PICK g \in Busy : TRUE
        BY <3>2
      <4>2. Busy = {g}
        BY <4>1 DEF WarmInv, Warming
      <4> QED BY <4>2, FS_Singleton
    <3> QED BY <3>1, <3>2
  <2>2. warming <=> \E g \in Warmers : warm[g].pc # "idle"
    BY DEF WarmInv, Warming
  <2> QED BY <2>1, <2>2 DEF OneWarmer
<1> QED BY <1>1, WarmInvariant, PTL

-----------------------------------------------------------------------------
(* SessionWatch: types, and the streams that decide.                       *)

\* A failure of this very tick belongs to the row that is being counted, and a stream
\* that has reported its failure is done.
StreamInv ==
  /\ SessionTypeOK
  /\ tally[0] > 0 => sinceFirst <= SickWindow /\ tally[0] <= fails
  /\ BurstIsNoticed
  /\ \A c \in Conns :
       conn[c].failures <= 1 /\ (conn[c].failures = 1 => conn[c].done)

\* What the thresholds are good for.
LEMMA Thresholds ==
  /\ SickFailures \in Nat /\ SickFailures >= 1
  /\ SickWindow \in Nat /\ SickWindow >= 1
  /\ HalfWindow \in Nat /\ HalfWindow >= 1
  /\ SickCooldown \in Nat /\ SickCooldown >= 1
  /\ HandshakeWindow \in Nat
  /\ WarmTries \in Nat /\ WarmTries >= 1
BY SessionConstants DEF HalfWindow

\* The counters are what they may be.
CountersTyped ==
  /\ fails \in 0 .. SickFailures
  /\ sinceFirst \in 0 .. SickWindow + 1
  /\ sinceOK \in 0 .. HalfWindow
  /\ sinceSick \in 0 .. SickCooldown
  /\ tally \in [0 .. SickWindow -> 0 .. SickFailures]
  /\ verdict \in Handler
  /\ tally[0] > 0 => sinceFirst <= SickWindow /\ tally[0] <= fails
  /\ BurstIsNoticed

\* Clearing the row, whatever is known of lastOK, keeps the counters right.
LEMMA ClearCounts ==
  ASSUME CountersTyped, ClearFailures, UNCHANGED <<sinceSick, verdict>>,
         sinceOK' \in {0, sinceOK}
  PROVE  CountersTyped'
<1>1. /\ tally' \in [0 .. SickWindow -> 0 .. SickFailures] /\ tally'[0] = 0
  BY Thresholds DEF ClearFailures, NoFailures
<1> QED BY <1>1, Thresholds DEF CountersTyped, ClearFailures, BurstIsNoticed

\* So does data on a stream that had some.
LEMMA TouchCounts ==
  ASSUME CountersTyped, Touch
  PROVE  CountersTyped'
BY Thresholds DEF CountersTyped, Touch, BurstIsNoticed

\* So does counting a failure: if the row it completes condemns nothing, that is for
\* what was received or for a verdict that is too recent.
LEMMA FailCounts ==
  ASSUME CountersTyped, NoteFail
  PROVE  CountersTyped'
<1> DEFINE row  == IF NewRow THEN 1 ELSE Atmost(fails + 1, SickFailures)
           sick == /\ row >= SickFailures
                   /\ sinceOK >= HalfWindow
                   /\ sinceSick >= SickCooldown
<1>1. row \in 0 .. SickFailures /\ row >= 1
  BY Thresholds DEF CountersTyped, Atmost
<1>2. tally[0] \in 0 .. SickFailures /\ 0 \in 0 .. SickWindow
  BY Thresholds DEF CountersTyped
<1>3. CASE sick
  <2>1. /\ fails' = 0 /\ sinceFirst' = SickWindow + 1 /\ sinceSick' = 0
        /\ verdict' = "tear" /\ tally' = NoFailures /\ sinceOK' = sinceOK
    BY <1>3 DEF NoteFail
  <2>2. tally' \in [0 .. SickWindow -> 0 .. SickFailures] /\ tally'[0] = 0
    BY <2>1, Thresholds DEF NoFailures
  <2> QED BY <2>1, <2>2, Thresholds DEF CountersTyped, BurstIsNoticed, Handler
<1>4. CASE ~sick
  <2>1. /\ fails' = row /\ sinceFirst' = IF NewRow THEN 0 ELSE sinceFirst
        /\ UNCHANGED <<sinceOK, sinceSick, verdict>>
        /\ tally' = [tally EXCEPT ![0] = Atmost(@ + 1, SickFailures)]
    BY <1>4 DEF NoteFail
  <2>2. /\ tally' \in [0 .. SickWindow -> 0 .. SickFailures]
        /\ tally'[0] = Atmost(tally[0] + 1, SickFailures)
    BY <2>1, <1>2, Thresholds DEF CountersTyped, Atmost
  <2>3. tally'[0] <= row
    BY <2>2, <1>2, Thresholds DEF CountersTyped, NewRow, Atmost
  <2>4. sinceFirst' \in 0 .. SickWindow
    BY <2>1, Thresholds DEF CountersTyped, NewRow
  <2>5. BurstIsNoticed'
    BY <1>4, <1>1, <2>1, <2>2, <2>3, Thresholds DEF CountersTyped, BurstIsNoticed
  <2> HIDE DEF row
  <2> QED BY <1>1, <2>1, <2>2, <2>3, <2>4, <2>5, Thresholds DEF CountersTyped
<1> QED BY <1>3, <1>4

\* Time: the failures of this instant are none yet.
LEMMA TickCounts ==
  ASSUME CountersTyped, Tick
  PROVE  CountersTyped'
<1>1. tally' \in [0 .. SickWindow -> 0 .. SickFailures] /\ tally'[0] = 0
  <2>1. tally' = [age \in 0 .. SickWindow |-> IF age = 0 THEN 0 ELSE tally[age - 1]]
    BY DEF Tick
  <2>2. ASSUME NEW age \in 0 .. SickWindow
        PROVE  (IF age = 0 THEN 0 ELSE tally[age - 1]) \in 0 .. SickFailures
    BY Thresholds DEF CountersTyped
  <2> QED BY <2>1, <2>2, Thresholds
<1>2. ASSUME NEW cap \in Nat, NEW age \in 0 .. cap
      PROVE  Older(age, cap) \in 0 .. cap
  BY DEF Older
<1>3. /\ sinceFirst' = Older(sinceFirst, SickWindow + 1)
      /\ sinceOK' = Older(sinceOK, HalfWindow)
      /\ sinceSick' = Older(sinceSick, SickCooldown)
      /\ UNCHANGED <<fails, verdict>>
  BY DEF Tick
<1>4. /\ sinceFirst' \in 0 .. SickWindow + 1
      /\ sinceOK' \in 0 .. HalfWindow
      /\ sinceSick' \in 0 .. SickCooldown
  BY <1>2, <1>3, Thresholds DEF CountersTyped
<1> QED BY <1>1, <1>3, <1>4, Thresholds DEF CountersTyped, BurstIsNoticed

\* A stream's record is one, and it decides on one failure at most.
StreamsRight ==
  /\ conn \in [Conns -> Stream]
  /\ \A c \in Conns :
       conn[c].failures <= 1 /\ (conn[c].failures = 1 => conn[c].done)

\* A stream that is replaced by a record of its type leaves the others.
LEMMA StreamMoves ==
  ASSUME StreamsRight, NEW c \in Conns, NEW r \in Stream,
         conn' = [conn EXCEPT ![c] = r],
         r.failures <= 1, r.failures = 1 => r.done,
         conn[c].got => r.failures <= conn[c].failures
  PROVE  StreamsRight' /\ OneFailureHere
<1>1. /\ conn' \in [Conns -> Stream]
      /\ \A d \in Conns : conn'[d] = IF d = c THEN r ELSE conn[d]
  BY DEF StreamsRight
<1>2. \A d \in Conns : conn[d].failures \in Nat
  BY DEF StreamsRight, Stream
<1> QED BY <1>1, <1>2 DEF StreamsRight, OneFailureHere

\* Streams that do not change decide on nothing.
LEMMA StreamsStay ==
  ASSUME StreamsRight, UNCHANGED conn
  PROVE  StreamsRight' /\ OneFailureHere
<1>1. \A d \in Conns : conn[d].failures \in Nat
  BY DEF StreamsRight, Stream
<1> QED BY <1>1 DEF StreamsRight, OneFailureHere

\* Each step of a stream: what it decides on is at most one failure of its life, and
\* none once it had data.
LEMMA StreamStepRight ==
  ASSUME StreamsRight, NEW c \in Conns, StreamStep(c)
  PROVE  StreamsRight' /\ OneFailureHere
<1>a. /\ conn \in [Conns -> Stream] /\ conn[c] \in Stream
      /\ conn[c].failures <= 1 /\ (conn[c].failures = 1 => conn[c].done)
      /\ conn[c].failures \in Nat /\ conn[c].done \in BOOLEAN
      /\ conn[c].got \in BOOLEAN /\ conn[c].failDue \in BOOLEAN
  BY DEF StreamsRight, Stream
<1>b. NoConn \in Stream /\ NoConn.failures = 0
  BY Thresholds DEF NoConn, Stream, Phases
<1>1. CASE Dial(c)
  <2> DEFINE r == [NoConn EXCEPT !.phase = "open"]
  <2>1. r \in Stream /\ r.failures = 0
    BY <1>b DEF Stream, Phases
  <2>2. conn' = [conn EXCEPT ![c] = r]
    BY <1>1 DEF Dial
  <2> HIDE DEF r
  <2>3. /\ r.failures <= 1 /\ (r.failures = 1 => r.done)
        /\ conn[c].got => r.failures <= conn[c].failures
    BY <1>a, <2>1
  <2> QED BY <2>1, <2>2, <2>3, StreamMoves
<1>2. CASE FirstData(c)
  <2> DEFINE r == [conn[c] EXCEPT !.got = TRUE, !.done = TRUE]
  <2>1. r \in Stream /\ r.failures = conn[c].failures /\ r.done
    BY <1>a DEF Stream
  <2>2. conn' = [conn EXCEPT ![c] = r]
    BY <1>2, <1>a DEF FirstData
  <2> HIDE DEF r
  <2>3. /\ r.failures <= 1 /\ (r.failures = 1 => r.done)
        /\ conn[c].got => r.failures <= conn[c].failures
    BY <1>a, <2>1
  <2> QED BY <2>1, <2>2, <2>3, StreamMoves
<1>3. CASE MoreData(c)
  BY <1>3, StreamsStay DEF MoreData
<1>4. CASE ServerReplied(c)
  <2> DEFINE r == [conn[c] EXCEPT !.done = TRUE]
  <2>1. r \in Stream /\ r.failures = conn[c].failures /\ r.done
    BY <1>a DEF Stream
  <2>2. conn' = [conn EXCEPT ![c] = r]
    BY <1>4, <1>a DEF ServerReplied
  <2> HIDE DEF r
  <2>3. /\ r.failures <= 1 /\ (r.failures = 1 => r.done)
        /\ conn[c].got => r.failures <= conn[c].failures
    BY <1>a, <2>1
  <2> QED BY <2>1, <2>2, <2>3, StreamMoves
<1>5. CASE NoteErr(c)
  <2> DEFINE number == Atmost(conn[c].failures + 1, 2)
             r == [conn[c] EXCEPT !.done = TRUE, !.failDue = TRUE, !.failures = number]
  <2>1. ~conn[c].got /\ ~conn[c].done
    BY <1>5 DEF NoteErr
  <2>2. conn[c].failures = 0
    BY <1>a, <2>1
  <2>3. r \in Stream /\ r.failures = 1 /\ r.done
    <3>1. number = 1 /\ number \in 0 .. 2
      BY <2>2 DEF Atmost
    <3> HIDE DEF number
    <3>2. r.failures = number /\ r.done = TRUE
      BY <1>a DEF Stream
    <3>3. r \in Stream
      BY <1>a, <3>1 DEF Stream
    <3> QED BY <3>1, <3>2, <3>3
  <2>4. conn' = [conn EXCEPT ![c] = r]
    BY <1>5, <1>a DEF NoteErr
  <2> HIDE DEF r
  <2>5. /\ r.failures <= 1 /\ (r.failures = 1 => r.done)
        /\ conn[c].got => r.failures <= conn[c].failures
    BY <2>1, <2>3
  <2> QED BY <2>3, <2>4, <2>5, StreamMoves
<1>6. CASE Close(c)
  <2> DEFINE settles == ~conn[c].got /\ ~conn[c].done
             failed  == settles /\ conn[c].age > HandshakeWindow
             settled == conn[c].done \/ settles
             due == conn[c].failDue \/ failed
             number == IF failed THEN Atmost(conn[c].failures + 1, 2)
                       ELSE conn[c].failures
             r == [conn[c] EXCEPT !.phase = "closing", !.done = settled,
                                  !.failDue = due, !.failures = number]
  <2>1. due \in BOOLEAN /\ settled \in BOOLEAN
    OBVIOUS
  <2>2. number \in 0 .. 2 /\ conn[c].age \in 0 .. HandshakeWindow + 1
    BY <1>a DEF Stream, Atmost
  <2>3. conn' = [conn EXCEPT ![c] = r]
    BY <1>6, <1>a DEF Close
  <2>4. number <= 1 /\ (number = 1 => settled)
    BY <1>a DEF Atmost
  <2>5. conn[c].got => number = conn[c].failures
    OBVIOUS
  <2> HIDE DEF settled, due, number
  <2>6. r \in Stream /\ r.failures = number /\ r.done = settled
    BY <1>a, <2>1, <2>2 DEF Stream, Phases
  <2> HIDE DEF r
  <2>7. r.failures <= 1 /\ (r.failures = 1 => r.done)
    BY <2>1, <2>4, <2>6
  <2>8. /\ r.failures <= 1 /\ (r.failures = 1 => r.done)
        /\ conn[c].got => r.failures <= conn[c].failures
    BY <1>a, <2>5, <2>6, <2>7
  <2> QED BY <2>3, <2>6, <2>8, StreamMoves
<1>7. CASE Closed(c)
  <2>1. conn' = [conn EXCEPT ![c] = NoConn]
    BY <1>7 DEF Closed
  <2>2. /\ NoConn.failures <= 1 /\ (NoConn.failures = 1 => NoConn.done)
        /\ conn[c].got => NoConn.failures <= conn[c].failures
    BY <1>a, <1>b
  <2> QED BY <1>b, <2>1, <2>2, StreamMoves
<1>8. CASE ReportFail(c)
  <2> DEFINE r == [conn[c] EXCEPT !.failDue = FALSE]
  <2>1. r \in Stream /\ r.failures = conn[c].failures /\ r.done = conn[c].done
    BY <1>a DEF Stream
  <2>2. conn' = [conn EXCEPT ![c] = r]
    BY <1>8, <1>a DEF ReportFail
  <2> HIDE DEF r
  <2>3. /\ r.failures <= 1 /\ (r.failures = 1 => r.done)
        /\ conn[c].got => r.failures <= conn[c].failures
    BY <1>a, <2>1
  <2> QED BY <2>1, <2>2, <2>3, StreamMoves
<1> QED BY <1>1, <1>2, <1>3, <1>4, <1>5, <1>6, <1>7, <1>8 DEF StreamStep

\* Time only makes streams older.
LEMMA TickStreams ==
  ASSUME StreamsRight, Tick
  PROVE  StreamsRight' /\ OneFailureHere
<1> DEFINE older(c) == IF conn[c].phase = "none" THEN conn[c]
                      ELSE [conn[c] EXCEPT !.age = Older(@, HandshakeWindow + 1)]
<1>1. ASSUME NEW c \in Conns
      PROVE  /\ older(c) \in Stream /\ older(c).failures = conn[c].failures
             /\ older(c).done = conn[c].done /\ conn[c].failures \in Nat
  <2>1. conn[c] \in Stream
    BY DEF StreamsRight
  <2>2. Older(conn[c].age, HandshakeWindow + 1) \in 0 .. HandshakeWindow + 1
    BY <2>1, Thresholds DEF Stream, Older
  <2> QED BY <2>1, <2>2 DEF Stream
<1>2. conn' = [c \in Conns |-> older(c)]
  BY DEF Tick
<1>3. \A c \in Conns : conn'[c] = older(c)
  BY <1>2
<1>4. conn' \in [Conns -> Stream]
  BY <1>1, <1>2
<1> HIDE DEF older
<1> QED BY <1>1, <1>3, <1>4 DEF StreamsRight, OneFailureHere

\* The rest of the state is typed; of a goroutine's attempts there are WarmTries.
FlagsTyped ==
  /\ update \in Handler /\ needed \in BOOLEAN /\ owed \in BOOLEAN
  /\ warming \in BOOLEAN
  /\ warm \in [Warmers -> [pc: WarmPcs, try: 0 .. WarmTries - 1]]

\* The parts are the whole.
LEMMA StreamInvParts ==
  StreamInv <=> CountersTyped /\ StreamsRight /\ FlagsTyped
BY DEF StreamInv, SessionTypeOK, CountersTyped, StreamsRight, FlagsTyped

\* A goroutine that is started begins its first attempt.
LEMMA RebuiltTyped ==
  ASSUME FlagsTyped, WarmInv, Rebuilt
  PROVE  /\ warming' \in BOOLEAN
         /\ warm' \in [Warmers -> [pc: WarmPcs, try: 0 .. WarmTries - 1]]
<1>1. [pc |-> "check", try |-> 0] \in [pc: WarmPcs, try: 0 .. WarmTries - 1]
  BY Thresholds DEF WarmPcs
<1> DEFINE g == Min({x \in Warmers : warm[x].pc = "idle"})
<1>2. CASE needed /\ ~warming
  <2>1. warming' = TRUE /\ warm' = [warm EXCEPT ![g] = [pc |-> "check", try |-> 0]]
    BY <1>2 DEF Rebuilt
  <2> HIDE DEF g
  <2> QED BY <1>1, <2>1 DEF FlagsTyped
<1>3. CASE ~(needed /\ ~warming)
  BY <1>3 DEF Rebuilt, warmVars, FlagsTyped
<1> QED BY <1>2, <1>3

\* Every step keeps the flags and the attempts within their types.
LEMMA FlagsKeep ==
  ASSUME FlagsTyped, WarmInv, [SessionNext]_sessionVars
  PROVE  FlagsTyped'
<1>1. ASSUME NEW c \in Conns, StreamStep(c) PROVE FlagsTyped'
  BY <1>1 DEF StreamStep, Dial, FirstData, MoreData, ServerReplied, NoteErr, Close,
              Closed, ReportFail, StreamFrame, DecideOnly, FlagsTyped
<1>2. CASE DialFails \/ PacketOpens
  BY <1>2 DEF DialFails, PacketOpens, StreamFrame, FlagsTyped
<1>3. CASE TearSick \/ NetworkChanged \/ ResetFailures
  BY <1>3 DEF TearSick, NetworkChanged, ResetFailures, warmVars, FlagsTyped, Handler
<1>4. CASE RebuiltSick \/ RebuiltNetwork
  <2>1. Rebuilt /\ update' \in {update, "idle"} /\ UNCHANGED <<needed, owed>>
    BY <1>4 DEF RebuiltSick, RebuiltNetwork
  <2> QED BY <2>1, RebuiltTyped DEF FlagsTyped, Handler
<1>5. ASSUME NEW g \in Warmers, WarmStep(g) PROVE FlagsTyped'
  <2> DEFINE R == [pc: WarmPcs, try: 0 .. WarmTries - 1]
  <2>1. warm[g] \in R /\ warm[g].try \in 0 .. WarmTries - 1
    BY DEF FlagsTyped
  <2>2. \A pc \in WarmPcs : [warm[g] EXCEPT !.pc = pc] \in R
    BY <2>1
  <2>3. CASE WarmCheck(g)
    <3>1. /\ warm' = [warm EXCEPT ![g] =
                        [@ EXCEPT !.pc = IF needed THEN "dial" ELSE "leave"]]
          /\ UNCHANGED <<update, warming, needed, owed>>
      BY <2>3 DEF WarmCheck
    <3>2. (IF needed THEN "dial" ELSE "leave") \in WarmPcs
      BY DEF WarmPcs
    <3> QED BY <3>1, <3>2, <2>2 DEF FlagsTyped
  <2>4. CASE WarmUp(g)
    <3>1. /\ warm' = [warm EXCEPT ![g] = [@ EXCEPT !.pc = "leave"]]
          /\ owed' = FALSE /\ UNCHANGED <<update, warming, needed>>
      BY <2>4 DEF WarmUp
    <3>2. "leave" \in WarmPcs
      BY DEF WarmPcs
    <3> QED BY <3>1, <3>2, <2>2 DEF FlagsTyped
  <2>5. CASE WarmFails(g)
    <3>1. PICK noUDP \in BOOLEAN :
            warm' = [warm EXCEPT ![g] =
                       IF noUDP \/ warm[g].try = WarmTries - 1
                         THEN [warm[g] EXCEPT !.pc = "leave"]
                         ELSE [pc |-> "check", try |-> warm[g].try + 1]]
      BY <2>5, <2>1 DEF WarmFails, FlagsTyped
    <3>2. (IF noUDP \/ warm[g].try = WarmTries - 1
             THEN [warm[g] EXCEPT !.pc = "leave"]
             ELSE [pc |-> "check", try |-> warm[g].try + 1]) \in R
      <4>1. CASE noUDP \/ warm[g].try = WarmTries - 1
        BY <4>1, <2>2 DEF WarmPcs
      <4>2. CASE ~(noUDP \/ warm[g].try = WarmTries - 1)
        <5>1. warm[g].try + 1 \in 0 .. WarmTries - 1 /\ "check" \in WarmPcs
          BY <4>2, <2>1, Thresholds DEF WarmPcs
        <5> QED BY <4>2, <5>1
      <4> QED BY <4>1, <4>2
    <3>3. warm' \in [Warmers -> R]
      BY <3>1, <3>2 DEF FlagsTyped
    <3> QED BY <3>3, <2>5 DEF WarmFails, FlagsTyped
  <2>6. CASE WarmLeave(g)
    <3>1. Idle \in R
      BY Thresholds DEF Idle, WarmPcs
    <3> QED BY <2>6, <3>1 DEF WarmLeave, FlagsTyped
  <2> QED BY <1>5, <2>3, <2>4, <2>5, <2>6 DEF WarmStep
<1>6. CASE NeededChanges \/ Tick \/ UNCHANGED sessionVars
  BY <1>6 DEF NeededChanges, Tick, sessionVars, warmVars, FlagsTyped
<1> QED BY <1>1, <1>2, <1>3, <1>4, <1>5, <1>6 DEF SessionNext, TeardownStep

\* Every step keeps the counters right.
LEMMA CountersKeep ==
  ASSUME CountersTyped, [SessionNext]_sessionVars
  PROVE  CountersTyped'
<1>a. ASSUME UNCHANGED counters, verdict' \in Handler PROVE CountersTyped'
  BY <1>a DEF counters, CountersTyped, BurstIsNoticed
<1>1. ASSUME NEW c \in Conns, StreamStep(c) PROVE CountersTyped'
  <2>1. CASE Dial(c) \/ NoteErr(c) \/ Close(c) \/ Closed(c)
    <3>1. UNCHANGED <<fails, sinceFirst, sinceOK, sinceSick, tally, verdict>>
      BY <2>1 DEF Dial, NoteErr, Close, Closed, DecideOnly, counters
    <3> QED BY <3>1, <1>a DEF counters, CountersTyped
  <2>2. CASE FirstData(c) \/ ServerReplied(c)
    BY <2>2, ClearCounts DEF FirstData, ServerReplied, NoteOK
  <2>3. CASE MoreData(c)
    BY <2>3, TouchCounts DEF MoreData
  <2>4. CASE ReportFail(c)
    BY <2>4, FailCounts DEF ReportFail
  <2> QED BY <1>1, <2>1, <2>2, <2>3, <2>4 DEF StreamStep
<1>2. CASE DialFails
  BY <1>2, FailCounts DEF DialFails
<1>3. CASE PacketOpens \/ TearSick \/ NetworkChanged \/ RebuiltSick \/ RebuiltNetwork
  BY <1>3, <1>a
     DEF PacketOpens, TearSick, NetworkChanged, RebuiltSick, RebuiltNetwork,
                    Handler, CountersTyped
<1>4. CASE ResetFailures
  BY <1>4, ClearCounts DEF ResetFailures
<1>5. ASSUME NEW g \in Warmers, WarmStep(g) PROVE CountersTyped'
  <2>1. CASE WarmUp(g)
    BY <2>1, ClearCounts DEF WarmUp, NoteOK
  <2>2. CASE WarmCheck(g) \/ WarmFails(g) \/ WarmLeave(g)
    BY <2>2, <1>a DEF WarmCheck, WarmFails, WarmLeave, CountersTyped
  <2> QED BY <1>5, <2>1, <2>2 DEF WarmStep
<1>6. CASE NeededChanges \/ UNCHANGED sessionVars
  BY <1>6, <1>a DEF NeededChanges, sessionVars, counters, CountersTyped
<1>7. CASE Tick
  BY <1>7, TickCounts
<1> QED BY <1>1, <1>2, <1>3, <1>4, <1>5, <1>6, <1>7 DEF SessionNext, TeardownStep

\* Every step keeps the streams right.
LEMMA StreamsKeep ==
  ASSUME StreamsRight, [SessionNext]_sessionVars
  PROVE  StreamsRight' /\ OneFailureHere
<1>1. ASSUME ~(\E c \in Conns : StreamStep(c)), ~Tick PROVE UNCHANGED conn
  BY <1>1
     DEF SessionNext, DialFails, PacketOpens, TeardownStep, TearSick, RebuiltSick,
              ResetFailures, RebuiltNetwork, NetworkChanged, WarmStep, WarmCheck, WarmUp,
              WarmFails, WarmLeave, NeededChanges, sessionVars
<1> QED BY <1>1, StreamStepRight, TickStreams, StreamsStay

\* At the start nothing has failed.
LEMMA StreamInitially == SessionInit => StreamInv
<1> SUFFICES ASSUME SessionInit PROVE StreamInv
  OBVIOUS
<1>1. /\ tally \in [0 .. SickWindow -> 0 .. SickFailures] /\ tally[0] = 0
  BY Thresholds DEF SessionInit, NoFailures
<1>2. StreamsRight
  <2>1. NoConn \in Stream /\ NoConn.failures = 0
    BY Thresholds DEF NoConn, Stream, Phases
  <2> QED BY <2>1 DEF SessionInit, StreamsRight
<1>3. FlagsTyped
  <2>1. Idle \in [pc: WarmPcs, try: 0 .. WarmTries - 1]
    BY Thresholds DEF Idle, WarmPcs
  <2> QED BY <2>1 DEF SessionInit, FlagsTyped, Handler
<1>4. CountersTyped
  BY <1>1, Thresholds DEF SessionInit, CountersTyped, BurstIsNoticed, Handler
<1> QED BY <1>2, <1>3, <1>4, StreamInvParts

\* Both invariants hold throughout, and what a step decides is one failure at most.
LEMMA SessionStepKeeps ==
  ASSUME WarmInv, StreamInv, [SessionNext]_sessionVars
  PROVE  StreamInv' /\ OneFailureHere
<1>1. CountersTyped /\ StreamsRight /\ FlagsTyped
  BY StreamInvParts
<1>2. CountersTyped' /\ StreamsRight' /\ FlagsTyped' /\ OneFailureHere
  BY <1>1, CountersKeep, StreamsKeep, FlagsKeep
<1>3. StreamInv'
  BY <1>2 DEF StreamInv, SessionTypeOK, CountersTyped, StreamsRight, FlagsTyped
<1> QED BY <1>2, <1>3

\* Type correctness of the component, in every field of every stream and goroutine.
THEOREM SessionTypeCorrect == SessionSpec => []SessionTypeOK
<1>1. StreamInv => SessionTypeOK
  BY DEF StreamInv
<1>2. StreamInv /\ WarmInv /\ [SessionNext]_sessionVars => StreamInv'
  BY SessionStepKeeps
<1> QED BY <1>1, <1>2, StreamInitially, WarmInvariant, PTL DEF SessionSpec

\* The row the code counts is made of failures the history has, none older than its first.
RowInv == sinceFirst <= SickWindow => fails <= Cardinality(FailuresOfLast(sinceFirst))

\* What is counted is finite, and more ticks have no fewer failures.
LEMMA FailuresFinite ==
  ASSUME NEW m \in Nat, NEW n \in Nat, m <= n
  PROVE  /\ IsFiniteSet(FailuresOfLast(n)) /\ Cardinality(FailuresOfLast(n)) \in Nat
         /\ Cardinality(FailuresOfLast(m)) \in Nat
         /\ Cardinality(FailuresOfLast(m)) <= Cardinality(FailuresOfLast(n))
<1>1. IsFiniteSet((0 .. n) \X (1 .. SickFailures))
  <2>1. IsFiniteSet(0 .. n) /\ IsFiniteSet(1 .. SickFailures)
    BY FS_Interval, Thresholds
  <2> QED BY <2>1, FS_Product
<1>2. FailuresOfLast(n) \in SUBSET ((0 .. n) \X (1 .. SickFailures))
  BY DEF FailuresOfLast
<1>3. IsFiniteSet(FailuresOfLast(n))
  BY <1>1, <1>2, FS_Subset
<1>4. FailuresOfLast(m) \in SUBSET FailuresOfLast(n)
  BY DEF FailuresOfLast
<1> QED BY <1>3, <1>4, FS_Subset, FS_CardinalityType

\* One failure more, or as many as are ever counted.
LEMMA FailureIsAdded ==
  ASSUME CountersTyped, NEW n \in 0 .. SickWindow,
         tally' = [tally EXCEPT ![0] = Atmost(@ + 1, SickFailures)]
  PROVE  /\ Cardinality(FailuresOfLast(n))' \in Nat
         /\ \/ Cardinality(FailuresOfLast(n))' = Cardinality(FailuresOfLast(n)) + 1
            \/ Cardinality(FailuresOfLast(n))' >= SickFailures
<1> DEFINE Now == FailuresOfLast(n)
           Then == {f \in (0 .. n) \X (1 .. SickFailures) : f[2] <= tally'[f[1]]}
<1>1. tally[0] \in 0 .. SickFailures /\ 0 \in 0 .. SickWindow /\ n \in Nat
  BY Thresholds DEF CountersTyped
<1>2. \A age \in 0 .. n :
        tally'[age] = IF age = 0 THEN Atmost(tally[0] + 1, SickFailures) ELSE tally[age]
  BY Thresholds DEF CountersTyped
<1>3. IsFiniteSet(Now) /\ Cardinality(Now) \in Nat
  BY <1>1, FailuresFinite
<1>6. IsFiniteSet(Then) /\ Cardinality(Then) \in Nat
  <2>1. IsFiniteSet(0 .. n) /\ IsFiniteSet(1 .. SickFailures)
    BY FS_Interval, Thresholds
  <2>2. IsFiniteSet((0 .. n) \X (1 .. SickFailures))
    BY <2>1, FS_Product
  <2>3. Then \in SUBSET ((0 .. n) \X (1 .. SickFailures))
    OBVIOUS
  <2>4. IsFiniteSet(Then)
    BY <2>2, <2>3, FS_Subset
  <2> QED BY <2>4, FS_CardinalityType
<1>4. CASE tally[0] < SickFailures
  <2> DEFINE new == <<0, tally[0] + 1>>
  <2>1. Then = Now \cup {new}
    <3>1. tally[0] + 1 \in 1 .. SickFailures /\ tally'[0] = tally[0] + 1
      BY <1>1, <1>2, <1>4, Thresholds DEF Atmost
    <3>2. ASSUME NEW age \in 0 .. n, NEW i \in 1 .. SickFailures
          PROVE  i <= tally'[age] <=> i <= tally[age] \/ (age = 0 /\ i = tally[0] + 1)
      BY <1>1, <1>2, <3>1, Thresholds
    <3> QED BY <3>1, <3>2, <1>1 DEF FailuresOfLast
  <2>2. new \notin Now
    BY <1>1 DEF FailuresOfLast
  <2>3. Cardinality(Then) = Cardinality(Now) + 1
    BY <1>3, <2>1, <2>2, FS_AddElement
  <2> QED BY <1>6, <2>3 DEF FailuresOfLast
<1>5. CASE tally[0] = SickFailures
  <2> DEFINE Full == {0} \X (1 .. SickFailures)
             pair == [i \in 1 .. SickFailures |-> <<0, i>>]
  <2>1. tally'[0] = SickFailures
    BY <1>1, <1>2, <1>5, Thresholds DEF Atmost
  <2>3. pair \in Injection(1 .. SickFailures, Then)
    <3>1. \A i \in 1 .. SickFailures : <<0, i>> \in Then
      BY <2>1, <1>1
    <3>2. pair \in [1 .. SickFailures -> Then]
      BY <3>1
    <3>3. \A i, j \in 1 .. SickFailures : pair[i] = pair[j] => i = j
      OBVIOUS
    <3> QED BY <3>2, <3>3 DEF Injection, IsInjective
  <2>4. Cardinality(1 .. SickFailures) = SickFailures
    BY FS_Interval, Thresholds
  <2>5. Cardinality(1 .. SickFailures) <= Cardinality(Then)
    BY <1>6, <2>3, FS_Injection
  <2> HIDE DEF Then
  <2>7. Cardinality(Then) >= SickFailures
    BY <1>6, <2>4, <2>5, Thresholds
  <2> QED BY <1>6, <2>7 DEF FailuresOfLast, Then
<1> QED BY <1>1, <1>4, <1>5, Thresholds

\* All failures are a tick older, and none is forgotten within the window.
LEMMA FailuresAge ==
  ASSUME CountersTyped, Tick, NEW n \in Nat, n + 1 <= SickWindow
  PROVE  /\ Cardinality(FailuresOfLast(n)) <= Cardinality(FailuresOfLast(n + 1))'
         /\ Cardinality(FailuresOfLast(n + 1))' \in Nat
<1> DEFINE Now == FailuresOfLast(n)
           Then == {f \in (0 .. n + 1) \X (1 .. SickFailures) : f[2] <= tally'[f[1]]}
           older == [f \in Now |-> <<f[1] + 1, f[2]>>]
<1>1. IsFiniteSet(Then)
  <2>1. IsFiniteSet(0 .. n + 1) /\ IsFiniteSet(1 .. SickFailures)
    BY FS_Interval, Thresholds
  <2>2. IsFiniteSet((0 .. n + 1) \X (1 .. SickFailures))
    BY <2>1, FS_Product
  <2>3. Then \in SUBSET ((0 .. n + 1) \X (1 .. SickFailures))
    OBVIOUS
  <2> QED BY <2>2, <2>3, FS_Subset
<1>2. \A age \in 0 .. n : tally'[age + 1] = tally[age]
  BY Thresholds DEF Tick
<1>3. older \in [Now -> Then]
  <2>1. ASSUME NEW f \in Now PROVE <<f[1] + 1, f[2]>> \in Then
    BY <1>2 DEF FailuresOfLast
  <2> QED BY <2>1
<1>4. \A f, g \in Now : older[f] = older[g] => f = g
  BY DEF FailuresOfLast
<1>5. older \in Injection(Now, Then)
  BY <1>3, <1>4 DEF Injection, IsInjective
<1>6. Cardinality(Now) <= Cardinality(Then)
  BY <1>1, <1>5, FS_Injection
<1> QED BY <1>1, <1>6, FS_CardinalityType DEF FailuresOfLast

\* Counting a failure: one more in the row and one more that happened; and what condemns
\* a session is a row that is full with it.
LEMMA FailRow ==
  ASSUME CountersTyped, RowInv, NoteFail
  PROVE  RowInv' /\ EarnedHere
<1> DEFINE row  == IF NewRow THEN 1 ELSE Atmost(fails + 1, SickFailures)
           sick == /\ row >= SickFailures
                   /\ sinceOK >= HalfWindow
                   /\ sinceSick >= SickCooldown
<1>1. PICK n \in 0 .. SickWindow : n = IF NewRow THEN 0 ELSE sinceFirst
  BY Thresholds DEF CountersTyped, NewRow
<1>2. /\ Cardinality(FailuresOfLast(n)) \in Nat /\ Counted \in Nat
      /\ Cardinality(FailuresOfLast(n)) <= Counted
  BY FailuresFinite, Thresholds DEF Counted
<1>3. /\ row \in Nat /\ row <= SickFailures
      /\ row <= Cardinality(FailuresOfLast(n)) + 1
  <2>1. fails \in 0 .. SickFailures
    BY DEF CountersTyped
  <2>2. CASE NewRow
    BY <2>2, <1>2, Thresholds
  <2>3. CASE ~NewRow
    <3>1. fails <= Cardinality(FailuresOfLast(n))
      BY <1>1, <2>3 DEF RowInv
    <3> QED BY <3>1, <2>1, <2>3, <1>2, Thresholds DEF Atmost
  <2> QED BY <2>2, <2>3
<1>4. CASE sick
  <2>1. sinceFirst' = SickWindow + 1 /\ sinceOK >= HalfWindow
    BY <1>4 DEF NoteFail
  <2>2. Counted + 1 >= SickFailures
    <3>1. row >= SickFailures
      BY <1>4
    <3> HIDE DEF row
    <3> QED BY <3>1, <1>2, <1>3, Thresholds
  <2> QED BY <2>1, <2>2, Thresholds DEF RowInv, EarnedHere
<1>5. CASE ~sick
  <2>1. /\ fails' = row /\ sinceFirst' = n /\ verdict' = verdict
        /\ tally' = [tally EXCEPT ![0] = Atmost(@ + 1, SickFailures)]
    BY <1>1, <1>5 DEF NoteFail
  <2> HIDE DEF row
  <2>2. row <= Cardinality(FailuresOfLast(n))'
    BY <1>2, <1>3, <2>1, FailureIsAdded, Thresholds
  <2>3. Cardinality(FailuresOfLast(sinceFirst))' = Cardinality(FailuresOfLast(n))'
    BY <2>1
  <2> QED BY <2>1, <2>2, <2>3 DEF RowInv, EarnedHere
<1> QED BY <1>4, <1>5

\* Time: the failures grow older with the first of the row, and a row that has outlived
\* the window counts for nothing.
LEMMA TickRow ==
  ASSUME CountersTyped, RowInv, Tick
  PROVE  RowInv' /\ EarnedHere
<1>1. /\ sinceFirst \in 0 .. SickWindow + 1 /\ fails \in Nat
      /\ sinceFirst' = (IF sinceFirst < SickWindow + 1 THEN sinceFirst + 1 ELSE SickWindow + 1)
      /\ fails' = fails /\ verdict' = verdict
  BY Thresholds DEF CountersTyped, Tick, Older
<1>2. ASSUME sinceFirst' <= SickWindow
      PROVE  fails' <= Cardinality(FailuresOfLast(sinceFirst))'
  <2>1. PICK n \in Nat : n = sinceFirst /\ n + 1 <= SickWindow
    BY <1>1, <1>2, Thresholds
  <2>2. /\ fails <= Cardinality(FailuresOfLast(n))
        /\ Cardinality(FailuresOfLast(n)) \in Nat
    BY <2>1, FailuresFinite, Thresholds DEF RowInv
  <2>3. /\ Cardinality(FailuresOfLast(n)) <= Cardinality(FailuresOfLast(n + 1))'
        /\ Cardinality(FailuresOfLast(n + 1))' \in Nat
    BY <2>1, FailuresAge
  <2>4. Cardinality(FailuresOfLast(sinceFirst))' = Cardinality(FailuresOfLast(n + 1))'
    <3>1. sinceFirst' = n + 1
      BY <1>1, <2>1, Thresholds
    <3> QED BY <3>1 DEF FailuresOfLast
  <2> QED BY <1>1, <2>2, <2>3, <2>4
<1>3. EarnedHere
  BY <1>1 DEF EarnedHere
<1> QED BY <1>2, <1>3 DEF RowInv

\* Every step keeps the row, and a verdict is earned.
LEMMA RowKeeps ==
  ASSUME CountersTyped, RowInv, [SessionNext]_sessionVars
  PROVE  RowInv' /\ EarnedHere
<1>a. ASSUME UNCHANGED <<fails, sinceFirst, tally>>, verdict' \in {verdict, "idle", "rebuild"}
      PROVE  RowInv' /\ EarnedHere
  BY <1>a DEF RowInv, EarnedHere, FailuresOfLast
<1>b. ASSUME ClearFailures, verdict' = verdict PROVE RowInv' /\ EarnedHere
  BY <1>b, Thresholds DEF ClearFailures, RowInv, EarnedHere
<1>1. ASSUME NEW c \in Conns, StreamStep(c) PROVE RowInv' /\ EarnedHere
  <2>1. CASE Dial(c) \/ NoteErr(c) \/ Close(c) \/ Closed(c) \/ MoreData(c)
    BY <2>1, <1>a
       DEF Dial, NoteErr, Close, Closed, MoreData, Touch, DecideOnly, counters
  <2>2. CASE FirstData(c) \/ ServerReplied(c)
    BY <2>2, <1>b DEF FirstData, ServerReplied, NoteOK
  <2>3. CASE ReportFail(c)
    BY <2>3, FailRow DEF ReportFail
  <2> QED BY <1>1, <2>1, <2>2, <2>3 DEF StreamStep
<1>2. CASE DialFails
  BY <1>2, FailRow DEF DialFails
<1>3. CASE PacketOpens \/ TearSick \/ NetworkChanged \/ RebuiltSick \/ RebuiltNetwork
  BY <1>3, <1>a
     DEF PacketOpens, TearSick, NetworkChanged, RebuiltSick, RebuiltNetwork, counters
<1>4. CASE ResetFailures
  BY <1>4, <1>b DEF ResetFailures
<1>5. ASSUME NEW g \in Warmers, WarmStep(g) PROVE RowInv' /\ EarnedHere
  <2>1. CASE WarmUp(g)
    BY <2>1, <1>b DEF WarmUp, NoteOK
  <2>2. CASE WarmCheck(g) \/ WarmFails(g) \/ WarmLeave(g)
    BY <2>2, <1>a DEF WarmCheck, WarmFails, WarmLeave, counters
  <2> QED BY <1>5, <2>1, <2>2 DEF WarmStep
<1>6. CASE NeededChanges \/ UNCHANGED sessionVars
  BY <1>6, <1>a DEF NeededChanges, sessionVars, counters
<1>7. CASE Tick
  BY <1>7, TickRow
<1> QED BY <1>1, <1>2, <1>3, <1>4, <1>5, <1>6, <1>7 DEF SessionNext, TeardownStep

\* session_watch.go:199-227, for any streams and thresholds: a session is judged sick only
\* for failures enough within the window on a session that delivers nothing, it is judged
\* when there are, however old the row is that a burst joins, and a stream is one failure
\* at most, none once it had data.
THEOREM SickAlwaysRight == SessionSpec => SickIsRight
<1>1. SessionInit => RowInv
  BY Thresholds DEF SessionInit, RowInv
<1>2. StreamInv /\ WarmInv /\ RowInv /\ [SessionNext]_sessionVars
        => /\ StreamInv' /\ RowInv'
           /\ [BurstIsNoticed' /\ EarnedHere /\ OneFailureHere]_sessionVars
  <2> SUFFICES ASSUME StreamInv, WarmInv, RowInv, [SessionNext]_sessionVars
               PROVE  StreamInv' /\ RowInv' /\ BurstIsNoticed' /\ EarnedHere /\ OneFailureHere
    OBVIOUS
  <2> QED BY SessionStepKeeps, RowKeeps, StreamInvParts DEF StreamInv
<1> QED BY <1>1, <1>2, StreamInitially, WarmInvariant, PTL
           DEF SessionSpec, SickIsRight

-----------------------------------------------------------------------------
(* DirectHold: the probes a sealing guard finds.                            *)

\* Installer i has been through cancelDirect, and nobody has cleared its flag.
Sealing(i) ==
  /\ inst[i].pc \in {"install", "record", "end"}
  /\ inst[i].sealed /\ ~inst[i].robbed

Registered == \A p \in Probes : probe[p].pc # "idle" => p \in held
FlagUp == \A i \in Installers : Sealing(i) => arming
NoneLoose == \A i \in Installers : Sealing(i) => \A p \in Probes : ~Loose(p)
Unsealed == \A i \in Installers :
              inst[i].pc \in {"idle", "apply", "over"} =>
                ~inst[i].sealed /\ ~inst[i].robbed

HoldInv == DirectTypeOK /\ Registered /\ Unsealed /\ FlagUp /\ NoneLoose

\* The initial states satisfy the invariant.
LEMMA HoldInitially == DirectInit => HoldInv
<1> SUFFICES ASSUME DirectInit PROVE HoldInv
  OBVIOUS
<1>1. DirectTypeOK
  BY DEF DirectInit, DirectTypeOK, NoProbe, NoInstall
<1>2. \A p \in Probes : probe[p].pc = "idle"
  BY DEF DirectInit, NoProbe
<1>3. \A i \in Installers : inst[i] = NoInstall
  BY DEF DirectInit
<1> QED BY <1>1, <1>2, <1>3 DEF HoldInv, Registered, Unsealed, FlagUp, NoneLoose,
           Sealing, Loose, NoInstall

\* No step of a probe breaks it: a probe is registered before it asks, and is not
\* admitted while the flag is up.
LEMMA ProbeStepsHold ==
  ASSUME HoldInv, NEW p \in Probes,
         Hold(p) \/ ProbeStep(p) \/ WatchTick(p) \/ ProbeEnds(p)
  PROVE  HoldInv'
<1> USE DEF HoldInv, DirectTypeOK, Registered, Unsealed, FlagUp, NoneLoose, Sealing,
            Loose, NoProbe, probeVars, settingVars
<1>1. CASE Hold(p)       BY <1>1 DEF Hold
<1>2. CASE ReadSealed(p) BY <1>2 DEF ReadSealed
<1>3. CASE Refused(p)    BY <1>3 DEF Refused
<1>4. CASE Admitted(p)   BY <1>4 DEF Admitted, Armed
<1>5. CASE WatchTick(p)  BY <1>5 DEF WatchTick
<1>6. CASE ProbeEnds(p)  BY <1>6 DEF ProbeEnds
<1> QED BY <1>1, <1>2, <1>3, <1>4, <1>5, <1>6 DEF ProbeStep

\* No step of a download or of the user breaks it.
LEMMA OtherStepsHold ==
  ASSUME HoldInv,
         \/ UserActs
         \/ \E d \in Downloads : Request(d) \/ ReadStops(d) \/ ReadEnds(d)
  PROVE  HoldInv'
<1> USE DEF HoldInv, DirectTypeOK, Registered, Unsealed, FlagUp, NoneLoose, Sealing,
            Loose, probeVars, settingVars
<1>1. CASE UserActs BY <1>1 DEF UserActs
<1>2. ASSUME NEW d \in Downloads, Request(d) \/ ReadStops(d) \/ ReadEnds(d)
      PROVE  HoldInv'
  <2>1. DirectTypeOK'
    BY <1>2 DEF Request, ReadStops, ReadEnds
  <2>2. UNCHANGED <<settingVars, on, arming, probeVars, cancelled, inst>>
    BY <1>2 DEF Request, ReadStops, ReadEnds
  <2> QED BY <2>1, <2>2
<1> QED BY <1>1, <1>2

\* No step of an installer breaks it.
LEMMA InstallerStepsHold ==
  ASSUME HoldInv,
         \/ SyncInstall \/ BootInstall
         \/ \E i \in Installers : Clear(i) \/ InstallStep(i)
  PROVE  HoldInv'
<1> USE DEF HoldInv, DirectTypeOK, Registered, Unsealed, FlagUp, NoneLoose, Sealing,
            Loose, probeVars, settingVars, Go, Installers
<1>1. CASE SyncInstall BY <1>1 DEF SyncInstall
<1>2. CASE BootInstall BY <1>2 DEF BootInstall
<1>3. ASSUME NEW i \in Installers, Clear(i) PROVE HoldInv'
  BY <1>3 DEF Clear, Finish
<1>4. ASSUME NEW i \in Installers, StartApply(i) PROVE HoldInv'
  BY <1>4 DEF StartApply
<1>5. ASSUME NEW i \in Installers, Install(i) PROVE HoldInv'
  BY <1>5 DEF Install
<1>6. ASSUME NEW i \in Installers, InstallFails(i) PROVE HoldInv'
  BY <1>6 DEF InstallFails
<1>7. ASSUME NEW i \in Installers, Record(i) PROVE HoldInv'
  BY <1>7 DEF Record
<1>8. ASSUME NEW i \in Installers, EndArming(i) PROVE HoldInv'
  <2>1. DirectTypeOK'
    BY <1>8 DEF EndArming, NoInstall, Finish
  <2>2. \A j \in Installers \ {i} :
          /\ inst'[j].pc = inst[j].pc /\ inst'[j].sealed = inst[j].sealed
          /\ inst'[j].robbed
               = (inst[j].robbed \/ (inst[i].sealed /\ inst[j].sealed))
    BY <1>8 DEF EndArming
  <2>3. /\ inst'[i] = [NoInstall EXCEPT !.pc = Finish(i)]
        /\ Finish(i) \in {"idle", "over"}
    BY <1>8 DEF EndArming, Finish
  <2>4. \A j \in Installers : Sealing(j)' => j # i /\ Sealing(j) /\ ~inst[i].sealed
    BY <2>2, <2>3 DEF NoInstall
  <2>5. FlagUp'
    BY <1>8, <2>4 DEF EndArming
  <2>6. NoneLoose'
    BY <1>8, <2>4 DEF EndArming
  <2>7. Registered'
    BY <1>8 DEF EndArming
  <2>8. Unsealed'
    BY <2>2, <2>3 DEF NoInstall
  <2> QED BY <2>1, <2>5, <2>6, <2>7, <2>8
<1> QED BY <1>1, <1>2, <1>3, <1>4, <1>5, <1>6, <1>7, <1>8 DEF InstallStep

\* Every step keeps it.
LEMMA HoldStepKeeps ==
  ASSUME HoldInv, [DirectNext]_directVars
  PROVE  HoldInv'
<1>1. CASE DirectNext
  BY <1>1, ProbeStepsHold, OtherStepsHold, InstallerStepsHold DEF DirectNext
<1>2. CASE UNCHANGED directVars
  BY <1>2 DEF directVars, HoldInv, DirectTypeOK, Registered, Unsealed, FlagUp,
              NoneLoose, Sealing, Loose
<1> QED BY <1>1, <1>2

\* The invariant holds throughout, of any number of probes and downloads.
LEMMA HoldInvariant == DirectSpec => []HoldInv
<1>1. HoldInv /\ [DirectNext]_directVars => HoldInv'
  BY HoldStepKeeps
<1> QED BY HoldInitially, <1>1, PTL DEF DirectSpec

\* Type correctness of the component.
THEOREM DirectTypeCorrect == DirectSpec => []DirectTypeOK
BY HoldInvariant, PTL DEF HoldInv

\* directhttp.go:181-184: whatever is registered, asking or running when an
\* installation of a sealing guard begins, and whatever comes while it lasts, none
\* of it is out uncancelled, as long as no other installation clears the flag.
THEOREM SealingAlwaysFindsNoProbe == DirectSpec => []SealingFindsNoProbe
<1>1. HoldInv => SealingFindsNoProbe
  BY DEF HoldInv, DirectTypeOK, NoneLoose, Sealing, SealingFindsNoProbe, AtWork
<1> QED BY <1>1, HoldInvariant, PTL

-----------------------------------------------------------------------------
(* ExitLookup: the address shown as the way out.                            *)

\* What the records are made of.
LookupType == [at : {"idle", "measure", "named", "begun", "under way"},
               node : Named, last : BOOLEAN, check : BOOLEAN]
WatchType == [at : {"idle", "stopping", "checked", "recover", "borrowed"},
              op : {Unknown}, tag : Named, was : {Unknown}]
AskedType == [at : {"idle", "hide", "rebuild", "restart", "take back", "select", "clear",
                    "measure"},
               op : {Unknown, "node", "settings", "tighten", "relax"},
               tag : ExitNodes \cup {AutoGroup, Unknown},
               was : ExitNodes \cup {AutoGroup, Unknown}]

\* The types of everything but the lookups.
ExitTyped ==
  /\ running \in BOOLEAN /\ proxy \in ExitNodes \cup {AutoGroup} /\ auto \in ExitNodes
  /\ chosen \in ExitNodes \cup {AutoGroup} /\ hidden \in BOOLEAN /\ reverted \in BOOLEAN
  /\ exit \in Named /\ exitNode \in Named /\ aged \in BOOLEAN
  /\ watch \in WatchType /\ asked \in AskedType
  /\ asked.at \in {"hide", "select"} => asked.tag # Unknown
  /\ asked.at \in {"hide", "rebuild", "restart", "take back"} => asked.was # Unknown
  /\ since \subseteq Named

LookupsTyped == lookups \in [Slots -> LookupType]
OneLast == \A l, m \in Slots : lookups[l].last /\ lookups[m].last => l = m

\* A lookup that will write its answer down
Deciding(l) == lookups[l].at = "under way" /\ lookups[l].last

\* No lookup begins to; those that still will keep their node.
NoneMoreDecides ==
  \A m \in Slots : Deciding(m)' =>
    Deciding(m) /\ lookups'[m].node = lookups[m].node

\* The last lookup asks for a node in use since the exit was last forgotten, and not
\* while the address is hidden, unless a rollback has hidden it.
LastIsSince == \A l \in Slots : Deciding(l) =>
  lookups[l].node \in since /\ (hidden => asked.at = "hide" \/ reverted)
UsedIsSince == running => currentNode \in since

ExitInv == /\ ExitTyped /\ LookupsTyped /\ OneLast
           /\ LastIsSince /\ UsedIsSince /\ ShownExitIsValid

\* The node in use is a node, or unknown while the core does not run.
LEMMA CurrentTyped ==
  ASSUME ExitTyped
  PROVE  currentNode \in Named
BY ExitConstants DEF ExitTyped, currentNode, Named

\* With every rank taken away no lookup is the last one.
LEMMA OutdatedTyped ==
  ASSUME LookupsTyped
  PROVE  /\ Outdated(lookups) \in [Slots -> LookupType]
         /\ \A l \in Slots : ~Outdated(lookups)[l].last
<1>1. \A l \in Slots : [lookups[l] EXCEPT !.last = FALSE] \in LookupType
  BY DEF LookupsTyped, LookupType
<1>2. \A l \in Slots : ~[lookups[l] EXCEPT !.last = FALSE].last
  BY DEF LookupsTyped, LookupType
<1> QED BY <1>1, <1>2 DEF Outdated

\* One lookup is replaced; if by the last one, then no other is.
LEMMA LookupChanges ==
  ASSUME LookupsTyped, OneLast, NEW l, NEW r \in LookupType,
         NEW ls \in {lookups, Outdated(lookups)}, lookups' = [ls EXCEPT ![l] = r],
         r.last => ls = Outdated(lookups) \/ (l \in Slots /\ lookups[l].last)
  PROVE  /\ LookupsTyped' /\ OneLast'
         /\ \A m \in Slots : Deciding(m)' =>
              \/ m = l /\ r.at = "under way" /\ lookups'[m].node = r.node
              \/ Deciding(m) /\ lookups'[m].node = lookups[m].node
<1>1. ls \in [Slots -> LookupType]
  BY OutdatedTyped DEF LookupsTyped
<1>2. /\ lookups' \in [Slots -> LookupType]
      /\ \A m \in Slots : lookups'[m] = IF m = l THEN r ELSE ls[m]
  BY <1>1
<1>3. ASSUME NEW m \in Slots, ls[m].last  PROVE ls[m] = lookups[m]
  BY <1>3, OutdatedTyped
<1>4. OneLast'
  BY <1>2, <1>3, OutdatedTyped DEF OneLast
<1> QED BY <1>2, <1>3, <1>4 DEF LookupsTyped, Deciding

\* clearExit makes every lookup out of date and forgets what is shown.
LEMMA ClearKeeps ==
  ASSUME ExitInv, clearExit, ExitTyped',
         UNCHANGED <<proxy, auto>>, running' => running
  PROVE  ExitInv'
<1>1. LookupsTyped' /\ \A m \in Slots : ~lookups'[m].last
  BY OutdatedTyped DEF clearExit, ExitInv, LookupsTyped
<1>2. OneLast' /\ LastIsSince'
  BY <1>1 DEF OneLast, LastIsSince, Deciding
<1>3. UsedIsSince'
  BY DEF UsedIsSince, clearExit, currentNode, ExitTyped
<1>4. ShownExitIsValid'
  BY DEF clearExit, ShownExitIsValid, OldExitStaysGone, HiddenMeansHidden
<1> QED BY <1>1, <1>2, <1>3, <1>4 DEF ExitInv

\* A step that neither shows an address nor touches a lookup that will.
LEMMA QuietKeeps ==
  ASSUME ExitInv, ExitTyped', LookupsTyped', OneLast', UsedIsSince',
         UNCHANGED exit, since \subseteq since',
         hidden' => \/ /\ hidden /\ UNCHANGED reverted
                       /\ asked'.at = "hide" <=> asked.at = "hide"
                    \/ asked'.at = "hide" \/ reverted',
         NoneMoreDecides
  PROVE  ExitInv'
<1>1. LastIsSince'
  BY DEF ExitInv, LastIsSince, NoneMoreDecides
<1>2. ShownExitIsValid'
  BY DEF ExitInv, ShownExitIsValid, OldExitStaysGone, HiddenMeansHidden
<1> QED BY <1>1, <1>2 DEF ExitInv

\* The record of a lookup that has just been replaced by r.
LEMMA RecordsTyped ==
  ASSUME ExitTyped, LookupsTyped
  PROVE  /\ NoLookup \in LookupType /\ Measuring \in LookupType
         /\ \A c \in BOOLEAN : Begun(c) \in LookupType
         /\ Quiet \in WatchType /\ Quiet \in AskedType
         /\ \A l \in Slots :
              /\ lookups[l] \in LookupType
              /\ [lookups[l] EXCEPT !.at = "named", !.node = currentNode]
                   \in LookupType
              /\ [lookups[l] EXCEPT !.at = "under way", !.node = currentNode]
                   \in LookupType
<1>1. \A l \in Slots : lookups[l] \in LookupType
  BY DEF LookupsTyped
<1>2. /\ NoLookup \in LookupType /\ Measuring \in LookupType
      /\ \A c \in BOOLEAN : Begun(c) \in LookupType
      /\ Quiet \in WatchType /\ Quiet \in AskedType
  BY DEF NoLookup, Measuring, Begun, Quiet, LookupType, WatchType, AskedType, Named
<1>3. ASSUME NEW l \in Slots, NEW at \in {"named", "under way"}
      PROVE  [lookups[l] EXCEPT !.at = at, !.node = currentNode] \in LookupType
  BY <1>1, CurrentTyped DEF LookupType
<1> QED BY <1>1, <1>2, <1>3

\* A goroutine that begins a lookup leaves the others; the last one is new, or as
\* before.
LEMMA SpawnMoves ==
  ASSUME ExitTyped, LookupsTyped, OneLast, NEW r \in LookupType, Spawn(r),
         r.at # "under way"
  PROVE  LookupsTyped' /\ OneLast' /\ NoneMoreDecides
<1> DEFINE l == CHOOSE i \in Free : \A j \in Free : i <= j
           ls == IF r.last THEN Outdated(lookups) ELSE lookups
<1>1. lookups' = [ls EXCEPT ![l] = r]
  BY DEF Spawn
<1> HIDE DEF l
<1> QED BY <1>1, LookupChanges DEF NoneMoreDecides

\* No step of a lookup breaks the invariant.
LEMMA LookupKeeps ==
  ASSUME ExitInv, NEW l \in Slots, LookupSteps(l)
  PROVE  ExitInv'
<1>a. ExitTyped /\ LookupsTyped /\ OneLast /\ UsedIsSince
  BY DEF ExitInv
<1>1. CASE Measure(l)
  <2> DEFINE r == [lookups[l] EXCEPT !.at = "named", !.node = currentNode]
  <2>1. r \in LookupType /\ r.at = "named" /\ r.last = lookups[l].last
    BY <1>a, RecordsTyped DEF LookupType
  <2>2. lookups' = [lookups EXCEPT ![l] = r]
    BY <1>1 DEF Measure
  <2>3. UNCHANGED <<groupVars, chosen, hidden, reverted, shownVars, watch, asked>>
    BY <1>1 DEF Measure
  <2> HIDE DEF r
  <2>4. LookupsTyped' /\ OneLast' /\ NoneMoreDecides
    BY <1>a, <2>1, <2>2, LookupChanges DEF NoneMoreDecides
  <2> QED BY <1>a, <2>3, <2>4, QuietKeeps DEF ExitTyped, UsedIsSince, currentNode,
              groupVars, shownVars, Named
<1>2. CASE beginExit(l)
  <2>1. Begun(FALSE) \in LookupType /\ Begun(FALSE).at = "begun"
    BY <1>a, RecordsTyped DEF Begun, NoLookup
  <2>2. lookups' = [Outdated(lookups) EXCEPT ![l] = Begun(FALSE)]
    BY <1>2 DEF beginExit
  <2>3. /\ UNCHANGED <<groupVars, chosen, hidden, reverted, exit, aged, watch, asked>>
        /\ exitNode' = lookups[l].node
    BY <1>2 DEF beginExit
  <2>4. LookupsTyped' /\ OneLast' /\ NoneMoreDecides
    BY <1>a, <2>1, <2>2, LookupChanges DEF NoneMoreDecides
  <2>5. lookups[l].node \in Named
    BY <1>a DEF LookupsTyped, LookupType
  <2> QED BY <1>a, <2>3, <2>4, <2>5, QuietKeeps
             DEF ExitTyped, UsedIsSince, currentNode,
              groupVars, Named
<1>3. CASE AskExit(l)
  <2>3. UNCHANGED <<groupVars, chosen, hidden, reverted, shownVars, watch, asked>>
    BY <1>3 DEF AskExit
  <2>4. ExitTyped' /\ UsedIsSince'
    BY <1>a, <2>3
       DEF ExitTyped, UsedIsSince, currentNode, groupVars, shownVars, Named
  <2>5. CASE hidden \/ ~running
    <3>1. lookups' = [lookups EXCEPT ![l] = NoLookup]
      BY <1>3, <2>5 DEF AskExit
    <3>2. NoLookup \in LookupType /\ NoLookup.at = "idle" /\ ~NoLookup.last
      BY <1>a, RecordsTyped DEF NoLookup
    <3>3. LookupsTyped' /\ OneLast' /\ NoneMoreDecides
      BY <1>a, <3>1, <3>2, LookupChanges DEF NoneMoreDecides
    <3> QED BY <2>3, <2>4, <3>3, QuietKeeps DEF groupVars, shownVars
  <2>6. CASE ~hidden /\ running
    <3> DEFINE r == [lookups[l] EXCEPT !.at = "under way", !.node = currentNode]
    <3>1. lookups' = [lookups EXCEPT ![l] = r]
      BY <1>3, <2>6 DEF AskExit
    <3>2. r \in LookupType /\ r.node = currentNode /\ r.last = lookups[l].last
      BY <1>a, RecordsTyped DEF LookupType
    <3> HIDE DEF r
    <3>3. /\ LookupsTyped' /\ OneLast'
          /\ \A m \in Slots : Deciding(m)' =>
               \/ lookups'[m].node = currentNode
               \/ Deciding(m) /\ lookups'[m].node = lookups[m].node
      BY <1>a, <3>1, <3>2, LookupChanges DEF NoneMoreDecides
    <3>4. LastIsSince'
      BY <1>a, <2>3, <2>6, <3>3 DEF ExitInv, LastIsSince, UsedIsSince, groupVars
    <3>5. ShownExitIsValid'
      BY <2>3
         DEF ExitInv, ShownExitIsValid, OldExitStaysGone, HiddenMeansHidden,
             groupVars, shownVars
    <3> QED BY <2>4, <3>3, <3>4, <3>5 DEF ExitInv
  <2> QED BY <2>5, <2>6
<1>4. CASE refreshExit(l)
  <2>1. /\ UNCHANGED <<groupVars, chosen, hidden, reverted, exitNode, watch, asked>>
        /\ lookups' = [lookups EXCEPT ![l] = NoLookup]
        /\ \/ Deciding(l) /\ exit' = lookups[l].node /\ aged' = FALSE
           \/ UNCHANGED <<exit, aged>>
    BY <1>4 DEF refreshExit, Deciding
  <2>2. NoLookup \in LookupType /\ NoLookup.at = "idle" /\ ~NoLookup.last
    BY <1>a, RecordsTyped DEF NoLookup
  <2>3. LookupsTyped' /\ OneLast' /\ NoneMoreDecides
    BY <1>a, <2>1, <2>2, LookupChanges DEF NoneMoreDecides
  <2>4. lookups[l].node \in Named
    BY <1>a DEF LookupsTyped, LookupType
  <2>5. ExitTyped' /\ UsedIsSince'
    BY <1>a, <2>1, <2>4 DEF ExitTyped, UsedIsSince, currentNode, groupVars, Named
  <2>6. LastIsSince'
    BY <2>1, <2>3 DEF ExitInv, LastIsSince, NoneMoreDecides, groupVars
  <2>7. ShownExitIsValid'
    BY <2>1
       DEF ExitInv, LastIsSince, ShownExitIsValid, OldExitStaysGone,
           HiddenMeansHidden, groupVars
  <2> QED BY <2>3, <2>5, <2>6, <2>7 DEF ExitInv
<1> QED BY <1>1, <1>2, <1>3, <1>4 DEF LookupSteps

\* A step that leaves the lookups, the address and the two wishes alone.
LEMMA StillKeeps ==
  ASSUME ExitInv, ExitTyped', UsedIsSince', UNCHANGED <<lookups, exit, hidden, reverted>>,
         since \subseteq since', asked'.at = "hide" <=> asked.at = "hide"
  PROVE  ExitInv'
<1>1. LookupsTyped' /\ OneLast'
  BY DEF ExitInv, LookupsTyped, OneLast
<1>2. NoneMoreDecides
  BY DEF Deciding, NoneMoreDecides
<1> QED BY <1>1, <1>2, QuietKeeps

\* The core has started: a lookup begins by measuring.
LEMMA StartedKeeps ==
  ASSUME ExitInv, Started, asked' \in {asked, Quiet}, asked.at # "hide" \/ UNCHANGED asked
  PROVE  ExitInv'
<1>a. ExitTyped /\ LookupsTyped /\ OneLast /\ UsedIsSince
  BY DEF ExitInv
<1>b. Quiet \in AskedType /\ Quiet.at = "idle"
  BY <1>a, RecordsTyped DEF Quiet
<1>1. Measuring \in LookupType /\ Measuring.at = "measure"
  BY <1>a, RecordsTyped DEF Measuring, NoLookup
<1>2. LookupsTyped' /\ OneLast' /\ NoneMoreDecides
  BY <1>a, <1>1, SpawnMoves DEF Started
<1>3. ExitTyped' /\ UsedIsSince'
  BY <1>a, <1>b, ExitConstants
     DEF Started, ExitTyped, UsedIsSince, currentNode, Uses, shownVars, Named
<1> QED BY <1>b, <1>2, <1>3, QuietKeeps DEF Started, shownVars, Uses

\* No step of the loop breaks it.
LEMMA WatchKeeps ==
  ASSUME ExitInv, WatchSteps
  PROVE  ExitInv'
<1>a. ExitTyped /\ LookupsTyped /\ OneLast /\ UsedIsSince
  BY DEF ExitInv
<1>b. Quiet \in WatchType /\ Quiet.at = "idle"
  BY <1>a, RecordsTyped DEF Quiet
<1>1. CASE Start
  <2>1. Started /\ UNCHANGED asked
    BY <1>1 DEF Start
  <2> QED BY <2>1, <1>a, StartedKeeps DEF ExitTyped
<1>2. CASE Stop
  <2>1. CASE running /\ clearExit /\ UNCHANGED <<running, proxy, auto>>
    <3>1. ExitTyped'
      BY <1>2, <2>1, <1>a, <1>b, CurrentTyped
         DEF Stop, ExitTyped, clearExit, WatchType, Quiet, Named
    <3> QED BY <2>1, <3>1, ClearKeeps
  <2>2. CASE watch.at = "stopping" /\ running' = FALSE /\ watch' = Quiet
             /\ UNCHANGED <<proxy, auto, since, chosen, hidden, reverted, shownVars, lookups,
                            asked, rest>>
    <3>1. ExitTyped' /\ UsedIsSince'
      BY <2>2, <1>a, <1>b DEF ExitTyped, UsedIsSince, shownVars, Named
    <3> QED BY <2>2, <3>1, StillKeeps DEF shownVars
  <2> QED BY <1>2, <2>1, <2>2 DEF Stop
<1>3. CASE health
  <2>1. watch' \in WatchType
    BY <1>3, <1>a, CurrentTyped DEF health, WatchType, Quiet, Named
  <2>2. ExitTyped' /\ UsedIsSince'
    BY <1>3, <1>a, <2>1
       DEF health, ExitTyped, UsedIsSince, currentNode, groupVars, shownVars, Named
  <2> QED BY <1>3, <2>2, StillKeeps DEF health, groupVars, shownVars
<1>4. CASE LooksUp
  <2>1. UNCHANGED <<groupVars, chosen, hidden, reverted, exit, aged, asked>> /\ watch' = Quiet
    BY <1>4 DEF LooksUp
  <2>2. exitNode' \in {exitNode, watch.tag} /\ watch.tag \in Named
    BY <1>4, <1>a DEF LooksUp, ExitTyped, WatchType
  <2>3. ExitTyped' /\ UsedIsSince'
    BY <1>a, <1>b, <2>1, <2>2
       DEF ExitTyped, UsedIsSince, currentNode, groupVars, Named
  <2>4. CASE lookups' = lookups
    BY <2>1, <2>3, <2>4, StillKeeps DEF groupVars
  <2>5. CASE Spawn(Begun(TRUE))
    <3>1. Begun(TRUE) \in LookupType /\ Begun(TRUE).at = "begun"
      BY <1>a, RecordsTyped DEF Begun, NoLookup
    <3>2. LookupsTyped' /\ OneLast' /\ NoneMoreDecides
      BY <1>a, <2>5, <3>1, SpawnMoves
    <3> QED BY <2>1, <2>3, <3>2, QuietKeeps DEF groupVars
  <2> QED BY <1>4, <2>4, <2>5 DEF LooksUp
<1>5. CASE recoverRoute
  <2>1. CASE /\ watch' = Quiet
             /\ UNCHANGED <<groupVars, chosen, hidden, reverted, shownVars, lookups, asked>>
    <3>1. ExitTyped' /\ UsedIsSince'
      BY <1>a, <1>b, <2>1
         DEF ExitTyped, UsedIsSince, currentNode, groupVars, shownVars, Named
    <3> QED BY <2>1, <3>1, StillKeeps DEF groupVars, shownVars
  <2>2. ASSUME NEW best \in ExitNodes, proxy' = best, Uses(best), auto' \in ExitNodes,
               watch' = [Quiet EXCEPT !.at = "borrowed", !.tag = best],
               UNCHANGED <<running, chosen, hidden, reverted, shownVars, lookups, asked>>
        PROVE  ExitInv'
    <3>1. watch' \in WatchType
      BY <2>2, <1>b DEF WatchType, Quiet, Named
    <3>2. ExitTyped' /\ UsedIsSince'
      BY <1>a, <2>2, <3>1, ExitConstants
         DEF ExitTyped, UsedIsSince, currentNode, shownVars, Named, Uses
    <3> QED BY <2>2, <3>2, StillKeeps DEF shownVars, Uses
  <2>3. CASE /\ watch' = Quiet /\ clearExit
             /\ UNCHANGED <<running, proxy, auto, chosen, hidden, asked>>
    <3>1. ExitTyped'
      BY <2>3, <1>a, <1>b, CurrentTyped DEF ExitTyped, clearExit, Named
    <3> QED BY <2>3, <3>1, ClearKeeps
  <2> QED BY <1>5, <2>1, <2>2, <2>3 DEF recoverRoute, groupVars
<1> QED BY <1>1, <1>2, <1>3, <1>4, <1>5 DEF WatchSteps

\* No step of a request breaks it.
LEMMA RequestKeeps ==
  ASSUME ExitInv, RequestSteps
  PROVE  ExitInv'
<1>a. ExitTyped /\ LookupsTyped /\ OneLast /\ UsedIsSince
  BY DEF ExitInv
<1>b. Quiet \in AskedType /\ Quiet.at = "idle"
  BY <1>a, RecordsTyped DEF Quiet
<1>c. /\ asked \in AskedType
      /\ \A at \in {"rebuild", "restart", "take back", "select", "clear", "measure"} :
           /\ [asked EXCEPT !.at = at] \in AskedType /\ [asked EXCEPT !.at = at].at = at
           /\ [asked EXCEPT !.at = at].tag = asked.tag
           /\ [asked EXCEPT !.at = at].was = asked.was
  BY <1>a DEF ExitTyped, AskedType
<1>1. CASE Hide
  <2>1. /\ asked' = Quiet \/ \E at \in {"select", "rebuild"} : asked' = [asked EXCEPT !.at = at]
        /\ UNCHANGED <<running, proxy, auto, chosen, hidden, watch>>
        /\ asked.at = "hide"
    BY <1>1 DEF Hide
  <2>2. asked' \in AskedType /\ asked'.at \in {"idle", "select", "rebuild"}
        /\ (asked'.at = "select" => asked'.tag # Unknown)
        /\ (asked'.at = "rebuild" => asked'.was # Unknown)
    <3>1. asked.tag # Unknown /\ asked.was # Unknown
      BY <1>a, <2>1 DEF ExitTyped
    <3>2. ASSUME NEW at \in {"select", "rebuild"}, asked' = [asked EXCEPT !.at = at]
          PROVE  asked' \in AskedType /\ asked'.at = at /\ asked'.tag = asked.tag
                 /\ asked'.was = asked.was
      BY <1>c, <3>2
    <3> QED BY <1>b, <2>1, <3>1, <3>2
  <2>3. CASE hidden
    <3>1. clearExit
      BY <1>1, <2>3 DEF Hide
    <3>2. ExitTyped'
      BY <1>a, <2>1, <2>2, <3>1, CurrentTyped DEF ExitTyped, clearExit, Named
    <3> QED BY <2>1, <3>1, <3>2, ClearKeeps
  <2>4. CASE ~hidden
    <3>1. /\ UNCHANGED <<exit, aged, since, reverted>> /\ exitNode' \in {exitNode, currentNode}
          /\ \/ running /\ Spawn(Begun(FALSE))
             \/ UNCHANGED lookups
      BY <1>1, <2>4 DEF Hide
    <3>2. ExitTyped' /\ UsedIsSince'
      BY <1>a, <2>1, <2>2, <3>1, CurrentTyped
         DEF ExitTyped, UsedIsSince, currentNode, Named
    <3>3. Begun(FALSE) \in LookupType /\ Begun(FALSE).at = "begun"
      BY <1>a, RecordsTyped DEF Begun, NoLookup
    <3>4. LookupsTyped' /\ OneLast' /\ NoneMoreDecides
      <4>1. CASE Spawn(Begun(FALSE))
        BY <1>a, <3>3, <4>1, SpawnMoves
      <4>2. CASE UNCHANGED lookups
        BY <1>a, <4>2 DEF LookupsTyped, OneLast, Deciding, NoneMoreDecides
      <4> QED BY <3>1, <4>1, <4>2
    <3> QED BY <2>1, <2>4, <3>1, <3>2, <3>4, QuietKeeps
  <2> QED BY <2>3, <2>4
<1>2. CASE Select
  <2>1. /\ asked.at = "select"
        /\ UNCHANGED <<running, auto, chosen, hidden, reverted, shownVars, lookups, watch>>
        /\ \/ /\ running /\ proxy' = asked.tag
              /\ asked' = [asked EXCEPT !.at = "clear"]
              /\ Uses(IF asked.tag = AutoGroup THEN auto ELSE asked.tag)
           \/ ~running /\ asked' = Quiet /\ UNCHANGED <<proxy, since>>
    BY <1>2 DEF Select
  <2>2. asked' \in AskedType /\ asked'.at \in {"idle", "clear"}
    BY <1>b, <1>c, <2>1
  <2>3. asked.tag \in ExitNodes \cup {AutoGroup}
    BY <1>a, <1>c, <2>1 DEF ExitTyped, AskedType
  <2>4. ExitTyped' /\ UsedIsSince'
    BY <1>a, <2>1, <2>2, <2>3
       DEF ExitTyped, UsedIsSince, currentNode, Uses, shownVars, Named
  <2> QED BY <2>1, <2>2, <2>4, StillKeeps DEF shownVars, Uses
<1>3. CASE ForgetOld
  <2>1. /\ asked' = Quiet \/ asked' = [asked EXCEPT !.at = "measure"]
        /\ UNCHANGED <<running, proxy, auto, chosen, hidden, watch>> /\ clearExit
    BY <1>3 DEF ForgetOld
  <2>2. asked' \in AskedType /\ asked'.at \in {"idle", "measure"}
    BY <1>b, <1>c, <2>1
  <2>3. ExitTyped'
    BY <1>a, <2>1, <2>2, CurrentTyped DEF ExitTyped, clearExit, Named
  <2> QED BY <2>1, <2>3, ClearKeeps
<1>4. CASE MeasureChosen
  <2>1. Measuring \in LookupType /\ Measuring.at = "measure"
    BY <1>a, RecordsTyped DEF Measuring, NoLookup
  <2>2. LookupsTyped' /\ OneLast' /\ NoneMoreDecides
    BY <1>4, <1>a, <2>1, SpawnMoves DEF MeasureChosen
  <2>3. ExitTyped' /\ UsedIsSince'
    BY <1>4, <1>a, <1>b
       DEF MeasureChosen, ExitTyped, UsedIsSince, currentNode, groupVars, shownVars,
           Named
  <2> QED BY <1>4, <1>b, <2>2, <2>3, QuietKeeps
             DEF MeasureChosen, groupVars, shownVars
<1>5. CASE Rebuild
  <2>1. /\ UNCHANGED <<running, proxy, auto, chosen, hidden>> /\ asked.at = "rebuild"
        /\ \/ /\ asked' \in {Quiet, [asked EXCEPT !.at = "take back"]}
              /\ UNCHANGED <<watch, since, reverted, shownVars, lookups>>
           \/ /\ watch' = [Quiet EXCEPT !.at = "stopping"] /\ clearExit
              /\ asked' = [asked EXCEPT !.at = "restart"]
    BY <1>5 DEF Rebuild, Failed
  <2>2. /\ asked' \in AskedType /\ asked'.at \in {"idle", "take back", "restart"}
        /\ (asked'.at # "idle" => asked'.was # Unknown)
    <3>1. asked.was # Unknown
      BY <1>a, <2>1 DEF ExitTyped
    <3>2. ASSUME NEW at \in {"take back", "restart"}, asked' = [asked EXCEPT !.at = at]
          PROVE  asked' \in AskedType /\ asked'.at = at /\ asked'.was = asked.was
      BY <1>c, <3>2
    <3> QED BY <1>b, <2>1, <3>1, <3>2
  <2>3. CASE UNCHANGED <<watch, since, reverted, shownVars, lookups>>
    <3>1. ExitTyped' /\ UsedIsSince'
      BY <1>a, <2>1, <2>2, <2>3
         DEF ExitTyped, UsedIsSince, currentNode, shownVars, Named
    <3> QED BY <2>1, <2>2, <2>3, <3>1, StillKeeps DEF shownVars
  <2>4. CASE watch' = [Quiet EXCEPT !.at = "stopping"] /\ clearExit
    <3>1. watch' \in WatchType
      BY <1>a, <2>4, RecordsTyped DEF WatchType
    <3>2. ExitTyped'
      BY <1>a, <2>1, <2>2, <2>4, <3>1, CurrentTyped DEF ExitTyped, clearExit, Named
    <3> QED BY <2>1, <2>4, <3>2, ClearKeeps
  <2> QED BY <2>1, <2>3, <2>4
<1>6. CASE Restart
  <2>1. CASE Started /\ asked' = Quiet
    BY <1>6, <2>1, StartedKeeps DEF Restart
  <2>2. CASE clearExit /\ asked' = Failed /\ asked.at = "restart"
             /\ UNCHANGED <<running, proxy, auto, chosen, hidden, watch>>
    <3>1. /\ asked' \in AskedType /\ asked'.at \in {"idle", "take back"}
          /\ (asked'.at # "idle" => asked'.was # Unknown)
      BY <1>a, <1>b, <1>c, <2>2 DEF Failed, ExitTyped
    <3>2. ExitTyped'
      BY <1>a, <2>2, <3>1, CurrentTyped DEF ExitTyped, clearExit, Named
    <3> QED BY <2>2, <3>2, ClearKeeps
  <2> QED BY <1>6, <2>1, <2>2 DEF Restart
<1>7. CASE TakeBack
  <2>1. /\ asked.at = "take back" /\ asked' = Quiet
        /\ UNCHANGED <<groupVars, shownVars, lookups, watch>>
        /\ \/ hidden' = ~hidden /\ chosen' = asked.was /\ reverted' = ~hidden
           \/ UNCHANGED <<hidden, chosen, reverted>>
    BY <1>7 DEF TakeBack
  <2>2. asked.was \in ExitNodes \cup {AutoGroup}
    BY <1>a, <1>c, <2>1 DEF ExitTyped, AskedType
  <2>3. ExitTyped' /\ UsedIsSince'
    BY <1>a, <1>b, <2>1, <2>2
       DEF ExitTyped, UsedIsSince, currentNode, groupVars, shownVars, Named
  <2>4. LookupsTyped' /\ OneLast' /\ NoneMoreDecides
    BY <1>a, <2>1 DEF LookupsTyped, OneLast, Deciding, NoneMoreDecides
  <2>5. hidden' => (hidden /\ UNCHANGED reverted) \/ reverted'
    BY <2>1
  <2> QED BY <1>b, <2>1, <2>3, <2>4, <2>5, QuietKeeps DEF groupVars, shownVars
<1> QED BY <1>1, <1>2, <1>3, <1>4, <1>5, <1>6, <1>7 DEF RequestSteps

\* A request that arrives, a group that moves and time do not break it.
LEMMA RestKeeps ==
  ASSUME ExitInv, Ask \/ Moves \/ Ages \/ UNCHANGED exitVars
  PROVE  ExitInv'
<1>a. ExitTyped /\ LookupsTyped /\ OneLast /\ UsedIsSince
  BY DEF ExitInv
<1>b. Quiet \in AskedType /\ Quiet.at = "idle"
  BY <1>a, RecordsTyped DEF Quiet
<1>1. CASE Ask
  <2>1. /\ asked.at = "idle" /\ UNCHANGED <<groupVars, reverted, shownVars, lookups, watch>>
        /\ chosen' \in ExitNodes \cup {AutoGroup} /\ hidden' \in BOOLEAN
        /\ \/ asked'.at = "hide"
           \/ asked'.at \in {"idle", "select"} /\ hidden' = hidden
    <3>1. CASE \E tag \in ExitNodes \cup {AutoGroup} :
                 /\ chosen' = tag /\ UNCHANGED hidden
                 /\ asked' = IF running
                                THEN [Quiet EXCEPT !.at = "select", !.op = "node",
                                                   !.tag = tag]
                                ELSE Quiet
      BY <1>1, <1>a, <1>b, <3>1 DEF Ask, ExitTyped, AskedType
    <3>2. CASE \E tag \in ExitNodes \cup {AutoGroup},
                  op \in {"settings", "tighten", "relax"} :
                 /\ hidden' = ~hidden /\ chosen' = tag
                 /\ asked' = [at |-> "hide", op |-> op, tag |-> tag, was |-> chosen]
      <4>1. PICK tag \in ExitNodes \cup {AutoGroup},
                 op \in {"settings", "tighten", "relax"} :
              /\ hidden' = ~hidden /\ chosen' = tag
              /\ asked' = [at |-> "hide", op |-> op, tag |-> tag, was |-> chosen]
        BY <3>2
      <4> QED BY <1>1, <4>1 DEF Ask
    <3> QED BY <1>1, <3>1, <3>2 DEF Ask
  <2>2. /\ asked' \in AskedType
        /\ asked'.at \in {"hide", "select"} => asked'.tag # Unknown
        /\ asked'.at = "hide" => asked'.was # Unknown
    <3>1. AutoGroup # Unknown /\ Unknown \notin ExitNodes
      BY ExitConstants DEF AutoGroup, Unknown
    <3>2. chosen \in ExitNodes \cup {AutoGroup}
      BY <1>a DEF ExitTyped
    <3>3. CASE \E tag \in ExitNodes \cup {AutoGroup} :
                 asked' \in {[Quiet EXCEPT !.at = "select", !.op = "node", !.tag = tag],
                            Quiet}
      BY <1>b, <3>1, <3>3 DEF AskedType, Quiet
    <3>4. CASE \E tag \in ExitNodes \cup {AutoGroup},
                  op \in {"settings", "tighten", "relax"} :
                 asked' = [at |-> "hide", op |-> op, tag |-> tag, was |-> chosen]
      BY <3>1, <3>2, <3>4 DEF AskedType
    <3> QED BY <1>1, <3>3, <3>4 DEF Ask
  <2>3. ExitTyped' /\ UsedIsSince'
    BY <1>a, <2>1, <2>2
       DEF ExitTyped, UsedIsSince, currentNode, groupVars, shownVars, Named
  <2>4. LookupsTyped' /\ OneLast' /\ NoneMoreDecides
    BY <1>a, <2>1 DEF LookupsTyped, OneLast, Deciding, NoneMoreDecides
  <2> QED BY <2>1, <2>3, <2>4, QuietKeeps DEF groupVars, shownVars
<1>2. CASE Moves
  <2>1. ExitTyped' /\ UsedIsSince'
    BY <1>2, <1>a
       DEF Moves, ExitTyped, UsedIsSince, currentNode, Uses, shownVars, Named
  <2> QED BY <1>2, <2>1, StillKeeps DEF Moves, Uses, shownVars
<1>3. CASE Ages
  <2>1. ExitTyped' /\ UsedIsSince'
    BY <1>3, <1>a DEF Ages, ExitTyped, UsedIsSince, currentNode, groupVars, Named
  <2> QED BY <1>3, <2>1, StillKeeps DEF Ages, groupVars
<1>4. CASE UNCHANGED exitVars
  <2>1. ExitTyped' /\ UsedIsSince'
    BY <1>4, <1>a
       DEF exitVars, ExitTyped, UsedIsSince, currentNode, groupVars, shownVars, Named
  <2> QED BY <1>4, <2>1, StillKeeps DEF exitVars, groupVars, shownVars
<1> QED BY <1>1, <1>2, <1>3, <1>4

\* The invariant holds at first ...
LEMMA ExitInitially == ExitInit => ExitInv
<1> SUFFICES ASSUME ExitInit PROVE ExitInv
  OBVIOUS
<1>1. /\ auto \in ExitNodes /\ chosen \in ExitNodes \cup {AutoGroup} /\ proxy = chosen
      /\ ~running /\ running = FALSE /\ hidden \in BOOLEAN /\ reverted = FALSE
      /\ exit = Unknown /\ exitNode = Unknown
      /\ aged = TRUE /\ watch = Quiet /\ asked = Quiet /\ since = {}
  BY ExitConstants DEF ExitInit
<1>2. Quiet \in WatchType /\ Quiet \in AskedType /\ Quiet.at = "idle"
  BY DEF Quiet, WatchType, AskedType, Named
<1>3. ExitTyped /\ UsedIsSince
  BY <1>1, <1>2 DEF ExitTyped, UsedIsSince, Named
<1>4. /\ lookups \in [Slots -> LookupType]
      /\ \A l \in Slots : lookups[l].at = "idle" /\ ~lookups[l].last
  BY DEF ExitInit, NoLookup, LookupType, Named
<1>5. LookupsTyped /\ OneLast /\ LastIsSince
  BY <1>4 DEF LookupsTyped, OneLast, LastIsSince, Deciding
<1> QED BY <1>1, <1>3, <1>5
           DEF ExitInv, ShownExitIsValid, OldExitStaysGone, HiddenMeansHidden

\* ... and every step keeps it.
LEMMA ExitStepKeeps == ExitInv /\ [ExitNext]_exitVars => ExitInv'
BY LookupKeeps, WatchKeeps, RequestKeeps, RestKeeps DEF ExitNext

\* The invariant holds throughout.
LEMMA ExitInvariant == ExitSpec => []ExitInv
BY ExitInitially, ExitStepKeeps, PTL DEF ExitSpec

\* It is about states of the right types.
LEMMA ExitInvTyped == ExitInv => ExitTypeOK
BY DEF ExitInv, ExitTyped, LookupsTyped, LookupType, OneLast, WatchType, AskedType,
       ExitTypeOK

\* The address shown is one of a node used since the exit was last forgotten, whatever
\* lookups, switches, stops and failures come together, and a hidden one is not shown.
THEOREM ExitAlwaysValid == ExitSpec => []ShownExitIsValid
BY ExitInvariant, PTL DEF ExitInv

\* Type correctness of the component.
THEOREM ExitTypeCorrect == ExitSpec => []ExitTypeOK
BY ExitInvariant, ExitInvTyped, PTL

-----------------------------------------------------------------------------
(* The three together.                                                     *)

\* The components do not touch each other's state.
ServicesInv == WarmInv /\ StreamInv /\ HoldInv /\ ExitInv

\* The invariant holds throughout.
LEMMA ServicesInvariant == ServicesSpec => []ServicesInv
<1>1. ServicesInit => ServicesInv
  BY WarmInitially, StreamInitially, HoldInitially, ExitInitially
     DEF ServicesInit, ServicesInv
<1>2. ServicesInv /\ [ServicesNext]_servicesVars => ServicesInv'
  <2> SUFFICES ASSUME ServicesInv, [ServicesNext]_servicesVars PROVE ServicesInv'
    OBVIOUS
  <2>1. /\ [SessionNext]_sessionVars /\ [DirectNext]_directVars
        /\ [ExitNext]_exitVars
    BY DEF ServicesNext, servicesVars
  <2> QED BY <2>1, WarmStepsKeep, SessionStepKeeps, HoldStepKeeps, ExitStepKeeps
             DEF ServicesInv
<1> QED BY <1>1, <1>2, PTL DEF ServicesSpec

\* As MCServices runs them: the variables of every component keep their types, and the
\* safety properties of the three hold.
THEOREM ServicesTypeCorrect == ServicesSpec => []ServicesTypeOK
<1>1. ServicesInv => ServicesTypeOK
  BY ExitInvTyped DEF ServicesInv, StreamInv, HoldInv, ServicesTypeOK
<1> QED BY <1>1, ServicesInvariant, PTL
=============================================================================
