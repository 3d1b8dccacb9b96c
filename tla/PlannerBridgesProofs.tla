-------------------------- MODULE PlannerBridgesProofs --------------------------
(***************************************************************************)
(* Theorems of PlannerBridges, for any conversations, keys and tools, any  *)
(* faults and any number of calls: the bridges keep the promise of         *)
(* PlannerTool, whatever their tools answer, lose or leave undone.         *)
(***************************************************************************)
EXTENDS PlannerBridges, WellFoundedInduction, TLAPS

---------------------------------------------------------------------------
(* Sequences and sets of numbers.                                          *)

LEMMA TailTyping ==
  ASSUME NEW S, NEW s \in Seq(S), s # <<>>
  PROVE  /\ Head(s) \in S /\ Head(s) = s[1] /\ Tail(s) \in Seq(S)
         /\ Len(s) \in Nat \ {0} /\ Len(Tail(s)) = Len(s) - 1
         /\ \A i \in DOMAIN Tail(s) : i + 1 \in DOMAIN s /\ Tail(s)[i] = s[i + 1]
OBVIOUS

LEMMA AppendTyping ==
  ASSUME NEW S, NEW s \in Seq(S), NEW e \in S
  PROVE  /\ Append(s, e) \in Seq(S) /\ Len(Append(s, e)) = Len(s) + 1
         /\ DOMAIN Append(s, e) = 1..(Len(s) + 1) /\ DOMAIN s = 1..Len(s)
         /\ Append(s, e)[Len(s) + 1] = e
         /\ \A i \in DOMAIN s : Append(s, e)[i] = s[i]
OBVIOUS

LEMMA ConcatTyping ==
  ASSUME NEW S, NEW s \in Seq(S), NEW r \in Seq(S)
  PROVE  /\ s \o r \in Seq(S)
         /\ \A i \in DOMAIN (s \o r) : \/ i \in DOMAIN s /\ (s \o r)[i] = s[i]
                                    \/ /\ i - Len(s) \in DOMAIN r
                                       /\ (s \o r)[i] = r[i - Len(s)]
<1>1. s \o r \in Seq(S) /\ Len(s) \in Nat /\ Len(r) \in Nat
  OBVIOUS
<1>2. DOMAIN s = 1..Len(s) /\ DOMAIN r = 1..Len(r)
  OBVIOUS
<1>3. Len(s \o r) = Len(s) + Len(r)
  OBVIOUS
<1>4. DOMAIN (s \o r) = 1..Len(s \o r)
  BY <1>1
<1>5. \A i \in 1..(Len(s) + Len(r)) :
        (s \o r)[i] = IF i <= Len(s) THEN s[i] ELSE r[i - Len(s)]
  OBVIOUS
<1>. DEFINE c == s \o r
<1>. HIDE DEF c
<1>6. DOMAIN c = 1..(Len(s) + Len(r))
  BY <1>3, <1>4 DEF c
<1>7. \A i \in DOMAIN c : c[i] = IF i <= Len(s) THEN s[i] ELSE r[i - Len(s)]
  BY <1>5, <1>6 DEF c
<1>8. ASSUME NEW i \in DOMAIN c
      PROVE  \/ i \in DOMAIN s /\ c[i] = s[i]
             \/ i - Len(s) \in DOMAIN r /\ c[i] = r[i - Len(s)]
  <2>1. c[i] = IF i <= Len(s) THEN s[i] ELSE r[i - Len(s)]
    BY <1>7
  <2>2. i \in 1..(Len(s) + Len(r))
    BY <1>6
  <2>3. \/ i <= Len(s) /\ i \in 1..Len(s)
        \/ ~(i <= Len(s)) /\ i - Len(s) \in 1..Len(r)
    BY <1>1, <2>2
  <2>. QED
    BY <1>2, <2>1, <2>3
<1>. QED
  BY <1>1, <1>8 DEF c

\* A set of numbers with a bound has a greatest one.
LEMMA HighestIsFound ==
  ASSUME NEW T \in SUBSET Nat, T # {}, NEW b \in Nat, \A t \in T : t <= b
  PROVE  Highest(T) \in T /\ \A u \in T : u <= Highest(T)
<1>. DEFINE U == {u \in Nat : \A t \in T : t <= u}
<1>1. U \subseteq Nat /\ U # {}
  OBVIOUS
<1>2. PICK u \in U : \A y \in U : ~ (<<y, u>> \in OpToRel(<, Nat))
  <2>. HIDE DEF U
  <2>. QED
    BY <1>1, NatLessThanWellFounded, WFMin
<1>3. \A y \in U : ~ (y < u)
  <2>. SUFFICES ASSUME NEW y \in U, y < u PROVE FALSE
    OBVIOUS
  <2>1. <<y, u>> \in OpToRel(<, Nat)
    BY DEF OpToRel
  <2>. QED
    BY <2>1, <1>2
<1>4. u \in T
  <2>. SUFFICES ASSUME u \notin T PROVE FALSE
    OBVIOUS
  <2>1. PICK t \in T : TRUE
    OBVIOUS
  <2>2. u > 0 /\ u - 1 \in Nat
    BY <2>1
  <2>3. \A s \in T : s <= u - 1
    BY <2>2
  <2>. QED
    BY <2>2, <2>3, <1>3
<1>5. \A s \in T : s <= u
  OBVIOUS
<1>. QED
  BY <1>4, <1>5 DEF Highest

---------------------------------------------------------------------------
(* The requests.                                                           *)

LEMMA ScriptOf ==
  ASSUME NEW tool \in WakeTools, NEW op \in Operations
  PROVE  /\ tool = "codex" /\ op = "submit" => Script(tool, op) =
              <<"initialize", "thread/read", "thread/resume", "turn/start">>
         /\ tool = "codex" /\ op \in {"observe", "reconcile"} =>
              Script(tool, op) = <<"initialize", "thread/read">>
         /\ tool = "codex" /\ op = "discover" => Script(tool, op) = <<"initialize", "model/list">>
         /\ tool = "opencode" /\ op = "discover" => Script(tool, op) = <<"models">>
         /\ tool = "deepseek-harness" /\ op = "submit" =>
              Script(tool, op) = <<"initialize", "session/resume", "session/prompt">>
         /\ tool \in Cli /\ op = "submit" => Script(tool, op) = <<"run">>
         /\ tool # "codex" /\ op \in {"observe", "reconcile"} => Script(tool, op) = <<>>
         /\ tool \notin {"codex", "opencode"} /\ op = "discover" => Script(tool, op) = <<>>
         /\ op = "present" => Script(tool, op) = <<>>
BY Zenon DEF Script, Cli

LEMMA ScriptTyping ==
  ASSUME NEW tool \in WakeTools, NEW op \in Operations
  PROVE  Script(tool, op) \in Seq(Messages)
<1>1. \A a, b, c, d \in Messages :
        /\ <<>> \in Seq(Messages) /\ <<a>> \in Seq(Messages) /\ <<a, b>> \in Seq(Messages)
        /\ <<a, b, c>> \in Seq(Messages) /\ <<a, b, c, d>> \in Seq(Messages)
  OBVIOUS
<1>2. /\ "initialize" \in Messages /\ "thread/read" \in Messages /\ "run" \in Messages
      /\ "thread/resume" \in Messages /\ "turn/start" \in Messages
      /\ "model/list" \in Messages /\ "models" \in Messages
      /\ "session/resume" \in Messages /\ "session/prompt" \in Messages
  BY DEF Messages
<1>3. /\ <<"initialize", "thread/read", "thread/resume", "turn/start">> \in Seq(Messages)
      /\ <<"initialize", "thread/read">> \in Seq(Messages)
      /\ <<"initialize", "model/list">> \in Seq(Messages)
      /\ <<"models">> \in Seq(Messages) /\ <<"run">> \in Seq(Messages)
      /\ <<"initialize", "session/resume", "session/prompt">> \in Seq(Messages)
  BY <1>1, <1>2
<1>4. CASE op = "submit"
  BY Zenon, <1>3, <1>4, ScriptOf DEF WakeTools, Cli
<1>5. <<>> \in Seq(Messages)
  OBVIOUS
<1>6. CASE op \in {"observe", "reconcile"}
  BY <1>3, <1>5, <1>6, ScriptOf
<1>7. CASE op = "discover"
  BY <1>3, <1>5, <1>7, ScriptOf
<1>8. CASE op = "present"
  BY <1>5, <1>8, ScriptOf
<1>. QED
  BY <1>4, <1>6, <1>7, <1>8 DEF Operations

\* The last request of an operation is the one that does it.
LEMMA FinalOf ==
  ASSUME NEW tool \in WakeTools, NEW op \in Operations, Script(tool, op) # <<>>
  PROVE  /\ op = "submit" => /\ Final(tool, op) \in Starting
                             /\ tool # "codex" => Final(tool, op) \in Blocking
         /\ op \in {"observe", "reconcile"} => tool = "codex" /\ Final(tool, op) = "thread/read"
         /\ op = "discover" => tool \in {"codex", "opencode"} /\ Final(tool, op) \in Listing
         /\ op # "present"
<1>1. CASE op = "submit" /\ tool = "codex"
  BY <1>1, ScriptOf DEF Final, Starting
<1>2. CASE op = "submit" /\ tool # "codex"
  BY <1>2, ScriptOf DEF Final, Starting, Blocking, WakeTools, Cli
<1>3. CASE op \in {"observe", "reconcile"}
  BY <1>3, ScriptOf DEF Final
<1>4. CASE op = "discover" /\ tool = "codex"
  BY <1>4, ScriptOf DEF Final, Listing
<1>5. CASE op = "discover" /\ tool # "codex"
  BY <1>5, ScriptOf DEF Final, Listing
<1>6. CASE op = "present"
  BY <1>6, ScriptOf
<1>. QED
  BY <1>1, <1>2, <1>3, <1>4, <1>5, <1>6 DEF Operations

\* Only a submission starts turns, and only Codex starts them without waiting.
LEMMA RequestsOf ==
  ASSUME NEW tool \in WakeTools, NEW op \in Operations, NEW r \in Requests(tool, op)
  PROVE  /\ r \in Messages
         /\ r \in Starting => op = "submit" /\ (tool # "codex" => r \in Blocking)
<1>1. PICK i \in DOMAIN Script(tool, op) : r = Script(tool, op)[i]
  BY DEF Requests
<1>2. r \in Messages
  BY <1>1, ScriptTyping
<1>3. CASE op = "submit" /\ tool = "codex"
  BY <1>2, <1>3
<1>4. CASE op = "submit" /\ tool = "deepseek-harness"
  BY <1>1, <1>2, <1>4, ScriptOf DEF Starting, Blocking
<1>5. CASE op = "submit" /\ tool \in Cli
  BY <1>1, <1>2, <1>5, ScriptOf DEF Starting, Blocking
<1>6. CASE op \in {"observe", "reconcile"}
  BY <1>1, <1>2, <1>6, ScriptOf DEF Starting
<1>7. CASE op \in {"present", "discover"}
  BY <1>1, <1>2, <1>7, ScriptOf DEF Starting
<1>. QED
  BY <1>3, <1>4, <1>5, <1>6, <1>7 DEF Operations, WakeTools

---------------------------------------------------------------------------
(* The turns.                                                              *)

\* Turns stay what they are about; what shows goes on showing, what is over is over.
Grows ==
  /\ turns' \in Seq(Turns)
  /\ DOMAIN turns \subseteq DOMAIN turns' /\ Len(turns) <= Len(turns')
  /\ \A t \in DOMAIN turns :
       /\ turns'[t].conv = turns[t].conv /\ turns'[t].key = turns[t].key
       /\ turns[t].state # "hidden" => turns'[t].state # "hidden"
       /\ turns[t].state \in {"completed", "failed"} => turns'[t].state = turns[t].state

LEMMA TurnTyping ==
  ASSUME TypeOK
  PROVE  /\ Len(turns) \in Nat /\ DOMAIN turns = 1..Len(turns)
         /\ \A t \in DOMAIN turns : turns[t] \in Turns /\ t \in Nat /\ t # 0 /\ t <= Len(turns)
         /\ Visible \subseteq Nat /\ Visible \subseteq DOMAIN turns
<1>1. turns \in Seq(Turns)
  BY DEF TypeOK
<1>. QED
  BY <1>1 DEF Visible

LEMMA SameTurns ==
  ASSUME TypeOK, turns' = turns
  PROVE  Grows
<1>1. turns \in Seq(Turns)
  BY DEF TypeOK
<1>. QED
  BY <1>1 DEF Grows

LEMMA MoreTurns ==
  ASSUME TypeOK, NEW t \in Turns, turns' = Append(turns, t)
  PROVE  /\ Grows /\ Len(turns') = Len(turns) + 1 /\ Len(turns) + 1 \in DOMAIN turns'
         /\ turns'[Len(turns) + 1] = t
<1>1. turns \in Seq(Turns)
  BY DEF TypeOK
<1>2. /\ turns' \in Seq(Turns) /\ Len(turns') = Len(turns) + 1 /\ Len(turns) \in Nat
      /\ DOMAIN turns' = 1..(Len(turns) + 1) /\ DOMAIN turns = 1..Len(turns)
      /\ turns'[Len(turns) + 1] = t
      /\ \A i \in DOMAIN turns : turns'[i] = turns[i]
  BY <1>1, AppendTyping
<1>. QED
  BY <1>2 DEF Grows

LEMMA TurnsProceed ==
  ASSUME TypeOK, NEW t \in DOMAIN turns, turns[t].state \in {"hidden", "running"},
         NEW state \in {"running", "completed", "failed"},
         turns' = [turns EXCEPT ![t].state = state]
  PROVE  Grows
<1>1. turns \in Seq(Turns) /\ turns[t] \in Turns
  BY TurnTyping DEF TypeOK
<1>2. turns' = [turns EXCEPT ![t] = [turns[t] EXCEPT !.state = state]]
  BY <1>1
<1>3. [turns[t] EXCEPT !.state = state] \in Turns
  BY <1>1 DEF Turns, States
<1>4. turns' \in Seq(Turns) /\ DOMAIN turns' = DOMAIN turns /\ Len(turns') = Len(turns)
  BY <1>1, <1>2, <1>3
<1>5. /\ turns'[t] = [turns[t] EXCEPT !.state = state]
      /\ \A u \in DOMAIN turns \ {t} : turns'[u] = turns[u]
  BY <1>1, <1>2
<1>6. /\ turns'[t].conv = turns[t].conv /\ turns'[t].key = turns[t].key
      /\ turns'[t].state = state
  BY <1>1, <1>5 DEF Turns
<1>7. Len(turns) \in Nat
  BY <1>1
<1>. QED
  BY <1>4, <1>5, <1>6, <1>7 DEF Grows

---------------------------------------------------------------------------
(* What stays true while the turns grow.                                   *)

\* The turn of a call, unless it is only starting now.
KeepsTurn == call' = call /\ (wire'.turn = wire.turn \/ wire.turn = 0)

LEMMA FoundedStays ==
  ASSUME TypeOK, CallIsFounded, Grows, receipts' = receipts, call' = call
  PROVE  CallIsFounded'
BY DEF CallIsFounded, Grows

LEMMA ShowsStays ==
  ASSUME TypeOK, CallIsFounded, Grows, call' = call, call # None, NEW view, Shows(view)
  PROVE  Shows(view)'
<1>1. /\ view \in Seq(States) /\ Len(view) <= Len(turns) /\ Len(turns) <= Len(turns')
      /\ Len(view) \in Nat /\ Len(turns) \in Nat /\ Len(turns') \in Nat
      /\ DOMAIN view = 1..Len(view) /\ DOMAIN turns = 1..Len(turns)
  BY TurnTyping DEF Shows, Grows
<1>2. \A t \in DOMAIN view : t \in DOMAIN turns
  BY <1>1
<1>3. \A t \in DOMAIN view : view[t] \in {"completed", "failed"} => turns'[t].state = view[t]
  BY <1>2 DEF Shows, Grows
<1>4. Len(view) <= Len(turns')
  BY <1>1
<1>. QED
  BY <1>1, <1>3, <1>4 DEF Shows

LEMMA TellsStays ==
  ASSUME TypeOK, CallIsFounded, TurnIsOurs, Grows, KeepsTurn, call # None,
         NEW line, Tells(line)
  PROVE  Tells(line)'
<1>1. line.about = "thread/read" => Shows(line.view)'
  BY ShowsStays DEF Tells, KeepsTurn
<1>2. ASSUME line.about \in Starting, line.ok
      PROVE  /\ wire'.turn # 0 /\ line.turn = wire'.turn
             /\ line.conv = turns'[wire'.turn].conv
             /\ line.about \in Blocking => turns'[wire'.turn].state = "completed"
  <2>1. /\ wire.turn # 0 /\ line.turn = wire.turn /\ line.conv = turns[wire.turn].conv
        /\ line.about \in Blocking => turns[wire.turn].state = "completed"
    BY <1>2 DEF Tells
  <2>2. wire'.turn = wire.turn /\ wire.turn \in DOMAIN turns
    BY <2>1 DEF KeepsTurn, TurnIsOurs
  <2>. QED
    BY <2>1, <2>2 DEF Grows
<1>. QED
  BY <1>1, <1>2 DEF Tells

LEMMA OursStays ==
  ASSUME TurnIsOurs, Grows, call' = call, wire'.turn = wire.turn
  PROVE  TurnIsOurs'
BY DEF TurnIsOurs, Grows

LEMMA ResultStays ==
  ASSUME TypeOK, CallIsFounded, TurnIsOurs, Grows, KeepsTurn, call # None,
         NEW a, ResultIsTrue(a)
  PROVE  ResultIsTrue(a)'
<1>1. CASE a = Error
  BY <1>1 DEF ResultIsTrue, Error, Answer
<1>2. CASE /\ call.op = "submit" /\ a.status = "receipt"
           /\ wire.turn # 0 /\ a.turn = wire.turn /\ turns[a.turn].conv = call.conv
           /\ call.tool # "codex" => turns[a.turn].state = "completed"
  <2>1. wire'.turn = wire.turn /\ a.turn \in DOMAIN turns
    BY <1>2 DEF KeepsTurn, TurnIsOurs
  <2>. QED
    BY <1>2, <2>1 DEF ResultIsTrue, Grows, KeepsTurn
<1>3. CASE /\ call.op = "reconcile" /\ call.tool = "codex" /\ a.status = "found"
           /\ a.turn \in DOMAIN turns
           /\ turns[a.turn].conv = call.conv /\ turns[a.turn].key = call.key
           /\ \A t \in call.seen :
                turns[t].conv = call.conv /\ turns[t].key = call.key => t <= a.turn
  BY <1>3 DEF ResultIsTrue, Grows, KeepsTurn, CallIsFounded
<1>4. CASE /\ call.op = "reconcile" /\ a = Answer("nothing", 0)
           /\ call.tool = "codex" =>
                \A t \in call.seen : ~(turns[t].conv = call.conv /\ turns[t].key = call.key)
  BY <1>4 DEF ResultIsTrue, Grows, KeepsTurn, CallIsFounded, Answer
<1>5. CASE /\ call.op = "observe" /\ a.turn = call.turn
           /\ \/ a.status = "submitted" /\ call.turn \notin call.seen
              \/ a.status = "active"
              \/ a.status \in {"completed", "failed"} /\ turns[call.turn].state = a.status
  <2>1. call.turn \in DOMAIN turns
    BY <1>5 DEF CallIsFounded
  <2>. QED
    BY <1>5, <2>1 DEF ResultIsTrue, Grows, KeepsTurn
<1>6. CASE /\ call.op = "present"
           /\ a = Answer(IF call.tool = "codex" THEN "experimental" ELSE "presented", 0)
  BY <1>6 DEF ResultIsTrue, KeepsTurn, Answer
<1>7. CASE call.op = "discover" /\ a.status = "models"
  BY <1>7 DEF ResultIsTrue, KeepsTurn
<1>. QED
  BY <1>1, <1>2, <1>3, <1>4, <1>5, <1>6, <1>7 DEF ResultIsTrue

---------------------------------------------------------------------------
(* The invariant in parts.                                                 *)

LEMMA LinesStay ==
  ASSUME TypeOK, CallIsFounded, TurnIsOurs, LinesAreTrue, Grows, KeepsTurn, call # None,
         wire'.pipe = wire.pipe, wire'.buffer = wire.buffer
  PROVE  LinesAreTrue'
<1>1. \A i \in DOMAIN wire.pipe : Tells(wire.pipe[i])'
  BY TellsStays DEF LinesAreTrue
<1>2. \A i \in DOMAIN wire.buffer : Tells(wire.buffer[i])'
  BY TellsStays DEF LinesAreTrue
<1>. QED
  BY <1>1, <1>2 DEF LinesAreTrue, Tells, Shows

LEMMA LineWritten ==
  ASSUME TypeOK, CallIsFounded, TurnIsOurs, LinesAreTrue, Grows, KeepsTurn, call # None,
         NEW line \in Lines, Tells(line)',
         wire'.pipe = Append(wire.pipe, line), wire'.buffer = wire.buffer
  PROVE  LinesAreTrue'
<1>1. \A i \in DOMAIN wire.pipe : Tells(wire.pipe[i])'
  BY TellsStays DEF LinesAreTrue
<1>2. \A i \in DOMAIN wire.buffer : Tells(wire.buffer[i])'
  BY TellsStays DEF LinesAreTrue
<1>3. wire.pipe \in Seq(Lines)
  BY DEF TypeOK, Wires
<1>4. /\ DOMAIN wire'.pipe = 1..(Len(wire.pipe) + 1) /\ DOMAIN wire.pipe = 1..Len(wire.pipe)
      /\ wire'.pipe[Len(wire.pipe) + 1] = line /\ Len(wire.pipe) \in Nat
      /\ \A i \in DOMAIN wire.pipe : wire'.pipe[i] = wire.pipe[i]
  BY <1>3, AppendTyping
<1>5. \A i \in DOMAIN wire'.pipe : i \in DOMAIN wire.pipe \/ i = Len(wire.pipe) + 1
  BY <1>4
<1>6. \A i \in DOMAIN wire'.pipe : Tells(wire.pipe[i])' \/ wire'.pipe[i] = line
  BY <1>4, <1>5, <1>1 DEF Tells, Shows
<1>. QED
  BY <1>2, <1>4, <1>5, <1>6 DEF LinesAreTrue, Tells, Shows

\* Steps of the turns alone.
LEMMA TurnsMove ==
  ASSUME BridgesInvariant, Grows, UNCHANGED <<call, wire, receipts>>, left' \subseteq left
  PROVE  BridgesInvariant'
<1>. USE DEF BridgesInvariant
<1>1. TypeOK'
  BY DEF TypeOK, Grows
<1>2. CallIsFounded'
  BY FoundedStays
<1>3. ScriptIsFollowed'
  BY DEF ScriptIsFollowed
<1>4. TurnIsOurs'
  BY OursStays
<1>5. LinesAreTrue'
  BY LinesStay DEF LinesAreTrue, KeepsTurn
<1>6. OutcomeIsTrue'
  <2>1. ASSUME call' # None, wire'.at \in {"close", "done"}
        PROVE  ResultIsTrue(wire.result)'
    BY <2>1, ResultStays DEF OutcomeIsTrue, KeepsTurn
  <2>. QED
    BY <2>1 DEF OutcomeIsTrue
<1>. QED
  BY <1>1, <1>2, <1>3, <1>4, <1>5, <1>6

\* Steps that leave the turns and the lines alone.
LEMMA QuietStep ==
  ASSUME BridgesInvariant, call # None, UNCHANGED <<turns, call, receipts, left>>,
         wire' \in Wires, wire'.pipe = wire.pipe, wire'.buffer = wire.buffer,
         wire'.turn = wire.turn, ScriptIsFollowed', OutcomeIsTrue'
  PROVE  BridgesInvariant'
<1>. USE DEF BridgesInvariant
<1>1. Grows
  BY SameTurns
<1>2. TypeOK'
  BY DEF TypeOK
<1>3. CallIsFounded' /\ TurnIsOurs'
  BY <1>1, FoundedStays, OursStays
<1>4. LinesAreTrue'
  BY <1>1, LinesStay DEF KeepsTurn
<1>. QED
  BY <1>2, <1>3, <1>4

\* A result stays true while only the wire changes.
LEMMA ResultKept ==
  ASSUME BridgesInvariant, call # None, UNCHANGED <<turns, call>>,
         wire'.turn = wire.turn, NEW a, ResultIsTrue(a)
  PROVE  ResultIsTrue(a)'
BY SameTurns, ResultStays DEF BridgesInvariant, KeepsTurn

LEMMA ErrorIsTrue ==
  /\ ResultIsTrue(Error) /\ ResultIsTrue(Error)' /\ Error \in Results
BY DEF ResultIsTrue, Error, Answer, Results

---------------------------------------------------------------------------
(* The steps of a call.                                                    *)

LEMMA RaiseStep ==
  ASSUME BridgesInvariant, call # None, NEW place \in {"close", "done"}, Raise(place),
         UNCHANGED <<turns, call, receipts, left>>
  PROVE  BridgesInvariant' /\ wire'.turn = wire.turn
<1>1. wire \in Wires
  BY DEF BridgesInvariant, TypeOK
<1>2. /\ wire' \in Wires /\ wire'.at = place /\ wire'.result = Error
      /\ wire'.todo = wire.todo /\ wire'.asked = wire.asked /\ wire'.turn = wire.turn
      /\ wire'.pipe = wire.pipe /\ wire'.buffer = wire.buffer
  BY <1>1, ErrorIsTrue DEF Raise, Wires
<1>3. ScriptIsFollowed'
  BY <1>2 DEF BridgesInvariant, ScriptIsFollowed
<1>4. OutcomeIsTrue'
  BY <1>2, ErrorIsTrue DEF OutcomeIsTrue, Error, Answer, ResultIsTrue
<1>. QED
  BY <1>2, <1>3, <1>4, QuietStep

LEMMA SpawnStep ==
  ASSUME BridgesInvariant, Spawn
  PROVE  BridgesInvariant' /\ wire'.turn = wire.turn
<1>1. wire \in Wires /\ call # None /\ wire.at = "spawn"
  BY DEF BridgesInvariant, TypeOK, Spawn, At
<1>2. /\ wire' \in Wires /\ wire'.at = "send" /\ wire'.todo = wire.todo
      /\ wire'.asked = wire.asked /\ wire'.turn = wire.turn
      /\ wire'.pipe = wire.pipe /\ wire'.buffer = wire.buffer
  BY <1>1 DEF Spawn, Wires
<1>3. ScriptIsFollowed'
  BY <1>1, <1>2 DEF BridgesInvariant, ScriptIsFollowed, Spawn
<1>4. OutcomeIsTrue'
  BY <1>2 DEF OutcomeIsTrue
<1>. QED
  BY <1>1, <1>2, <1>3, <1>4, QuietStep DEF Spawn

LEMMA PresentStep ==
  ASSUME BridgesInvariant, Present
  PROVE  BridgesInvariant' /\ wire'.turn = wire.turn
<1>1. wire \in Wires /\ call # None /\ wire.at = "present"
  BY DEF BridgesInvariant, TypeOK, Present, At
<1>2. /\ wire' \in Wires /\ wire'.at = "done" /\ wire'.todo = wire.todo
      /\ wire'.asked = wire.asked /\ wire'.turn = wire.turn /\ wire'.up = wire.up
      /\ wire'.pipe = wire.pipe /\ wire'.buffer = wire.buffer
      /\ wire'.result = Answer("presented", 0)
  BY <1>1 DEF Present, Wires, Answer, Results
<1>3. call.op = "present" /\ call.tool # "codex" /\ ~wire.up
  BY <1>1 DEF BridgesInvariant, ScriptIsFollowed
<1>4. ScriptIsFollowed'
  BY <1>2 DEF BridgesInvariant, ScriptIsFollowed, Present
<1>5. OutcomeIsTrue'
  BY <1>2, <1>3 DEF OutcomeIsTrue, ResultIsTrue, Present
<1>. QED
  BY <1>1, <1>2, <1>4, <1>5, QuietStep DEF Present

LEMMA SendStep ==
  ASSUME BridgesInvariant, Send
  PROVE  BridgesInvariant' /\ wire'.turn = wire.turn
<1>1. wire \in Wires /\ call # None /\ wire.at = "send" /\ call \in Calls
  BY DEF BridgesInvariant, TypeOK, Send, At
<1>2. CASE ~wire.up
  BY <1>1, <1>2, RaiseStep DEF Send, Unwinding
<1>3. CASE wire.up
  <2>1. /\ wire.todo \in Seq(Requests(call.tool, call.op)) /\ wire.todo # <<>>
        /\ wire.todo[Len(wire.todo)] = Final(call.tool, call.op)
    BY <1>1 DEF BridgesInvariant, ScriptIsFollowed
  <2>2. Head(wire.todo) \in Requests(call.tool, call.op)
    BY <2>1, TailTyping
  <2>3. Head(wire.todo) \in Messages
    BY <1>1, <2>2, RequestsOf DEF Calls, Tools
  <2>4. /\ wire' \in Wires /\ wire'.at = "await" /\ wire'.todo = wire.todo
        /\ wire'.asked = Head(wire.todo) /\ wire'.turn = wire.turn
        /\ wire'.pipe = wire.pipe /\ wire'.buffer = wire.buffer
    BY <1>1, <1>3, <2>3 DEF Send, Wires
  <2>5. ScriptIsFollowed'
    BY <1>1, <2>1, <2>2, <2>4 DEF BridgesInvariant, ScriptIsFollowed, Send
  <2>6. OutcomeIsTrue'
    BY <2>4 DEF OutcomeIsTrue
  <2>. QED
    BY <1>1, <2>4, <2>5, <2>6, QuietStep DEF Send
<1>. QED
  BY <1>2, <1>3

LEMMA CloseStep ==
  ASSUME BridgesInvariant, Close
  PROVE  BridgesInvariant' /\ wire'.turn = wire.turn
<1>1. wire \in Wires /\ call # None /\ wire.at = "close"
  BY DEF BridgesInvariant, TypeOK, Close, At
<1>2. /\ wire' \in Wires /\ wire'.at = "done" /\ wire'.todo = wire.todo
      /\ wire'.asked = None /\ wire'.turn = wire.turn /\ wire'.up = FALSE
      /\ wire'.pipe = wire.pipe /\ wire'.buffer = wire.buffer /\ wire'.result = wire.result
  BY <1>1 DEF Close, Wires
<1>3. ScriptIsFollowed'
  BY <1>2 DEF BridgesInvariant, ScriptIsFollowed, Close
<1>4. ResultIsTrue(wire.result)'
  BY <1>1, <1>2, ResultKept DEF BridgesInvariant, OutcomeIsTrue, Close
<1>5. OutcomeIsTrue'
  BY <1>2, <1>4 DEF OutcomeIsTrue
<1>. QED
  BY <1>1, <1>2, <1>3, <1>5, QuietStep DEF Close

LEMMA ExitStep ==
  ASSUME BridgesInvariant, Exit
  PROVE  BridgesInvariant' /\ wire'.turn = wire.turn
<1>1. wire \in Wires /\ call # None /\ wire.up
  BY DEF BridgesInvariant, TypeOK, Exit
<1>2. /\ wire' \in Wires /\ wire'.at = wire.at /\ wire'.todo = wire.todo
      /\ wire'.asked = None /\ wire'.turn = wire.turn /\ wire'.up = FALSE
      /\ wire'.pipe = wire.pipe /\ wire'.buffer = wire.buffer /\ wire'.result = wire.result
  BY <1>1 DEF Exit, Wires
<1>3. ScriptIsFollowed'
  BY <1>2 DEF BridgesInvariant, ScriptIsFollowed, Exit
<1>4. wire.at \in {"close", "done"} => ResultIsTrue(wire.result)'
  BY <1>1, <1>2, ResultKept DEF BridgesInvariant, OutcomeIsTrue, Exit
<1>5. OutcomeIsTrue'
  BY <1>2, <1>4 DEF OutcomeIsTrue
<1>. QED
  BY <1>1, <1>2, <1>3, <1>5, QuietStep DEF Exit

---------------------------------------------------------------------------
(* Reading an answer.                                                      *)

LEMMA OutcomeOf ==
  ASSUME NEW line
  PROVE  /\ call.op = "submit" => Outcome(line) = Receipt(line)
         /\ call.op = "observe" =>
              Outcome(line) = Answer(Observed(line.view[call.turn]), call.turn)
         /\ call.op = "reconcile" =>
              Outcome(line) = IF Found(line.view) = {} THEN Answer("nothing", 0)
                              ELSE Answer("found", Highest(Found(line.view)))
         /\ call.op = "discover" => Outcome(line) = Answer("models", line.turn)
BY Zenon DEF Outcome

LEMMA ObservedOf ==
  /\ Observed("hidden") = "submitted" /\ Observed("running") = "active"
  /\ Observed("completed") = "completed" /\ Observed("failed") = "failed"
BY Zenon DEF Observed

\* The receipt is for the turn the tool started, in the conversation it was asked for.
LEMMA ReceiptIsRight ==
  ASSUME BridgesInvariant, call # None, call.op = "submit", NEW line \in Lines, Tells(line),
         line.ok, line.about \in Starting, call.tool # "codex" => line.about \in Blocking
  PROVE  Receipt(line) \in Results /\ ResultIsTrue(Receipt(line))
<1>1. /\ wire.turn # 0 /\ line.turn = wire.turn /\ line.conv = turns[wire.turn].conv
      /\ line.about \in Blocking => turns[wire.turn].state = "completed"
  BY DEF Tells
<1>2. turns[wire.turn].conv = call.conv \/ call.tool \in Cli
  BY <1>1 DEF BridgesInvariant, TurnIsOurs
<1>3. line.turn \in Nat
  BY DEF Lines
<1>4. CASE call.tool \in Cli /\ line.conv # call.conv
  BY <1>4, ErrorIsTrue DEF Receipt
<1>5. CASE ~(call.tool \in Cli /\ line.conv # call.conv)
  <2>1. Receipt(line) = Answer("receipt", line.turn)
    BY <1>5 DEF Receipt
  <2>2. turns[line.turn].conv = call.conv
    BY <1>1, <1>2, <1>5
  <2>. QED
    BY <1>1, <1>3, <2>1, <2>2 DEF ResultIsTrue, Answer, Results
<1>. QED
  BY <1>4, <1>5

\* What is observed was so when the tool looked, and what is over stays over.
LEMMA ObservationIsRight ==
  ASSUME BridgesInvariant, call # None, call.op = "observe", NEW line \in Lines,
         Shows(line.view)
  PROVE  /\ Answer(Observed(line.view[call.turn]), call.turn) \in Results
         /\ ResultIsTrue(Answer(Observed(line.view[call.turn]), call.turn))
<1>. DEFINE seen == line.view[call.turn]
<1>1. call.turn \in DOMAIN line.view /\ line.view \in Seq(States)
  BY DEF Shows
<1>2. seen \in States
  BY <1>1
<1>3. call.turn \in Nat
  BY DEF BridgesInvariant, TypeOK, Calls
<1>4. /\ seen = "hidden" => call.turn \notin call.seen
      /\ seen \in {"completed", "failed"} => turns[call.turn].state = seen
  BY <1>1 DEF Shows
<1>. HIDE DEF seen
<1>5. ASSUME seen = "hidden"
      PROVE  /\ Answer(Observed(seen), call.turn) \in Results
             /\ ResultIsTrue(Answer(Observed(seen), call.turn))
  BY <1>3, <1>4, <1>5, ObservedOf DEF ResultIsTrue, Answer, Results
<1>6. ASSUME seen = "running"
      PROVE  /\ Answer(Observed(seen), call.turn) \in Results
             /\ ResultIsTrue(Answer(Observed(seen), call.turn))
  BY <1>3, <1>6, ObservedOf DEF ResultIsTrue, Answer, Results
<1>7. ASSUME seen = "completed"
      PROVE  /\ Answer(Observed(seen), call.turn) \in Results
             /\ ResultIsTrue(Answer(Observed(seen), call.turn))
  BY <1>3, <1>4, <1>7, ObservedOf DEF ResultIsTrue, Answer, Results
<1>8. ASSUME seen = "failed"
      PROVE  /\ Answer(Observed(seen), call.turn) \in Results
             /\ ResultIsTrue(Answer(Observed(seen), call.turn))
  BY <1>3, <1>4, <1>8, ObservedOf DEF ResultIsTrue, Answer, Results
<1>9. /\ Answer(Observed(seen), call.turn) \in Results
      /\ ResultIsTrue(Answer(Observed(seen), call.turn))
  BY <1>2, <1>5, <1>6, <1>7, <1>8 DEF States
<1>. QED
  BY <1>9 DEF seen

\* The youngest turn of the key that showed is found, or none showed.
LEMMA SearchIsRight ==
  ASSUME BridgesInvariant, call # None, call.op = "reconcile", call.tool = "codex",
         NEW view, Shows(view)
  PROVE  /\ Found(view) = {} => ResultIsTrue(Answer("nothing", 0))
         /\ Found(view) # {} =>
              /\ Highest(Found(view)) \in Nat
              /\ ResultIsTrue(Answer("found", Highest(Found(view))))
<1>1. /\ view \in Seq(States) /\ Len(view) <= Len(turns) /\ Len(turns) \in Nat
      /\ Len(view) \in Nat /\ DOMAIN view = 1..Len(view) /\ DOMAIN turns = 1..Len(turns)
  BY TurnTyping DEF Shows, BridgesInvariant
<1>2. \A t \in call.seen :
        turns[t].conv = call.conv /\ turns[t].key = call.key => t \in Found(view)
  BY DEF Shows, Found
<1>3. CASE Found(view) = {}
  BY <1>2, <1>3 DEF ResultIsTrue
<1>4. CASE Found(view) # {}
  <2>1. Found(view) \in SUBSET Nat /\ \A t \in Found(view) : t <= Len(turns)
    BY <1>1 DEF Found
  <2>2. /\ Highest(Found(view)) \in Found(view)
        /\ \A u \in Found(view) : u <= Highest(Found(view))
    BY <1>1, <1>4, <2>1, HighestIsFound
  <2>. DEFINE top == Highest(Found(view))
  <2>. HIDE DEF top
  <2>3. /\ top \in DOMAIN turns /\ top \in Nat
        /\ turns[top].conv = call.conv /\ turns[top].key = call.key
    BY <1>1, <2>2 DEF Found, top
  <2>4. \A t \in call.seen : turns[t].conv = call.conv /\ turns[t].key = call.key => t <= top
    BY <1>2, <2>2 DEF top
  <2>5. ResultIsTrue(Answer("found", top))
    BY <2>3, <2>4 DEF ResultIsTrue, Answer
  <2>. QED
    BY <1>4, <2>3, <2>5 DEF top
<1>. QED
  BY <1>3, <1>4

\* What the last reply amounts to is true.
LEMMA OutcomeIsRight ==
  ASSUME BridgesInvariant, call # None, NEW line \in Lines, Tells(line), Acceptable(line),
         Script(call.tool, call.op) # <<>>, line.about = Final(call.tool, call.op)
  PROVE  Outcome(line) \in Results /\ ResultIsTrue(Outcome(line))
<1>1. call \in Calls /\ call.tool \in WakeTools /\ call.op \in Operations /\ line.ok
      /\ line.turn \in Nat
  BY DEF BridgesInvariant, TypeOK, Calls, Tools, Acceptable, Lines
<1>2. CASE call.op = "submit"
  BY <1>1, <1>2, FinalOf, ReceiptIsRight, OutcomeOf
<1>3. CASE call.op = "observe"
  <2>1. Shows(line.view)
    BY <1>1, <1>3, FinalOf DEF Tells
  <2>. QED
    BY <1>3, <2>1, ObservationIsRight, OutcomeOf
<1>4. CASE call.op = "reconcile"
  <2>1. Shows(line.view) /\ call.tool = "codex"
    BY <1>1, <1>4, FinalOf DEF Tells
  <2>2. CASE Found(line.view) = {}
    <3>1. Outcome(line) = Answer("nothing", 0) /\ Answer("nothing", 0) \in Results
      BY <1>4, <2>2, OutcomeOf DEF Answer, Results
    <3>2. ResultIsTrue(Answer("nothing", 0))
      BY <1>4, <2>1, <2>2, SearchIsRight
    <3>. QED
      BY Zenon, <3>1, <3>2
  <2>3. CASE Found(line.view) # {}
    <3>1. Outcome(line) = Answer("found", Highest(Found(line.view)))
      BY <1>4, <2>3, OutcomeOf
    <3>2. /\ Highest(Found(line.view)) \in Nat
          /\ ResultIsTrue(Answer("found", Highest(Found(line.view))))
      BY <1>4, <2>1, <2>3, SearchIsRight
    <3>3. Answer("found", Highest(Found(line.view))) \in Results
      BY <3>2 DEF Answer, Results
    <3>. QED
      BY Zenon, <3>1, <3>2, <3>3
  <2>. QED
    BY <2>2, <2>3
<1>5. CASE call.op = "discover"
  BY <1>1, <1>5, OutcomeOf DEF ResultIsTrue, Answer, Results
<1>. QED
  BY <1>1, <1>2, <1>3, <1>4, <1>5, FinalOf DEF Operations

\* The lines a readline may find.
LEMMA LinesToRead ==
  ASSUME BridgesInvariant, call # None
  PROVE  LET lines == wire.buffer \o wire.pipe
         IN  lines \in Seq(Lines) /\ \A i \in DOMAIN lines : Tells(lines[i])
<1>1. wire.buffer \in Seq(Lines) /\ wire.pipe \in Seq(Lines)
  BY DEF BridgesInvariant, TypeOK, Wires
<1>2. \A i \in DOMAIN wire.pipe : Tells(wire.pipe[i])
  BY DEF BridgesInvariant, LinesAreTrue
<1>3. \A i \in DOMAIN wire.buffer : Tells(wire.buffer[i])
  BY DEF BridgesInvariant, LinesAreTrue
<1>. DEFINE lines == wire.buffer \o wire.pipe
<1>4. lines \in Seq(Lines)
  BY <1>1
<1>5. \A i \in DOMAIN lines : \/ i \in DOMAIN wire.buffer /\ lines[i] = wire.buffer[i]
                              \/ /\ i - Len(wire.buffer) \in DOMAIN wire.pipe
                                 /\ lines[i] = wire.pipe[i - Len(wire.buffer)]
  BY <1>1, ConcatTyping
<1>. HIDE DEF lines
<1>6. \A i \in DOMAIN lines : Tells(lines[i])
  BY <1>2, <1>3, <1>5
<1>. QED
  BY <1>4, <1>6 DEF lines

LEMMA ReadStep ==
  ASSUME BridgesInvariant, Read
  PROVE  BridgesInvariant' /\ wire'.turn = wire.turn
<1>. DEFINE lines == wire.buffer \o wire.pipe
            line == Head(lines)
            rest == [wire EXCEPT !.pipe = <<>>, !.buffer = Tail(lines)]
<1>1. /\ wire \in Wires /\ call # None /\ wire.at = "await" /\ call \in Calls
      /\ UNCHANGED <<turns, call, receipts, left>>
  BY DEF BridgesInvariant, TypeOK, Read, At
<1>2. \/ Raise(Unwinding)
      \/ lines # <<>> /\ wire' = rest
      \/ /\ lines # <<>> /\ line.about = Head(wire.todo) /\ Acceptable(line)
         /\ Len(wire.todo) > 1 /\ wire' = [rest EXCEPT !.at = "send", !.todo = Tail(@)]
      \/ /\ lines # <<>> /\ line.about = Head(wire.todo) /\ Acceptable(line)
         /\ ~(Len(wire.todo) > 1)
         /\ wire' = [rest EXCEPT !.at = "close", !.result = Outcome(line)]
  BY Zenon DEF Read
<1>3. CASE Raise(Unwinding)
  BY <1>1, <1>3, RaiseStep DEF Unwinding
<1>4. ASSUME lines # <<>>
      PROVE  /\ line \in Lines /\ Tells(line) /\ Tail(lines) \in Seq(Lines)
             /\ \A i \in DOMAIN Tail(lines) : Tells(Tail(lines)[i])
             /\ rest \in Wires /\ rest.pipe = <<>> /\ rest.buffer = Tail(lines)
             /\ rest.at = wire.at /\ rest.todo = wire.todo /\ rest.asked = wire.asked
             /\ rest.up = wire.up /\ rest.turn = wire.turn /\ rest.result = wire.result
  <2>1. lines \in Seq(Lines) /\ \A i \in DOMAIN lines : Tells(lines[i])
    BY <1>1, LinesToRead
  <2>. HIDE DEF lines
  <2>2. /\ line \in Lines /\ line = lines[1] /\ Tail(lines) \in Seq(Lines)
        /\ Len(lines) \in Nat \ {0}
        /\ \A i \in DOMAIN Tail(lines) : i + 1 \in DOMAIN lines /\ Tail(lines)[i] = lines[i + 1]
    BY <1>4, <2>1, TailTyping
  <2>3. 1 \in DOMAIN lines
    BY <2>1, <2>2
  <2>4. <<>> \in Seq(Lines)
    OBVIOUS
  <2>5. /\ rest \in Wires /\ rest.pipe = <<>> /\ rest.buffer = Tail(lines)
        /\ rest.at = wire.at /\ rest.todo = wire.todo /\ rest.asked = wire.asked
        /\ rest.up = wire.up /\ rest.turn = wire.turn /\ rest.result = wire.result
    BY <1>1, <2>2, <2>4 DEF Wires
  <2>. QED
    BY <2>1, <2>2, <2>3, <2>5
<1>5. /\ wire.todo \in Seq(Requests(call.tool, call.op)) /\ wire.todo # <<>>
      /\ wire.todo[Len(wire.todo)] = Final(call.tool, call.op)
      /\ wire.asked \in Requests(call.tool, call.op) \cup {None}
  BY <1>1 DEF BridgesInvariant, ScriptIsFollowed
<1>6. /\ Head(wire.todo) = wire.todo[1] /\ Len(wire.todo) \in Nat \ {0}
      /\ Tail(wire.todo) \in Seq(Requests(call.tool, call.op))
      /\ Len(Tail(wire.todo)) = Len(wire.todo) - 1
      /\ \A i \in DOMAIN Tail(wire.todo) : Tail(wire.todo)[i] = wire.todo[i + 1]
  BY <1>5, TailTyping
<1>7. ASSUME lines # <<>>, wire' \in Wires, wire'.pipe = <<>>, wire'.buffer = Tail(lines),
             wire'.turn = wire.turn, ScriptIsFollowed', OutcomeIsTrue'
      PROVE  BridgesInvariant' /\ wire'.turn = wire.turn
  <2>. HIDE DEF lines
  <2>1. Grows
    BY <1>1, SameTurns DEF BridgesInvariant
  <2>2. TypeOK'
    BY <1>1, <1>7 DEF BridgesInvariant, TypeOK
  <2>3. CallIsFounded' /\ TurnIsOurs'
    BY <1>1, <1>7, <2>1, FoundedStays, OursStays DEF BridgesInvariant
  <2>4. ASSUME NEW i \in DOMAIN wire'.buffer
        PROVE  Tells(wire.buffer[i])'
    <3>1. PICK l : l = Tail(lines)[i] /\ Tells(l)
      BY <1>4, <1>7, <2>4
    <3>2. Tells(l)'
      BY <1>1, <1>7, <2>1, <3>1, TellsStays DEF BridgesInvariant, KeepsTurn
    <3>3. wire'.buffer[i] = l
      BY <1>7, <3>1
    <3>. QED
      BY <3>2, <3>3 DEF Tells, Shows
  <2>5. DOMAIN wire'.pipe = {}
    BY <1>7
  <2>6. LinesAreTrue'
    BY <2>4, <2>5 DEF LinesAreTrue
  <2>. QED
    BY <1>7, <2>2, <2>3, <2>6 DEF BridgesInvariant
<1>8. CASE lines # <<>> /\ wire' = rest
  <2>. HIDE DEF lines, rest
  <2>1. ScriptIsFollowed'
    BY <1>1, <1>4, <1>8 DEF BridgesInvariant, ScriptIsFollowed
  <2>2. OutcomeIsTrue'
    BY <1>1, <1>4, <1>8 DEF OutcomeIsTrue
  <2>. QED
    BY <1>4, <1>7, <1>8, <2>1, <2>2
<1>9. CASE /\ lines # <<>> /\ line.about = Head(wire.todo) /\ Acceptable(line)
           /\ Len(wire.todo) > 1 /\ wire' = [rest EXCEPT !.at = "send", !.todo = Tail(@)]
  <2>. HIDE DEF lines, rest
  <2>1. wire.todo \in Seq(Messages) /\ wire.todo # <<>>
    BY <1>1, <1>5 DEF Wires
  <2>2. Tail(wire.todo) \in Seq(Messages)
    BY <2>1, TailTyping
  <2>3. /\ wire' \in Wires /\ wire'.at = "send" /\ wire'.todo = Tail(wire.todo)
        /\ wire'.pipe = <<>> /\ wire'.buffer = Tail(lines) /\ wire'.turn = wire.turn
        /\ wire'.asked = wire.asked
    BY <1>4, <1>9, <2>2 DEF Wires
  <2>4. /\ Tail(wire.todo) # <<>>
        /\ Tail(wire.todo)[Len(Tail(wire.todo))] = wire.todo[Len(wire.todo)]
    <3>1. /\ Len(Tail(wire.todo)) \in DOMAIN Tail(wire.todo)
          /\ Len(Tail(wire.todo)) + 1 = Len(wire.todo)
      BY <1>6, <1>9
    <3>3. Tail(wire.todo) # <<>>
      <4>1. Len(wire.todo) > 1
        BY <1>9
      <4>2. Len(Tail(wire.todo)) # 0
        <5>1. Len(wire.todo) \in Nat /\ Len(Tail(wire.todo)) = Len(wire.todo) - 1
          BY <1>6
        <5>2. \A n \in Nat : n > 1 => n - 1 # 0
          OBVIOUS
        <5>. QED
          BY Zenon, <4>1, <5>1, <5>2
      <4>3. Len(<<>>) = 0
        OBVIOUS
      <4>. QED
        BY Zenon, <4>2, <4>3
    <3>2. Tail(wire.todo)[Len(Tail(wire.todo))] = wire.todo[Len(Tail(wire.todo)) + 1]
      BY <1>6, <3>1
    <3>. QED
      BY <3>1, <3>2, <3>3
  <2>5. ScriptIsFollowed'
    BY <1>1, <1>5, <1>6, <2>3, <2>4 DEF ScriptIsFollowed
  <2>6. OutcomeIsTrue'
    BY <2>3 DEF OutcomeIsTrue
  <2>. QED
    BY <1>7, <1>9, <2>3, <2>5, <2>6
<1>10. CASE /\ lines # <<>> /\ line.about = Head(wire.todo) /\ Acceptable(line)
            /\ ~(Len(wire.todo) > 1)
            /\ wire' = [rest EXCEPT !.at = "close", !.result = Outcome(line)]
  <2>. HIDE DEF lines, line, rest
  <2>1. line.about = Final(call.tool, call.op)
    BY <1>5, <1>6, <1>10
  <2>2. Script(call.tool, call.op) # <<>>
    <3>1. wire.todo[1] \in Requests(call.tool, call.op)
      BY <1>5, <1>6
    <3>. QED
      BY <3>1 DEF Requests
  <2>3. Outcome(line) \in Results /\ ResultIsTrue(Outcome(line))
    BY <1>1, <1>4, <1>10, <2>1, <2>2, OutcomeIsRight
  <2>4. /\ wire' \in Wires /\ wire'.at = "close" /\ wire'.todo = wire.todo
        /\ wire'.pipe = <<>> /\ wire'.buffer = Tail(lines) /\ wire'.turn = wire.turn
        /\ wire'.asked = wire.asked /\ wire'.result = Outcome(line)
    BY <1>4, <1>10, <2>3 DEF Wires
  <2>5. ScriptIsFollowed'
    BY <1>1, <1>5, <2>4 DEF ScriptIsFollowed
  <2>. DEFINE a == Outcome(line)
  <2>. HIDE DEF a
  <2>6. ResultIsTrue(wire.result)'
    <3>1. SUFFICES ASSUME NEW r, ResultIsTrue(r) PROVE ResultIsTrue(r)'
      BY <2>3, <2>4 DEF ResultIsTrue
    <3>. QED
      BY <1>1, <2>4, <3>1, ResultKept
  <2>7. OutcomeIsTrue'
    BY <2>4, <2>6 DEF OutcomeIsTrue
  <2>. QED
    BY <1>7, <1>10, <2>4, <2>5, <2>7
<1>. QED
  BY <1>2, <1>3, <1>8, <1>9, <1>10

---------------------------------------------------------------------------
(* What a tool writes.                                                     *)

LEMMA LineOf ==
  ASSUME BridgesInvariant, call # None, NEW about \in Messages \cup {"notification"},
         NEW ok \in BOOLEAN, NEW conv \in Conversations, NEW turn \in Nat
  PROVE  /\ Line(about, ok, conv, turn) \in Lines
         /\ Line(about, ok, conv, turn).about = about /\ Line(about, ok, conv, turn).ok = ok
         /\ Line(about, ok, conv, turn).conv = conv
         /\ Line(about, ok, conv, turn).turn = turn
         /\ about = "thread/read" => Shows(Line(about, ok, conv, turn).view)
<1>. DEFINE view == [t \in DOMAIN turns |-> turns[t].state]
<1>1. /\ turns \in Seq(Turns) /\ Len(turns) \in Nat /\ DOMAIN turns = 1..Len(turns)
      /\ \A t \in DOMAIN turns : turns[t].state \in States
  BY TurnTyping DEF BridgesInvariant, TypeOK, Turns
<1>2. view \in Seq(States) /\ Len(view) = Len(turns) /\ DOMAIN view = DOMAIN turns
  BY <1>1
<1>3. Shows(view)
  <2>1. /\ \A t \in call.seen : t \in DOMAIN turns /\ turns[t].state # "hidden"
        /\ call.op = "observe" => call.turn \in DOMAIN turns
    BY DEF BridgesInvariant, CallIsFounded
  <2>2. \A t \in DOMAIN turns : view[t] = turns[t].state
    OBVIOUS
  <2>. HIDE DEF view
  <2>. QED
    BY <1>1, <1>2, <2>1, <2>2 DEF Shows
<1>4. Line(about, ok, conv, turn) =
        [about |-> about, ok |-> ok, conv |-> conv, turn |-> turn,
         view |-> IF about = "thread/read" THEN view ELSE None]
  BY DEF Line
<1>. HIDE DEF view
<1>. QED
  BY <1>2, <1>3, <1>4 DEF Lines

\* A line is written, and perhaps a request is done with.
LEMMA SaidStep ==
  ASSUME BridgesInvariant, call # None, UNCHANGED <<turns, call, receipts, left>>,
         NEW line \in Lines, Tells(line), wire' \in Wires,
         wire'.pipe = Append(wire.pipe, line), wire'.buffer = wire.buffer,
         wire'.asked \in {wire.asked, None}, wire'.turn = wire.turn, wire'.at = wire.at,
         wire'.todo = wire.todo, wire'.up = wire.up, wire'.result = wire.result
  PROVE  BridgesInvariant'
<1>. USE DEF BridgesInvariant
<1>1. Grows
  BY SameTurns
<1>2. TypeOK'
  BY DEF TypeOK
<1>3. CallIsFounded' /\ TurnIsOurs'
  BY <1>1, FoundedStays, OursStays
<1>4. Tells(line)'
  BY <1>1, TellsStays DEF KeepsTurn
<1>5. LinesAreTrue'
  BY <1>1, <1>4, LineWritten DEF KeepsTurn
<1>6. ScriptIsFollowed'
  BY DEF ScriptIsFollowed
<1>7. wire.at \in {"close", "done"} => ResultIsTrue(wire.result)'
  BY ResultKept DEF OutcomeIsTrue
<1>8. OutcomeIsTrue'
  BY <1>7 DEF OutcomeIsTrue
<1>. QED
  BY <1>2, <1>3, <1>5, <1>6, <1>8

\* What the tool is working on.
LEMMA AskedOf ==
  ASSUME BridgesInvariant, Working
  PROVE  /\ call # None /\ call \in Calls /\ wire \in Wires /\ wire.asked \in Messages
         /\ call.conv \in Conversations /\ call.key \in Keys
         /\ wire.asked \in Starting =>
              call.op = "submit" /\ (call.tool # "codex" => wire.asked \in Blocking)
<1>1. call # None /\ call \in Calls /\ wire \in Wires /\ wire.asked # None
  BY DEF BridgesInvariant, TypeOK, Working
<1>2. wire.asked \in Requests(call.tool, call.op)
  BY <1>1 DEF BridgesInvariant, ScriptIsFollowed
<1>3. call.tool \in WakeTools /\ call.op \in Operations
  BY <1>1 DEF Calls, Tools
<1>. QED
  BY <1>1, <1>2, <1>3, RequestsOf DEF Calls

LEMMA WriteStep ==
  ASSUME BridgesInvariant, Working, UNCHANGED <<turns, call, receipts, left>>,
         NEW ok \in BOOLEAN, NEW conv \in Conversations, NEW turn \in Nat,
         wire' = Write(Line(wire.asked, ok, conv, turn)),
         wire.asked \in Starting /\ ok =>
           /\ wire.turn # 0 /\ turn = wire.turn
           /\ conv = turns[wire.turn].conv
           /\ wire.asked \in Blocking => turns[wire.turn].state = "completed"
  PROVE  BridgesInvariant' /\ wire'.turn = wire.turn
<1>1. PICK line : line = Line(wire.asked, ok, conv, turn)
  OBVIOUS
<1>2. /\ line \in Lines /\ line.about = wire.asked /\ line.ok = ok /\ line.conv = conv
      /\ line.turn = turn
      /\ wire.asked = "thread/read" => Shows(line.view)
  BY <1>1, AskedOf, LineOf
<1>3. Tells(line)
  BY <1>2 DEF Tells
<1>4. Append(wire.pipe, line) \in Seq(Lines)
  BY <1>2, AskedOf DEF Wires
<1>5. /\ wire' \in Wires /\ wire'.pipe = Append(wire.pipe, line)
      /\ wire'.buffer = wire.buffer /\ wire'.asked = None /\ wire'.turn = wire.turn
      /\ wire'.at = wire.at /\ wire'.todo = wire.todo /\ wire'.up = wire.up
      /\ wire'.result = wire.result
  BY <1>1, <1>4, AskedOf DEF Write, Wires
<1>. QED
  BY <1>2, <1>3, <1>5, AskedOf, SaidStep

LEMMA ReplyStep ==
  ASSUME BridgesInvariant, Reply
  PROVE  BridgesInvariant' /\ wire'.turn = wire.turn
<1>1. Working /\ wire.asked \notin Starting /\ UNCHANGED <<turns, call, receipts, left>>
  BY DEF Reply
<1>2. PICK models \in {0, 1} : wire' = Write(Line(wire.asked, TRUE, call.conv, models))
  BY DEF Reply
<1>. QED
  BY <1>1, <1>2, AskedOf, WriteStep

LEMMA ReplyElsewhereStep ==
  ASSUME BridgesInvariant, ReplyElsewhere
  PROVE  BridgesInvariant' /\ wire'.turn = wire.turn
<1>1. Working /\ wire.asked \notin Starting /\ UNCHANGED <<turns, call, receipts, left>>
  BY DEF ReplyElsewhere, Starting
<1>2. PICK conv \in Conversations : wire' = Write(Line(wire.asked, TRUE, conv, 0))
  BY DEF ReplyElsewhere
<1>. QED
  BY <1>1, <1>2, WriteStep

LEMMA RefuseStep ==
  ASSUME BridgesInvariant, Refuse
  PROVE  BridgesInvariant' /\ wire'.turn = wire.turn
<1>1. Working /\ UNCHANGED <<turns, call, receipts, left>>
      /\ wire' = Write(Line(wire.asked, FALSE, call.conv, 0))
  BY DEF Refuse
<1>. QED
  BY <1>1, AskedOf, WriteStep

LEMMA FinishStep ==
  ASSUME BridgesInvariant, Finish
  PROVE  BridgesInvariant' /\ wire'.turn = wire.turn
<1>1. /\ Working /\ wire.turn # 0 /\ UNCHANGED <<turns, call, receipts, left>>
      /\ wire' = Write(Line(wire.asked, turns[wire.turn].state = "completed",
                            turns[wire.turn].conv, wire.turn))
  BY DEF Finish
<1>2. wire.turn \in DOMAIN turns
  BY <1>1, AskedOf DEF BridgesInvariant, TurnIsOurs
<1>3. wire.turn \in Nat /\ turns[wire.turn].conv \in Conversations
  BY <1>2, TurnTyping DEF BridgesInvariant, Turns
<1>4. CASE turns[wire.turn].state = "completed"
  <2>1. wire' = Write(Line(wire.asked, TRUE, turns[wire.turn].conv, wire.turn))
    BY <1>1, <1>4
  <2>. QED
    BY <1>1, <1>3, <1>4, <2>1, WriteStep
<1>5. CASE turns[wire.turn].state # "completed"
  <2>1. wire' = Write(Line(wire.asked, FALSE, turns[wire.turn].conv, wire.turn))
    BY <1>1, <1>5
  <2>. QED
    BY <1>1, <1>3, <2>1, WriteStep
<1>. QED
  BY <1>4, <1>5

LEMMA NotifyStep ==
  ASSUME BridgesInvariant, Notify
  PROVE  BridgesInvariant' /\ wire'.turn = wire.turn
<1>1. /\ call # None /\ wire \in Wires /\ call \in Calls /\ call.conv \in Conversations
      /\ UNCHANGED <<turns, call, receipts, left>>
  BY DEF Notify, BridgesInvariant, TypeOK, Calls
<1>2. PICK line : line = Line("notification", TRUE, call.conv, 0)
  OBVIOUS
<1>3. line \in Lines /\ line.about = "notification"
  <2>1. \A ok \in BOOLEAN : /\ Line("notification", ok, call.conv, 0) \in Lines
                           /\ Line("notification", ok, call.conv, 0).about = "notification"
    BY <1>1, LineOf
  <2>. QED
    BY Zenon, <1>2, <2>1
<1>4. Tells(line)
  BY <1>3 DEF Tells, Starting
<1>5. Append(wire.pipe, line) \in Seq(Lines)
  BY <1>1, <1>3 DEF Wires
<1>6. /\ wire' \in Wires /\ wire'.pipe = Append(wire.pipe, line)
      /\ wire'.buffer = wire.buffer /\ wire'.asked = wire.asked /\ wire'.turn = wire.turn
      /\ wire'.at = wire.at /\ wire'.todo = wire.todo /\ wire'.up = wire.up
      /\ wire'.result = wire.result
  BY <1>1, <1>2, <1>5 DEF Notify, Wires
<1>. QED
  BY <1>1, <1>3, <1>4, <1>6, SaidStep

\* A submission is taken up: its turn is the call's from now on.
LEMMA TakeStep ==
  ASSUME BridgesInvariant, NEW conv \in Conversations, NEW state \in {"hidden", "running"},
         conv = call.conv \/ call.tool \in Cli, Take(conv, state)
  PROVE  /\ BridgesInvariant' /\ call.op = "submit" /\ wire.turn = 0
         /\ wire'.turn = Len(turns) + 1 /\ call.key \in Keys
<1>1. /\ Working /\ wire.asked \in Starting /\ wire.turn = 0
      /\ turns' = Append(turns, Turn(conv, call.key, state))
      /\ UNCHANGED <<call, receipts, left>>
  BY DEF Take
<1>2. /\ call # None /\ call \in Calls /\ wire \in Wires /\ wire.asked \in Messages
      /\ call.key \in Keys /\ call.op = "submit"
  BY <1>1, AskedOf
<1>3. Turn(conv, call.key, state) \in Turns
  BY <1>2 DEF Turn, Turns, States
<1>4. /\ Grows /\ Len(turns) + 1 \in DOMAIN turns' /\ Len(turns) \in Nat
      /\ turns'[Len(turns) + 1].conv = conv
  BY <1>1, <1>3, MoreTurns, TurnTyping DEF BridgesInvariant, Turn
<1>5. PICK line : line = Line(wire.asked, TRUE, conv, Len(turns) + 1)
  OBVIOUS
<1>6. /\ line \in Lines /\ line.about = wire.asked /\ line.conv = conv
      /\ line.turn = Len(turns) + 1
  <2>1. ASSUME NEW ok \in BOOLEAN
        PROVE  LET said == Line(wire.asked, ok, conv, Len(turns) + 1)
               IN  /\ said \in Lines /\ said.about = wire.asked /\ said.conv = conv
                   /\ said.turn = Len(turns) + 1
    BY <1>2, <1>4, LineOf
  <2>. QED
    BY Zenon, <1>5, <2>1
<1>7. Append(wire.pipe, line) \in Seq(Lines)
  BY <1>2, <1>6 DEF Wires
<1>8. /\ wire' \in Wires /\ wire'.turn = Len(turns) + 1 /\ wire'.buffer = wire.buffer
      /\ wire'.at = wire.at /\ wire'.todo = wire.todo /\ wire'.up = wire.up
      /\ wire'.result = wire.result /\ wire'.asked \in {wire.asked, None}
      /\ \/ wire'.pipe = wire.pipe
         \/ wire'.pipe = Append(wire.pipe, line) /\ wire.asked \notin Blocking
  <2>. DEFINE started == [wire EXCEPT !.turn = Len(turns) + 1]
  <2>1. /\ started \in Wires /\ started.turn = Len(turns) + 1 /\ started.buffer = wire.buffer
        /\ started.at = wire.at /\ started.todo = wire.todo /\ started.up = wire.up
        /\ started.result = wire.result /\ started.asked = wire.asked
        /\ started.pipe = wire.pipe
    BY <1>2, <1>4 DEF Wires
  <2>2. wire' = IF wire.asked \in Blocking THEN started
                ELSE [started EXCEPT !.asked = None, !.pipe = Append(@, line)]
    BY <1>5 DEF Take
  <2>. HIDE DEF started
  <2>3. CASE wire.asked \in Blocking
    BY <2>1, <2>2, <2>3
  <2>4. CASE wire.asked \notin Blocking
    BY <1>7, <2>1, <2>2, <2>4 DEF Wires
  <2>. QED
    BY <2>3, <2>4
<1>9. KeepsTurn
  BY <1>1 DEF KeepsTurn
<1>. USE DEF BridgesInvariant
<1>10. TypeOK'
  BY <1>1, <1>4, <1>8 DEF TypeOK, Grows
<1>11. CallIsFounded'
  BY <1>1, <1>4, FoundedStays
<1>12. TurnIsOurs'
  BY <1>1, <1>2, <1>4, <1>8 DEF TurnIsOurs
<1>13. LinesAreTrue'
  <2>1. CASE wire'.pipe = wire.pipe
    BY <1>2, <1>4, <1>8, <1>9, <2>1, LinesStay
  <2>2. CASE wire'.pipe = Append(wire.pipe, line) /\ wire.asked \notin Blocking
    <3>1. Tells(line)'
      BY <1>1, <1>4, <1>6, <1>8, <2>2 DEF Tells, Starting
    <3>. QED
      BY <1>2, <1>4, <1>6, <1>8, <1>9, <2>2, <3>1, LineWritten
  <2>. QED
    BY <1>8, <2>1, <2>2
<1>14. ScriptIsFollowed'
  BY <1>1, <1>8 DEF ScriptIsFollowed
<1>15. wire.at \in {"close", "done"} => ResultIsTrue(wire.result)'
  BY <1>2, <1>4, <1>8, <1>9, ResultStays DEF OutcomeIsTrue
<1>16. OutcomeIsTrue'
  BY <1>1, <1>8, <1>15 DEF OutcomeIsTrue
<1>. QED
  BY <1>1, <1>2, <1>8, <1>10, <1>11, <1>12, <1>13, <1>14, <1>16

---------------------------------------------------------------------------
(* A call begins and ends.                                                 *)

LEMMA WithoutProcessOf ==
  ASSUME NEW op, NEW turn
  PROVE  /\ op = "observe" => WithoutProcess(op, turn) = Answer("completed", turn)
         /\ op = "reconcile" => WithoutProcess(op, turn) = Answer("nothing", 0)
         /\ op = "present" => WithoutProcess(op, turn) = Answer("experimental", 0)
         /\ op \in {"submit", "discover"} => WithoutProcess(op, turn) = Error
BY Zenon DEF WithoutProcess

LEMMA NoWireTyping ==
  /\ NoWire \in Wires /\ NoWire.pipe = <<>> /\ NoWire.buffer = <<>> /\ NoWire.asked = None
  /\ NoWire.turn = 0 /\ NoWire.up = FALSE /\ NoWire.at = "idle"
<1>1. <<>> \in Seq(Messages) /\ <<>> \in Seq(Lines)
  OBVIOUS
<1>. QED
  BY <1>1, ErrorIsTrue DEF NoWire, Wires

LEMMA ScriptIsItsRequests ==
  ASSUME NEW tool \in WakeTools, NEW op \in Operations
  PROVE  Script(tool, op) \in Seq(Requests(tool, op))
<1>1. \A s \in Seq(Messages) : s \in Seq({s[i] : i \in DOMAIN s})
  OBVIOUS
<1>. QED
  BY <1>1, ScriptTyping DEF Requests

LEMMA BeginStep ==
  ASSUME BridgesInvariant, NEW tool \in WakeTools, NEW op \in Operations,
         NEW conv \in Conversations, NEW key \in Keys, NEW turn \in Nat,
         IF op = "observe"
         THEN turn \in DOMAIN turns /\ (tool # "codex" => turns[turn].state = "completed")
         ELSE turn = 0,
         Begin(tool, op, conv, key, turn)
  PROVE  BridgesInvariant' /\ wire'.turn = 0 /\ call' # None
<1>. DEFINE place == CASE Script(tool, op) # <<>> -> "spawn"
                       [] op = "present" /\ tool # "codex" -> "present"
                       [] OTHER -> "done"
<1>1. /\ UNCHANGED <<turns, receipts, left>>
      /\ call' = [tool |-> tool, op |-> op, conv |-> conv, key |-> key, turn |-> turn,
                  seen |-> Visible]
      /\ wire' = [NoWire EXCEPT !.at = place, !.todo = Script(tool, op),
                                !.result = WithoutProcess(op, turn)]
  BY Zenon DEF Begin
<1>2. /\ Script(tool, op) # <<>> => place = "spawn"
      /\ Script(tool, op) = <<>> /\ op = "present" /\ tool # "codex" => place = "present"
      /\ Script(tool, op) = <<>> /\ ~(op = "present" /\ tool # "codex") => place = "done"
  <2>1. op = "present" => Script(tool, op) = <<>>
    BY ScriptOf
  <2>. QED
    BY Zenon, <2>1
<1>. HIDE DEF place
<1>3. WithoutProcess(op, turn) \in Results
  BY WithoutProcessOf, ErrorIsTrue DEF Operations, Answer, Results
<1>4. /\ wire' \in Wires /\ wire'.at = place /\ wire'.todo = Script(tool, op)
      /\ wire'.result = WithoutProcess(op, turn) /\ wire'.pipe = <<>> /\ wire'.buffer = <<>>
      /\ wire'.asked = None /\ wire'.turn = 0 /\ wire'.up = FALSE
  <2>1. place \in {"spawn", "present", "done"}
    BY <1>2
  <2>. QED
    BY <1>1, <1>3, <2>1, NoWireTyping, ScriptTyping DEF Wires
<1>5. /\ call' \in Calls /\ call' # None /\ call'.tool = tool /\ call'.op = op
      /\ call'.conv = conv /\ call'.key = key /\ call'.turn = turn /\ call'.seen = Visible
  BY <1>1, TurnTyping, NoneAssumption DEF BridgesInvariant, Calls, Tools
<1>6. TypeOK'
  BY <1>1, <1>4, <1>5 DEF BridgesInvariant, TypeOK
<1>7. CallIsFounded'
  BY <1>1, <1>5 DEF BridgesInvariant, CallIsFounded, Visible
<1>8. ScriptIsFollowed'
  <2>1. wire'.todo # <<>> => wire'.todo[Len(wire'.todo)] = Final(call'.tool, call'.op)
    BY <1>4, <1>5 DEF Final
  <2>2. wire'.todo \in Seq(Requests(call'.tool, call'.op))
    BY <1>4, <1>5, ScriptIsItsRequests
  <2>. QED
    BY <1>2, <1>4, <1>5, <2>1, <2>2 DEF ScriptIsFollowed
<1>9. TurnIsOurs'
  BY <1>4 DEF TurnIsOurs
<1>10. LinesAreTrue'
  <2>1. DOMAIN wire'.pipe = {} /\ DOMAIN wire'.buffer = {}
    BY <1>4
  <2>. QED
    BY <2>1 DEF LinesAreTrue
<1>11. OutcomeIsTrue'
  <2>1. ASSUME wire'.at = "done" PROVE ResultIsTrue(wire.result)'
    <3>1. Script(tool, op) = <<>> /\ ~(op = "present" /\ tool # "codex")
      BY <1>2, <1>4, <2>1
    <3>2. CASE op = "observe"
      <4>1. tool # "codex"
        <5>1. <<"initialize", "thread/read">> # <<>>
          OBVIOUS
        <5>. QED
          BY <3>1, <3>2, <5>1, ScriptOf
      <4>2. turns'[turn].state = "completed"
        BY <1>1, <3>2, <4>1
      <4>3. wire'.result.status = "completed" /\ wire'.result.turn = turn
        BY <1>4, <3>2, WithoutProcessOf DEF Answer
      <4>. QED
        BY <1>5, <3>2, <4>2, <4>3 DEF ResultIsTrue
    <3>3. CASE op = "reconcile"
      <4>1. tool # "codex"
        <5>1. <<"initialize", "thread/read">> # <<>>
          OBVIOUS
        <5>. QED
          BY <3>1, <3>3, <5>1, ScriptOf
      <4>2. wire'.result = Answer("nothing", 0)
        BY <1>4, <3>3, WithoutProcessOf
      <4>. QED
        BY <1>5, <3>3, <4>1, <4>2 DEF ResultIsTrue
    <3>4. CASE op = "present"
      BY <1>4, <1>5, <3>1, <3>4, WithoutProcessOf DEF ResultIsTrue
    <3>5. CASE op \in {"submit", "discover"}
      BY <1>4, <3>5, WithoutProcessOf DEF ResultIsTrue, Error, Answer
    <3>. QED
      BY <3>2, <3>3, <3>4, <3>5 DEF Operations
  <2>. QED
    BY <1>2, <1>4, <2>1 DEF OutcomeIsTrue
<1>. QED
  BY <1>4, <1>5, <1>6, <1>7, <1>8, <1>9, <1>10, <1>11 DEF BridgesInvariant

\* The submission left behind is that of the call.
LEMMA PendingTyping ==
  ASSUME BridgesInvariant, call # None
  PROVE  /\ Pending \subseteq [conv : Conversations, key : Keys]
         /\ Pending = {} \/ /\ Pending = {[conv |-> call.conv, key |-> call.key]}
                            /\ call.op = "submit" /\ wire.turn = 0 /\ wire.up
<1>1. call \in Calls
  BY DEF BridgesInvariant, TypeOK
<1>2. call.conv \in Conversations /\ call.key \in Keys
      /\ call.tool \in WakeTools /\ call.op \in Operations
  BY <1>1 DEF Calls, Tools
<1>3. CASE wire.up /\ wire.asked \in Starting /\ wire.turn = 0
  <2>1. wire.asked \in Requests(call.tool, call.op)
    BY <1>3, NoneAssumption DEF BridgesInvariant, ScriptIsFollowed
  <2>. QED
    BY <1>2, <1>3, <2>1, RequestsOf DEF Pending
<1>4. CASE ~(wire.up /\ wire.asked \in Starting /\ wire.turn = 0)
  BY <1>4 DEF Pending
<1>. QED
  BY <1>3, <1>4

\* Nothing is in progress any more.
LEMMA EndStep ==
  ASSUME BridgesInvariant, call' = None, wire' = NoWire, turns' = turns,
         left' \subseteq [conv : Conversations, key : Keys], receipts' \subseteq Receipts,
         \A r \in receipts' : /\ r.turn \in DOMAIN turns
                              /\ r.tool # "codex" => turns[r.turn].state = "completed"
  PROVE  BridgesInvariant'
<1>1. TypeOK'
  BY NoWireTyping DEF BridgesInvariant, TypeOK
<1>2. CallIsFounded'
  BY DEF CallIsFounded
<1>3. ScriptIsFollowed' /\ LinesAreTrue'
  BY DEF ScriptIsFollowed, LinesAreTrue
<1>4. TurnIsOurs' /\ OutcomeIsTrue'
  BY NoWireTyping DEF TurnIsOurs, OutcomeIsTrue
<1>. QED
  BY <1>1, <1>2, <1>3, <1>4 DEF BridgesInvariant

LEMMA ReturnStep ==
  ASSUME BridgesInvariant, Return
  PROVE  BridgesInvariant'
<1>1. /\ call # None /\ call \in Calls /\ wire.at = "done" /\ wire \in Wires
      /\ receipts \subseteq Receipts /\ left \subseteq [conv : Conversations, key : Keys]
  BY DEF Return, At, BridgesInvariant, TypeOK
<1>2. /\ call' = None /\ wire' = NoWire /\ turns' = turns
      /\ left' \subseteq [conv : Conversations, key : Keys]
  BY <1>1, PendingTyping DEF Return
<1>3. \A r \in receipts : /\ r.turn \in DOMAIN turns
                          /\ r.tool # "codex" => turns[r.turn].state = "completed"
  BY DEF BridgesInvariant, CallIsFounded
<1>4. CASE wire.result.status \in {"receipt", "found"}
  <2>. DEFINE new == [tool |-> call.tool, conv |-> call.conv, key |-> call.key,
                      turn |-> wire.result.turn]
  <2>1. receipts' = receipts \cup {new}
    BY <1>4 DEF Return
  <2>2. new \in Receipts
    BY <1>1 DEF Receipts, Calls, Wires, Results
  <2>3. ResultIsTrue(wire.result)
    BY <1>1 DEF BridgesInvariant, OutcomeIsTrue
  <2>4. /\ wire.result.turn \in DOMAIN turns
        /\ call.tool # "codex" => turns[wire.result.turn].state = "completed"
    BY <1>1, <1>4, <2>3 DEF ResultIsTrue, BridgesInvariant, TurnIsOurs, Error, Answer
  <2>. QED
    BY <1>1, <1>2, <1>3, <2>1, <2>2, <2>4, EndStep
<1>5. CASE wire.result.status \notin {"receipt", "found"}
  <2>1. receipts' = receipts
    BY <1>5 DEF Return
  <2>. QED
    BY <1>1, <1>2, <1>3, <2>1, EndStep
<1>. QED
  BY <1>4, <1>5

LEMMA CrashStep ==
  ASSUME BridgesInvariant, Crash
  PROVE  BridgesInvariant'
<1>1. /\ call # None /\ call' = None /\ wire' = NoWire /\ turns' = turns
      /\ receipts' = receipts /\ left' = left \cup Pending
      /\ receipts \subseteq Receipts /\ left \subseteq [conv : Conversations, key : Keys]
  BY DEF Crash, BridgesInvariant, TypeOK
<1>2. \A r \in receipts : /\ r.turn \in DOMAIN turns
                          /\ r.tool # "codex" => turns[r.turn].state = "completed"
  BY DEF BridgesInvariant, CallIsFounded
<1>. QED
  BY <1>1, <1>2, PendingTyping, EndStep

---------------------------------------------------------------------------
(* Every step.                                                             *)

\* The steps that leave turns and call alone, and the turn the call has started.
WireStep ==
  \/ Spawn \/ Present \/ SpawnFails \/ Send \/ Read \/ TimeUp \/ Close \/ CloseStuck
  \/ call # None /\ (Reply \/ ReplyElsewhere \/ Refuse \/ Finish \/ Notify \/ Exit)

\* The answer to a new call, and whom it is about.
Begins ==
  \/ \E conv \in Registered, key \in Keys :
       \E tool \in Served, op \in {"submit", "reconcile", "present", "discover"} :
         Begin(tool, op, conv, key, 0)
  \/ \E r \in receipts : Begin(r.tool, "observe", r.conv, r.key, r.turn)

LEMMA NextCases ==
  ASSUME Next
  PROVE  \/ Begins \/ WireStep \/ Return \/ Crash
         \/ call # None /\ (TakeUp \/ TakeUpUnseen \/ TakeUpElsewhere)
         \/ \E s \in left : LateStart(s)
         \/ \E t \in DOMAIN turns : Proceed(t)
         \/ \E conv \in Registered : UserTurn(conv)
<1>1. ASSUME Working PROVE call # None
  BY <1>1 DEF Working
<1>2. (Reply \/ ReplyElsewhere \/ Refuse \/ Finish \/ Notify \/ Exit) => call # None
  BY <1>1 DEF Reply, ReplyElsewhere, Refuse, Finish, Notify, Exit
<1>. QED
  BY <1>2 DEF Next, Begins, WireStep, CallStep, ToolStep

LEMMA InitBridges ==
  ASSUME Init
  PROVE  BridgesInvariant
<1>1. <<>> \in Seq(Turns)
  OBVIOUS
<1>2. TypeOK
  BY <1>1, NoWireTyping DEF Init, TypeOK
<1>3. CallIsFounded /\ ScriptIsFollowed /\ LinesAreTrue
  BY DEF Init, CallIsFounded, ScriptIsFollowed, LinesAreTrue
<1>4. TurnIsOurs /\ OutcomeIsTrue
  BY NoWireTyping DEF Init, TurnIsOurs, OutcomeIsTrue
<1>. QED
  BY <1>2, <1>3, <1>4 DEF BridgesInvariant

LEMMA BeginsStep ==
  ASSUME BridgesInvariant, Begins
  PROVE  BridgesInvariant' /\ wire'.turn = 0 /\ call' # None
<1>1. ASSUME NEW conv \in Registered, NEW key \in Keys, NEW tool \in Served,
             NEW op \in {"submit", "reconcile", "present", "discover"},
             Begin(tool, op, conv, key, 0)
      PROVE  BridgesInvariant' /\ wire'.turn = 0 /\ call' # None
  <2>1. tool \in WakeTools /\ conv \in Conversations /\ op \in Operations /\ op # "observe"
    BY BridgesAssumption DEF Operations
  <2>. QED
    BY <1>1, <2>1, BeginStep
<1>2. ASSUME NEW r \in receipts, Begin(r.tool, "observe", r.conv, r.key, r.turn)
      PROVE  BridgesInvariant' /\ wire'.turn = 0 /\ call' # None
  <2>1. r \in Receipts
    BY DEF BridgesInvariant, TypeOK
  <2>2. /\ r.tool \in WakeTools /\ r.conv \in Conversations /\ r.key \in Keys
        /\ r.turn \in Nat /\ "observe" \in Operations
    BY <2>1 DEF Receipts, Tools, Operations
  <2>3. r.turn \in DOMAIN turns /\ (r.tool # "codex" => turns[r.turn].state = "completed")
    BY DEF BridgesInvariant, CallIsFounded
  <2>. QED
    BY <1>2, <2>2, <2>3, BeginStep
<1>. QED
  BY <1>1, <1>2 DEF Begins

LEMMA WireStepKeeps ==
  ASSUME BridgesInvariant, WireStep
  PROVE  /\ BridgesInvariant' /\ wire'.turn = wire.turn
         /\ UNCHANGED <<turns, call, answer, receipts, left>>
<1>1. CASE SpawnFails
  BY <1>1, RaiseStep DEF SpawnFails, At
<1>2. CASE TimeUp
  BY <1>2, RaiseStep DEF TimeUp, At
<1>3. CASE CloseStuck
  BY <1>3, RaiseStep DEF CloseStuck, At
<1>4. CASE Spawn
  BY <1>4, SpawnStep DEF Spawn
<1>5. CASE Present
  BY <1>5, PresentStep DEF Present
<1>6. CASE Send
  BY <1>6, SendStep DEF Send
<1>7. CASE Read
  BY <1>7, ReadStep DEF Read
<1>8. CASE Close
  BY <1>8, CloseStep DEF Close
<1>9. CASE Reply
  BY <1>9, ReplyStep DEF Reply
<1>10. CASE ReplyElsewhere
  BY <1>10, ReplyElsewhereStep DEF ReplyElsewhere
<1>11. CASE Refuse
  BY <1>11, RefuseStep DEF Refuse
<1>12. CASE Finish
  BY <1>12, FinishStep DEF Finish
<1>13. CASE Notify
  BY <1>13, NotifyStep DEF Notify
<1>14. CASE Exit
  BY <1>14, ExitStep DEF Exit
<1>. QED
  BY <1>1, <1>2, <1>3, <1>4, <1>5, <1>6, <1>7, <1>8, <1>9, <1>10, <1>11, <1>12, <1>13,
     <1>14 DEF WireStep

\* However it is taken up, a submission becomes one turn.
LEMMA TakenUp ==
  ASSUME BridgesInvariant, call # None, TakeUp \/ TakeUpUnseen \/ TakeUpElsewhere
  PROVE  \E conv \in Conversations, state \in {"hidden", "running"} :
           (conv = call.conv \/ call.tool \in Cli) /\ Take(conv, state)
<1>1. call.conv \in Conversations
  BY DEF BridgesInvariant, TypeOK, Calls
<1>. QED
  BY <1>1 DEF TakeUp, TakeUpUnseen, TakeUpElsewhere

LEMMA TurnSteps ==
  ASSUME BridgesInvariant,
         \/ \E s \in left : LateStart(s)
         \/ \E t \in DOMAIN turns : Proceed(t)
         \/ \E conv \in Registered : UserTurn(conv)
  PROVE  BridgesInvariant'
<1>. USE DEF BridgesInvariant
<1>1. ASSUME NEW s \in left, LateStart(s) PROVE BridgesInvariant'
  <2>1. s \in [conv : Conversations, key : Keys]
    BY DEF TypeOK
  <2>2. Turn(s.conv, s.key, "running") \in Turns
    BY <2>1 DEF Turn, Turns, States
  <2>3. Grows
    BY <1>1, <2>2, MoreTurns DEF LateStart
  <2>. QED
    BY <1>1, <2>3, TurnsMove DEF LateStart
<1>2. ASSUME NEW t \in DOMAIN turns, Proceed(t) PROVE BridgesInvariant'
  <2>1. Grows
    BY <1>2, TurnsProceed DEF Proceed
  <2>. QED
    BY <1>2, <2>1, TurnsMove DEF Proceed
<1>3. ASSUME NEW conv \in Registered, UserTurn(conv) PROVE BridgesInvariant'
  <2>1. Turn(conv, None, "completed") \in Turns
    BY BridgesAssumption DEF Turn, Turns, States
  <2>2. Grows
    BY <1>3, <2>1, MoreTurns DEF UserTurn
  <2>. QED
    BY <1>3, <2>2, TurnsMove DEF UserTurn
<1>. QED
  BY <1>1, <1>2, <1>3

LEMMA StepBridges ==
  ASSUME BridgesInvariant, [Next]_vars
  PROVE  BridgesInvariant'
<1>1. CASE Begins
  BY <1>1, BeginsStep
<1>2. CASE WireStep
  BY <1>2, WireStepKeeps
<1>3. CASE Return
  BY <1>3, ReturnStep
<1>4. CASE Crash
  BY <1>4, CrashStep
<1>5. CASE call # None /\ (TakeUp \/ TakeUpUnseen \/ TakeUpElsewhere)
  BY <1>5, TakenUp, TakeStep
<1>6. CASE \/ \E s \in left : LateStart(s)
           \/ \E t \in DOMAIN turns : Proceed(t)
           \/ \E conv \in Registered : UserTurn(conv)
  BY <1>6, TurnSteps
<1>7. CASE UNCHANGED vars
  <2>1. Grows
    BY <1>7, SameTurns DEF vars, BridgesInvariant
  <2>. QED
    BY <1>7, <2>1, TurnsMove DEF vars
<1>. QED
  BY <1>1, <1>2, <1>3, <1>4, <1>5, <1>6, <1>7, NextCases

---------------------------------------------------------------------------
(* The refinement.                                                         *)

\* The call as PlannerTool sees it: a submission knows its turn.
ToolCall ==
  IF call = None THEN None
  ELSE IF call.op = "submit" THEN [call EXCEPT !.turn = wire.turn] ELSE call

LEMMA ToolCallOf ==
  ASSUME BridgesInvariant, call # None
  PROVE  /\ ToolCall # None /\ ToolCall \in Calls
         /\ ToolCall.tool = call.tool /\ ToolCall.op = call.op
         /\ ToolCall.conv = call.conv /\ ToolCall.key = call.key
         /\ ToolCall.seen = call.seen
         /\ ToolCall.turn = IF call.op = "submit" THEN wire.turn ELSE call.turn
<1>1. call \in Calls /\ wire.turn \in Nat
  BY DEF BridgesInvariant, TypeOK, Wires
<1>2. CASE call.op = "submit"
  <2>1. ToolCall = [call EXCEPT !.turn = wire.turn]
    BY <1>2 DEF ToolCall
  <2>. QED
    BY <1>1, <1>2, <2>1, NoneAssumption DEF Calls
<1>3. CASE call.op # "submit"
  BY <1>1, <1>3, NoneAssumption DEF ToolCall, Calls
<1>. QED
  BY <1>2, <1>3

\* The steps of PlannerTool, of this call.
LEMMA ToolSteps ==
  /\ Tool!ToolInit <=> /\ turns = <<>> /\ ToolCall = None /\ answer = None
                       /\ receipts = {} /\ left = {}
  /\ UNCHANGED <<turns, ToolCall, answer, receipts, left>> => UNCHANGED Tool!toolVars
BY DEF Tool!ToolInit, Tool!toolVars, ToolCall

LEMMA ToolBegin ==
  ASSUME ToolCall = None, UNCHANGED <<turns, answer, receipts, left>>,
         \/ \E tool \in WakeTools, conv \in Conversations, key \in Keys :
              \E op \in Operations \ {"observe"} :
                ToolCall' = [tool |-> tool, op |-> op, conv |-> conv, key |-> key, turn |-> 0,
                             seen |-> Visible]
         \/ \E r \in receipts :
              ToolCall' = [tool |-> r.tool, op |-> "observe", conv |-> r.conv, key |-> r.key,
                           turn |-> r.turn, seen |-> Visible]
  PROVE  Tool!Begin
BY DEF Tool!Begin, Tool!NewCall, Tool!Visible, Tool!WakeTools, Tool!Cli, Tool!Operations,
       ToolCall, Visible, WakeTools, Cli, Operations

LEMMA ToolAccept ==
  ASSUME ToolCall # None, ToolCall.op = "submit", ToolCall.turn = 0,
         NEW conv \in Conversations, NEW state \in {"hidden", "running"},
         conv = ToolCall.conv \/ ToolCall.tool \in Cli,
         turns' = Append(turns, Turn(conv, ToolCall.key, state)),
         ToolCall' = [ToolCall EXCEPT !.turn = Len(turns) + 1],
         UNCHANGED <<answer, receipts, left>>
  PROVE  Tool!Accept
BY DEF Tool!Accept, Tool!Underway, Tool!Turn, Tool!Cli, ToolCall, Turn, Cli

LEMMA ToolAbandon ==
  ASSUME ToolCall # None, ToolCall' = None, UNCHANGED <<turns, answer, receipts>>,
         \/ left' = left
         \/ /\ ToolCall.op = "submit" /\ ToolCall.turn = 0
            /\ left' = left \cup {[conv |-> ToolCall.conv, key |-> ToolCall.key]}
  PROVE  Tool!Abandon
BY DEF Tool!Abandon, ToolCall

LEMMA ToolTurns ==
  ASSUME UNCHANGED <<ToolCall, answer, receipts>>,
         \/ \E s \in left : LateStart(s)
         \/ \E t \in DOMAIN turns : Proceed(t)
         \/ \E conv \in Registered : UserTurn(conv)
  PROVE  Tool!LateStart \/ Tool!Proceed \/ Tool!UserTurn
<1>1. ASSUME NEW s \in left, LateStart(s) PROVE Tool!LateStart
  BY <1>1 DEF LateStart, Tool!LateStart, Tool!Turn, Turn, ToolCall
<1>2. ASSUME NEW t \in DOMAIN turns, Proceed(t) PROVE Tool!Proceed
  BY <1>2 DEF Proceed, Tool!Proceed, Tool!Underway, ToolCall
<1>3. ASSUME NEW conv \in Registered, UserTurn(conv) PROVE Tool!UserTurn
  BY <1>3, BridgesAssumption DEF UserTurn, Tool!UserTurn, Tool!Turn, Turn, ToolCall
<1>. QED
  BY <1>1, <1>2, <1>3

\* What PlannerTool lets a call answer.
LEMMA ToolTrue ==
  ASSUME NEW a,
         \/ a.status = "error" /\ ToolCall.op # "discover"
         \/ /\ a.status = "receipt"
            /\ ToolCall.op = "submit" /\ ToolCall.turn # 0 /\ a.turn = ToolCall.turn
            /\ turns[a.turn].conv = ToolCall.conv
            /\ ToolCall.tool # "codex" => turns[a.turn].state = "completed"
         \/ /\ a.status = "found" /\ ToolCall.op = "reconcile" /\ ToolCall.tool = "codex"
            /\ a.turn \in Tool!Mentions(ToolCall.conv, ToolCall.key)
            /\ \A t \in ToolCall.seen \cap Tool!Mentions(ToolCall.conv, ToolCall.key) : t <= a.turn
         \/ /\ a.status = "nothing" /\ ToolCall.op = "reconcile"
            /\ ToolCall.tool = "codex" =>
                 ToolCall.seen \cap Tool!Mentions(ToolCall.conv, ToolCall.key) = {}
         \/ /\ a.status = "submitted" /\ ToolCall.op = "observe"
            /\ ToolCall.turn \notin ToolCall.seen
         \/ a.status = "active" /\ ToolCall.op = "observe"
         \/ /\ a.status \in {"completed", "failed"} /\ ToolCall.op = "observe"
            /\ turns[ToolCall.turn].state = a.status
         \/ a.status = "presented" /\ ToolCall.op = "present" /\ ToolCall.tool # "codex"
         \/ a.status = "experimental" /\ ToolCall.op = "present" /\ ToolCall.tool = "codex"
         \/ /\ a.status \in {"verified", "pending"} /\ ToolCall.op = "discover"
            /\ ToolCall.tool # "deepseek-harness"
         \/ /\ a.status = "manual-only" /\ ToolCall.op = "discover"
            /\ ToolCall.tool = "deepseek-harness"
  PROVE  Tool!True(a)
<1>1. CASE a.status = "error" /\ ToolCall.op # "discover"
  BY Zenon, <1>1 DEF Tool!True, ToolCall
<1>2. CASE /\ a.status = "receipt"
           /\ ToolCall.op = "submit" /\ ToolCall.turn # 0 /\ a.turn = ToolCall.turn
           /\ turns[a.turn].conv = ToolCall.conv
           /\ ToolCall.tool # "codex" => turns[a.turn].state = "completed"
  BY Zenon, <1>2 DEF Tool!True, ToolCall
<1>3. CASE /\ a.status = "found" /\ ToolCall.op = "reconcile" /\ ToolCall.tool = "codex"
           /\ a.turn \in Tool!Mentions(ToolCall.conv, ToolCall.key)
           /\ \A t \in ToolCall.seen \cap Tool!Mentions(ToolCall.conv, ToolCall.key) : t <= a.turn
  BY Zenon, <1>3 DEF Tool!True, ToolCall
<1>4. CASE /\ a.status = "nothing" /\ ToolCall.op = "reconcile"
           /\ ToolCall.tool = "codex" =>
                ToolCall.seen \cap Tool!Mentions(ToolCall.conv, ToolCall.key) = {}
  BY Zenon, <1>4 DEF Tool!True, ToolCall
<1>5. CASE /\ a.status = "submitted" /\ ToolCall.op = "observe"
           /\ ToolCall.turn \notin ToolCall.seen
  BY Zenon, <1>5 DEF Tool!True, ToolCall
<1>6. CASE a.status = "active" /\ ToolCall.op = "observe"
  BY Zenon, <1>6 DEF Tool!True, ToolCall
<1>7. CASE /\ a.status \in {"completed", "failed"} /\ ToolCall.op = "observe"
           /\ turns[ToolCall.turn].state = a.status
  BY Zenon, <1>7 DEF Tool!True, ToolCall
<1>8. CASE a.status = "presented" /\ ToolCall.op = "present" /\ ToolCall.tool # "codex"
  BY Zenon, <1>8 DEF Tool!True, ToolCall
<1>9. CASE a.status = "experimental" /\ ToolCall.op = "present" /\ ToolCall.tool = "codex"
  BY Zenon, <1>9 DEF Tool!True, ToolCall
<1>10. CASE /\ a.status \in {"verified", "pending"} /\ ToolCall.op = "discover"
            /\ ToolCall.tool # "deepseek-harness"
  BY Zenon, <1>10 DEF Tool!True, ToolCall
<1>11. CASE /\ a.status = "manual-only" /\ ToolCall.op = "discover"
            /\ ToolCall.tool = "deepseek-harness"
  BY Zenon, <1>11 DEF Tool!True, ToolCall
<1>. QED
  BY <1>1, <1>2, <1>3, <1>4, <1>5, <1>6, <1>7, <1>8, <1>9, <1>10, <1>11

LEMMA ToolReturn ==
  ASSUME ToolCall # None, ToolCall' = None, turns' = turns, NEW a, Tool!True(a), answer' = a,
         a = [status |-> a.status, turn |-> a.turn], a.turn \in 0..Len(turns),
         a.status \in {"error", "receipt", "found", "nothing", "submitted", "active",
                       "completed", "failed", "presented", "experimental",
                       "verified", "pending", "manual-only"},
         receipts' = IF a.status \in {"receipt", "found"}
                     THEN receipts \cup {[tool |-> ToolCall.tool, conv |-> ToolCall.conv,
                                          key |-> ToolCall.key, turn |-> a.turn]}
                     ELSE receipts,
         \/ left' = left
         \/ /\ a.status = "error" /\ ToolCall.op = "submit" /\ ToolCall.turn = 0
            /\ left' = left \cup {[conv |-> ToolCall.conv, key |-> ToolCall.key]}
  PROVE  Tool!Return
<1>1. Tool!ReturnWith(a)
  BY DEF Tool!ReturnWith, Tool!MayLeave, Tool!Receipt, ToolCall
<1>2. a = Tool!Answer(a.status, a.turn)
  BY DEF Tool!Answer
<1>3. Tool!ReturnWith(Tool!Answer(a.status, a.turn))
  BY Zenon, <1>1, <1>2
<1>. QED
  BY <1>3 DEF Tool!Return, ToolCall

LEMMA DiscoveredOf ==
  ASSUME NEW result
  PROVE  \/ /\ call.tool \in {"codex", "opencode", "claude-code"}
            /\ \/ Discovered(result) = Answer("verified", 0)
               \/ Discovered(result) = Answer("pending", 0)
         \/ /\ call.tool \notin {"codex", "opencode", "claude-code"}
            /\ Discovered(result) = Answer("manual-only", 0)
BY Zenon DEF Discovered

\* What a call may say of a turn is what PlannerTool lets it say.
LEMMA ResultMapped ==
  ASSUME BridgesInvariant, call # None, call.op # "discover",
         NEW a \in Results, ResultIsTrue(a)
  PROVE  /\ Tool!True(a) /\ a.turn \in 0..Len(turns) /\ a.status # "models"
         /\ a = Error => a.status = "error"
<1>1. /\ call \in Calls /\ wire.turn \in Nat /\ turns \in Seq(Turns)
      /\ Len(turns) \in Nat /\ DOMAIN turns = 1..Len(turns)
  BY DEF BridgesInvariant, TypeOK, Wires
<1>2. \A conv, key, t : t \in Tool!Mentions(conv, key) <=>
        t \in DOMAIN turns /\ turns[t].conv = conv /\ turns[t].key = key
  BY DEF Tool!Mentions
<1>3. \A t \in call.seen : t \in DOMAIN turns
  BY DEF BridgesInvariant, CallIsFounded
<1>4. CASE a = Error
  <2>1. a.status = "error" /\ a.turn = 0
    BY <1>4 DEF Error, Answer
  <2>. QED
    BY <1>1, <2>1, ToolTrue, ToolCallOf
<1>5. CASE /\ call.op = "submit" /\ a.status = "receipt"
           /\ wire.turn # 0 /\ a.turn = wire.turn /\ turns[a.turn].conv = call.conv
           /\ call.tool # "codex" => turns[a.turn].state = "completed"
  <2>1. a.turn \in DOMAIN turns
    BY <1>5 DEF BridgesInvariant, TurnIsOurs
  <2>. QED
    BY <1>1, <1>5, <2>1, ToolTrue, ToolCallOf DEF Error, Answer
<1>6. CASE /\ call.op = "reconcile" /\ call.tool = "codex" /\ a.status = "found"
           /\ a.turn \in DOMAIN turns
           /\ turns[a.turn].conv = call.conv /\ turns[a.turn].key = call.key
           /\ \A t \in call.seen :
                turns[t].conv = call.conv /\ turns[t].key = call.key => t <= a.turn
  BY <1>1, <1>2, <1>6, ToolTrue, ToolCallOf DEF Error, Answer
<1>7. CASE /\ call.op = "reconcile" /\ a = Answer("nothing", 0)
           /\ call.tool = "codex" =>
                \A t \in call.seen : ~(turns[t].conv = call.conv /\ turns[t].key = call.key)
  <2>1. a.status = "nothing" /\ a.turn = 0
    BY <1>7 DEF Answer
  <2>2. call.tool = "codex" => call.seen \cap Tool!Mentions(call.conv, call.key) = {}
    BY <1>2, <1>7
  <2>. QED
    BY <1>1, <1>7, <2>1, <2>2, ToolTrue, ToolCallOf DEF Error, Answer
<1>8. CASE /\ call.op = "observe" /\ a.turn = call.turn
           /\ \/ a.status = "submitted" /\ call.turn \notin call.seen
              \/ a.status = "active"
              \/ a.status \in {"completed", "failed"} /\ turns[call.turn].state = a.status
  <2>1. a.turn \in DOMAIN turns
    BY <1>8 DEF BridgesInvariant, CallIsFounded
  <2>2. Tool!True(a)
    BY <1>8, ToolTrue, ToolCallOf
  <2>. QED
    BY <1>1, <1>8, <2>1, <2>2 DEF Error, Answer
<1>9. CASE /\ call.op = "present"
           /\ a = Answer(IF call.tool = "codex" THEN "experimental" ELSE "presented", 0)
  <2>1. a.turn = 0 /\ a.status = IF call.tool = "codex" THEN "experimental" ELSE "presented"
    BY <1>9 DEF Answer
  <2>. QED
    BY <1>1, <1>9, <2>1, ToolTrue, ToolCallOf DEF Error, Answer
<1>. QED
  BY <1>4, <1>5, <1>6, <1>7, <1>8, <1>9 DEF ResultIsTrue

LEMMA ReturnImplements ==
  ASSUME BridgesInvariant, Return
  PROVE  Tool!Return
<1>1. /\ call # None /\ call \in Calls /\ wire.at = "done" /\ wire \in Wires
      /\ ResultIsTrue(wire.result)
  BY DEF Return, At, BridgesInvariant, TypeOK, OutcomeIsTrue
<1>2. call.op \in Operations /\ wire.result \in Results /\ call.tool \in WakeTools
  BY <1>1 DEF Calls, Wires, Tools
<1>3. ToolCall # None /\ ToolCall' = None /\ turns' = turns
  BY <1>1, ToolCallOf DEF Return, ToolCall
<1>4. PICK a : a = answer'
  OBVIOUS
<1>5. PICK r : r = wire.result
  OBVIOUS
<1>6. CASE call.op = "discover"
  <2>1. a = Discovered(r)
    BY <1>4, <1>5, <1>6 DEF Return
  <2>2. r = Error \/ r.status = "models"
    BY <1>1, <1>5, <1>6 DEF ResultIsTrue
  <2>3. r.status \notin {"receipt", "found"}
    BY <2>2 DEF Error, Answer
  <2>4. receipts' = receipts
    BY <1>5, <2>3 DEF Return
  <2>5. left' = left
    BY <1>1, <1>6, PendingTyping DEF Return
  <2>6. /\ a = [status |-> a.status, turn |-> a.turn] /\ a.turn = 0
        /\ \/ a.status \in {"verified", "pending"} /\ call.tool # "deepseek-harness"
           \/ a.status = "manual-only" /\ call.tool = "deepseek-harness"
    BY <1>2, <2>1, DiscoveredOf DEF Answer, WakeTools, Cli
  <2>7. Tool!True(a)
    BY <1>1, <1>6, <2>6, ToolTrue, ToolCallOf
  <2>8. a.turn \in 0..Len(turns)
    BY <2>6 DEF BridgesInvariant, TypeOK
  <2>. QED
    BY <1>3, <1>4, <2>4, <2>5, <2>6, <2>7, <2>8, ToolReturn
<1>7. CASE call.op # "discover"
  <2>1. a = r /\ r \in Results /\ ResultIsTrue(r)
    BY <1>1, <1>2, <1>4, <1>5, <1>7 DEF Return
  <2>2. /\ Tool!True(a) /\ a.turn \in 0..Len(turns) /\ a.status # "models"
        /\ a = Error => a.status = "error"
    BY <1>1, <1>7, <2>1, ResultMapped
  <2>3. /\ a = [status |-> a.status, turn |-> a.turn]
        /\ a.status \in {"error", "receipt", "found", "nothing", "submitted", "active",
                         "completed", "failed", "presented", "experimental",
                         "verified", "pending", "manual-only"}
    BY <2>1, <2>2 DEF Results
  <2>4. receipts' = IF a.status \in {"receipt", "found"}
                    THEN receipts \cup {[tool |-> ToolCall.tool, conv |-> ToolCall.conv,
                                         key |-> ToolCall.key, turn |-> a.turn]}
                    ELSE receipts
    BY <1>1, <1>5, <2>1, ToolCallOf DEF Return
  <2>5. \/ left' = left
        \/ /\ a.status = "error" /\ ToolCall.op = "submit" /\ ToolCall.turn = 0
           /\ left' = left \cup {[conv |-> ToolCall.conv, key |-> ToolCall.key]}
    <3>1. CASE Pending = {}
      BY <3>1 DEF Return
    <3>2. CASE Pending # {}
      <4>1. /\ Pending = {[conv |-> call.conv, key |-> call.key]}
            /\ call.op = "submit" /\ wire.turn = 0 /\ wire.up
        BY <1>1, <3>2, PendingTyping
      <4>2. a = Error
        BY <1>1, <1>5, <2>1, <4>1 DEF BridgesInvariant, OutcomeIsTrue
      <4>. QED
        BY <1>1, <2>2, <4>1, <4>2, ToolCallOf DEF Return
    <3>. QED
      BY <3>1, <3>2
  <2>. QED
    BY <1>3, <1>4, <2>2, <2>3, <2>4, <2>5, ToolReturn
<1>. QED
  BY <1>6, <1>7

LEMMA BeginsImplements ==
  ASSUME BridgesInvariant, Begins
  PROVE  Tool!Begin
<1>1. wire'.turn = 0 /\ call' # None
  BY BeginsStep
<1>2. ASSUME NEW tool \in WakeTools, NEW op \in Operations, NEW conv, NEW key, NEW turn,
             op = "submit" => turn = 0, Begin(tool, op, conv, key, turn)
      PROVE  /\ ToolCall = None /\ UNCHANGED <<turns, answer, receipts, left>>
             /\ ToolCall' = [tool |-> tool, op |-> op, conv |-> conv, key |-> key,
                             turn |-> turn, seen |-> Visible]
  <2>. DEFINE new == [tool |-> tool, op |-> op, conv |-> conv, key |-> key, turn |-> turn,
                      seen |-> Visible]
  <2>1. call = None /\ call' = new /\ UNCHANGED <<turns, answer, receipts, left>>
    BY <1>2 DEF Begin
  <2>2. ToolCall' = IF call'.op = "submit" THEN [call' EXCEPT !.turn = wire'.turn] ELSE call'
    BY <1>1 DEF ToolCall
  <2>3. new.op = op /\ (op = "submit" => [new EXCEPT !.turn = 0] = new)
    BY <1>2
  <2>4. call'.op = op
    BY <2>1, <2>3
  <2>5. ToolCall' = new
    <3>1. CASE op = "submit"
      BY Zenon, <1>1, <2>1, <2>2, <2>3, <2>4, <3>1
    <3>2. CASE op # "submit"
      BY Zenon, <2>1, <2>2, <2>4, <3>2
    <3>. QED
      BY <3>1, <3>2
  <2>. QED
    BY <2>1, <2>5 DEF ToolCall
<1>3. ASSUME NEW conv \in Registered, NEW key \in Keys, NEW tool \in Served,
             NEW op \in {"submit", "reconcile", "present", "discover"},
             Begin(tool, op, conv, key, 0)
      PROVE  Tool!Begin
  <2>1. tool \in WakeTools /\ conv \in Conversations /\ op \in Operations \ {"observe"}
    BY BridgesAssumption DEF Operations
  <2>2. /\ ToolCall = None /\ UNCHANGED <<turns, answer, receipts, left>>
        /\ ToolCall' = [tool |-> tool, op |-> op, conv |-> conv, key |-> key,
                        turn |-> 0, seen |-> Visible]
    BY <1>2, <1>3, <2>1
  <2>. QED
    BY <2>1, <2>2, ToolBegin
<1>4. ASSUME NEW r \in receipts, Begin(r.tool, "observe", r.conv, r.key, r.turn)
      PROVE  Tool!Begin
  <2>1. r.tool \in WakeTools /\ "observe" \in Operations
    BY DEF BridgesInvariant, TypeOK, Receipts, Tools, Operations
  <2>2. /\ ToolCall = None /\ UNCHANGED <<turns, answer, receipts, left>>
        /\ ToolCall' = [tool |-> r.tool, op |-> "observe", conv |-> r.conv, key |-> r.key,
                        turn |-> r.turn, seen |-> Visible]
    BY <1>2, <1>4, <2>1
  <2>. QED
    BY <2>2, ToolBegin
<1>. QED
  BY <1>3, <1>4 DEF Begins

LEMMA TakeImplements ==
  ASSUME BridgesInvariant, call # None,
         NEW conv \in Conversations, NEW state \in {"hidden", "running"},
         conv = call.conv \/ call.tool \in Cli, Take(conv, state)
  PROVE  Tool!Accept
<1>1. /\ call \in Calls /\ wire \in Wires
      /\ wire.asked \in Requests(call.tool, call.op) \cup {None}
  BY DEF BridgesInvariant, TypeOK, ScriptIsFollowed
<1>2. /\ wire.asked \in Starting /\ wire.turn = 0 /\ call' = call
      /\ turns' = Append(turns, Turn(conv, call.key, state))
      /\ UNCHANGED <<answer, receipts, left>>
  BY DEF Take
<1>3. call.op = "submit"
  <2>1. call.tool \in WakeTools /\ call.op \in Operations
    BY <1>1 DEF Calls, Tools
  <2>2. wire.asked \in Requests(call.tool, call.op)
    BY <1>1, <1>2, NoneAssumption
  <2>. QED
    BY <1>2, <2>1, <2>2, RequestsOf
<1>4. wire'.turn = Len(turns) + 1
  BY <1>1 DEF Take, Wires
<1>5. ToolCall = [call EXCEPT !.turn = wire.turn]
      /\ ToolCall' = [call EXCEPT !.turn = wire'.turn]
  BY <1>2, <1>3 DEF ToolCall
<1>6. ToolCall' = [ToolCall EXCEPT !.turn = Len(turns) + 1]
  BY <1>1, <1>4, <1>5 DEF Calls
<1>. QED
  BY <1>2, <1>3, <1>6, ToolCallOf, ToolAccept

\* Every step is one of PlannerTool, or leaves it alone.
LEMMA StepImplements ==
  ASSUME BridgesInvariant, [Next]_vars
  PROVE  [Tool!ToolNext]_(Tool!toolVars)
<1>1. CASE Begins
  BY <1>1, BeginsImplements DEF Tool!ToolNext
<1>2. CASE WireStep
  <2>1. wire'.turn = wire.turn /\ UNCHANGED <<turns, call, answer, receipts, left>>
    BY <1>2, WireStepKeeps
  <2>2. ToolCall' = ToolCall
    BY <2>1 DEF ToolCall
  <2>. QED
    BY <2>1, <2>2, ToolSteps
<1>3. CASE Return
  BY <1>3, ReturnImplements DEF Tool!ToolNext
<1>4. CASE Crash
  <2>1. /\ call # None /\ call' = None /\ UNCHANGED <<turns, answer, receipts>>
        /\ left' = left \cup Pending
    BY <1>4 DEF Crash
  <2>2. ToolCall # None /\ ToolCall' = None
    BY <2>1, ToolCallOf DEF ToolCall
  <2>3. \/ left' = left
        \/ /\ ToolCall.op = "submit" /\ ToolCall.turn = 0
           /\ left' = left \cup {[conv |-> ToolCall.conv, key |-> ToolCall.key]}
    <3>1. CASE Pending = {}
      BY <2>1, <3>1
    <3>2. CASE Pending # {}
      BY <2>1, <3>2, PendingTyping, ToolCallOf
    <3>. QED
      BY <3>1, <3>2
  <2>. QED
    BY <2>1, <2>2, <2>3, ToolAbandon DEF Tool!ToolNext
<1>5. CASE call # None /\ (TakeUp \/ TakeUpUnseen \/ TakeUpElsewhere)
  BY <1>5, TakenUp, TakeImplements DEF Tool!ToolNext
<1>6. CASE \/ \E s \in left : LateStart(s)
           \/ \E t \in DOMAIN turns : Proceed(t)
           \/ \E conv \in Registered : UserTurn(conv)
  <2>1. UNCHANGED <<call, wire, answer, receipts>>
    BY <1>6 DEF LateStart, Proceed, UserTurn
  <2>2. UNCHANGED <<ToolCall, answer, receipts>>
    BY <2>1 DEF ToolCall
  <2>. QED
    BY <1>6, <2>2, ToolTurns DEF Tool!ToolNext
<1>7. CASE UNCHANGED vars
  <2>1. UNCHANGED <<turns, ToolCall, answer, receipts, left>>
    BY <1>7 DEF vars, ToolCall
  <2>. QED
    BY <2>1, ToolSteps
<1>. QED
  BY <1>1, <1>2, <1>3, <1>4, <1>5, <1>6, <1>7, NextCases

---------------------------------------------------------------------------
(* The theorems.                                                           *)

\* What a call says of a turn is true whenever it says it, and a submission starts
\* at most one, for the call that asked for it: the inductive invariant of the four
\* adapters and of list_models (codex.py, opencode.py, claude.py, deepseek_harness.py).
THEOREM BridgesSafety == Spec => []BridgesInvariant
<1>1. Init => BridgesInvariant
  BY InitBridges
<1>2. BridgesInvariant /\ [Next]_vars => BridgesInvariant'
  BY StepBridges
<1>. QED
  BY <1>1, <1>2, PTL DEF Spec

\* The adapters and list_models implement PlannerTool: a submission starts at most one
\* turn, a receipt is for a turn of the registered conversation, a turn said to be over
\* is over, and reconcile finds the youngest turn of the key that was there to see
\* (PlannerWakeAdapter in planner_wake/base.py).
THEOREM BridgesRefine == Spec => KeepsThePromise
<1>1. Init => Tool!ToolInit
  <2>. SUFFICES ASSUME Init PROVE Tool!ToolInit
    OBVIOUS
  <2>1. ToolCall = None
    BY DEF Init, ToolCall
  <2>. QED
    BY <2>1, ToolSteps DEF Init
<1>2. BridgesInvariant /\ [Next]_vars => [Tool!ToolNext]_(Tool!toolVars)
  BY StepImplements
<1>. QED
  BY <1>1, <1>2, BridgesSafety, PTL DEF Spec, KeepsThePromise, Tool!ToolSpec

=============================================================================
