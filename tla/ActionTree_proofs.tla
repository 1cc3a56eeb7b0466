------------------------- MODULE ActionTree_proofs --------------------------
(***************************************************************************)
(* For any tree of actions: polling keeps every action in its place, the   *)
(* failure of one stays in its branch, nothing runs after the answer, the  *)
(* answer is made from replies that were meant for it, and the worker is   *)
(* the job of ComputeJob.                                                  *)
(*                                                                         *)
(* For what such actions compute over time, in Schedules: whatever the     *)
(* links, bookings and requests are, the two rounds keep to their types,   *)
(* what a time point takes is given back, series and graphs are exact, and *)
(* a request of one sub-path does not fail when one of its routes fits.    *)
(***************************************************************************)
EXTENDS ActionTree, Schedules, EventList_proofs, FiniteSetTheorems

States == {"Idle"} \cup Working \cup Terminal

Below(a) == {b \in Actions : a \in Ancestors[b]}

-----------------------------------------------------------------------------
\* The tree.  Of the actions with some property there is one with none of them above it.
LEMMA TopMost ==
  ASSUME NEW Bad \in SUBSET Actions, Bad # {}
  PROVE  \E a \in Bad : \A b \in Bad : b \notin Ancestors[a] \/ ~(Ancestors[b] \subseteq Ancestors[a])
<1> DEFINE T == {Cardinality(Ancestors[a]) : a \in Bad}
<1>1. \A a \in Actions : IsFiniteSet(Ancestors[a]) /\ Cardinality(Ancestors[a]) \in Nat
  BY TreeAssumption, FS_CardinalityType
<1>2. T \in SUBSET Nat /\ T # {}
  BY <1>1
<1> HIDE DEF T
<1>3. PICK x \in T : \A y \in T : x <= y
  BY <1>2, LeastNumber
<1>4. PICK a \in Bad : x = Cardinality(Ancestors[a])
  BY <1>3 DEF T
<1>5. ASSUME NEW b \in Bad, b \in Ancestors[a], Ancestors[b] \subseteq Ancestors[a]
      PROVE  FALSE
  <2>1. b \notin Ancestors[b]
    BY TreeAssumption
  <2>2. Cardinality(Ancestors[b]) < Cardinality(Ancestors[a])
    BY <1>1, <1>5, <2>1, FS_Subset
  <2>3. Cardinality(Ancestors[a]) <= Cardinality(Ancestors[b])
    BY <1>3, <1>4 DEF T
  <2>4. QED
    BY <1>1, <2>2, <2>3
<1>6. QED
  BY <1>5

LEMMA Parents ==
  ASSUME NEW a \in Actions, Ancestors[a] # {}
  PROVE  \E p \in Actions : a \in ChildrenOf(p) /\ Ancestors[a] = Ancestors[p] \cup {p}
BY TreeAssumption

LEMMA ChildFacts ==
  ASSUME NEW p \in Actions
  PROVE  /\ ChildrenOf(p) \subseteq Actions /\ ToSet(Children[p]) = ChildrenOf(p)
         /\ Children[p] \in Seq(Actions) /\ Once(Children[p])
         /\ \A a \in ChildrenOf(p) : Ancestors[a] = Ancestors[p] \cup {p} /\ a # p
         /\ \A q \in Actions : q # p => ChildrenOf(q) \cap ChildrenOf(p) = {}
<1>1. Children[p] \in Seq(Actions)
  BY TreeAssumption
<1>2. ChildrenOf(p) \subseteq Actions /\ ToSet(Children[p]) = ChildrenOf(p)
  BY <1>1 DEF ChildrenOf, ToSet
<1>3. Once(Children[p])
  BY TreeAssumption DEF Once
<1>4. \A a \in ChildrenOf(p) : Ancestors[a] = Ancestors[p] \cup {p} /\ a # p
  BY <1>2, TreeAssumption
<1>5. \A q \in Actions : q # p => ChildrenOf(q) \cap ChildrenOf(p) = {}
  BY TreeAssumption DEF ChildrenOf
<1>6. QED
  BY <1>1, <1>2, <1>3, <1>4, <1>5

\* The ancestors of an ancestor are ancestors, two of them are one above the other, and
\* from each a child leads down.
LEMMA TreeFacts ==
  ASSUME NEW a \in Actions
  PROVE  /\ \A b \in Ancestors[a] : Ancestors[b] \subseteq Ancestors[a]
         /\ \A b, c \in Ancestors[a] : b = c \/ b \in Ancestors[c] \/ c \in Ancestors[b]
         /\ \A b \in Ancestors[a] : \E c \in ChildrenOf(b) : c = a \/ c \in Ancestors[a]
<1> DEFINE Good(x) ==
      /\ \A b \in Ancestors[x] : Ancestors[b] \subseteq Ancestors[x]
      /\ \A b, c \in Ancestors[x] : b = c \/ b \in Ancestors[c] \/ c \in Ancestors[b]
      /\ \A b \in Ancestors[x] : \E c \in ChildrenOf(b) : c = x \/ c \in Ancestors[x]
           Bad == {x \in Actions : ~Good(x)}
<1>1. ASSUME NEW x \in Actions, NEW p \in Actions,
             x \in ChildrenOf(p), Ancestors[x] = Ancestors[p] \cup {p}, Good(p)
      PROVE  Good(x)
  <2>1. \A b \in Ancestors[x] : Ancestors[b] \subseteq Ancestors[x]
    BY <1>1
  <2>2. \A b, c \in Ancestors[x] : b = c \/ b \in Ancestors[c] \/ c \in Ancestors[b]
    BY <1>1
  <2>3. \A b \in Ancestors[x] : \E c \in ChildrenOf(b) : c = x \/ c \in Ancestors[x]
    BY <1>1
  <2>4. QED
    BY <2>1, <2>2, <2>3
<1>2. \A x \in Actions : Ancestors[x] = {} => Good(x)
  OBVIOUS
<1> HIDE DEF Good
<1>3. Bad = {}
  <2>1. ASSUME Bad # {}
        PROVE  FALSE
    <3>1. PICK x \in Bad : \A b \in Bad : b \notin Ancestors[x] \/ ~(Ancestors[b] \subseteq Ancestors[x])
      BY <2>1, TopMost
    <3>2. Ancestors[x] # {}
      BY <1>2
    <3>3. PICK p \in Actions : x \in ChildrenOf(p) /\ Ancestors[x] = Ancestors[p] \cup {p}
      BY <3>2, Parents
    <3>4. p \notin Bad
      BY <3>1, <3>3
    <3>5. QED
      BY <1>1, <3>3, <3>4
  <2>2. QED
    BY <2>1
<1>4. Good(a)
  BY <1>3
<1>5. QED
  BY <1>4 DEF Good

LEMMA BelowFacts ==
  ASSUME NEW a \in Actions
  PROVE  /\ a \notin Below(a) /\ ChildrenOf(a) \subseteq Below(a)
         /\ \A b \in Below(a) : Below(b) \subseteq Below(a)
         /\ \A b \in Below(a) : \E c \in ChildrenOf(a) : b = c \/ b \in Below(c)
         /\ \A b \in Actions : Below(a) \cap Below(b) # {} =>
              a = b \/ a \in Below(b) \/ b \in Below(a)
<1>1. a \notin Below(a)
  BY TreeAssumption DEF Below
<1>2. ChildrenOf(a) \subseteq Below(a)
  BY ChildFacts DEF Below
<1>3. \A b \in Below(a) : Below(b) \subseteq Below(a)
  BY TreeFacts DEF Below
<1>4. \A b \in Below(a) : \E c \in ChildrenOf(a) : b = c \/ b \in Below(c)
  BY TreeFacts DEF Below
<1>5. \A b \in Actions : Below(a) \cap Below(b) # {} => a = b \/ a \in Below(b) \/ b \in Below(a)
  BY TreeFacts DEF Below
<1>6. QED
  BY <1>1, <1>2, <1>3, <1>4, <1>5

\* The children of a judge have nothing below them.
LEMMA JudgeFacts ==
  ASSUME NEW j \in Judges
  PROVE  j \in Actions /\ \A c \in ChildrenOf(j) : Below(c) = {}
<1>1. j \in Actions /\ \A c \in ChildrenOf(j) : Children[c] = <<>>
  BY WorkflowAssumption
<1>2. ASSUME NEW c \in ChildrenOf(j)
      PROVE  Below(c) = {}
  <2>1. c \in Actions /\ ChildrenOf(c) = {}
    BY <1>1, ChildFacts DEF ChildrenOf
  <2>2. QED
    BY <2>1, BelowFacts
<1>3. QED
  BY <1>1, <1>2

-----------------------------------------------------------------------------
\* What CleanUp does to the states.
LEMMA CleanUpFacts ==
  ASSUME NEW st \in [Actions -> States], NEW a \in Actions, NEW new, new = CleanUp(st, a),
         \A p \in Below(a) : st[p] \in Ended => \A b \in Below(p) : st[b] \in Terminal
  PROVE  /\ new \in [Actions -> States]
         /\ \A b \in Actions \ Below(a) : b # a => new[b] = st[b]
         /\ \A b \in Below(a) : new[b] \in Terminal
         /\ \A b \in Below(a) : new[b] # st[b] => st[b] \notin Ended /\ new[b] # "Finished"
         /\ new[a] # st[a] => new[a] = "Failed" /\ \E c \in Below(a) : st[c] = "Failed"
<1> DEFINE low == CleanedBelow(st, a)
           spoilt == {b \in low \cup {a} : \E c \in low : b \in Ancestors[c] /\ st[c] = "Failed"}
<1>1. low \subseteq Below(a) /\ a \notin Below(a)
  BY BelowFacts DEF CleanedBelow, Below
<1>2. new = [b \in Actions |->
              IF b \in low \cup {a} /\ (b = a \/ st[b] \notin Ended)
              THEN IF b \in spoilt THEN "Failed" ELSE IF b = a THEN st[a] ELSE "Cancelled"
              ELSE st[b]]
  BY DEF CleanUp
<1>3. \A b \in Below(a) : b \in low \/ st[b] \in Terminal
  <2>1. ASSUME NEW b \in Below(a), b \notin low
        PROVE  st[b] \in Terminal
    <3>1. PICK p \in Ancestors[b] : a \in Ancestors[p] /\ st[p] \in Ended
      BY <2>1 DEF CleanedBelow, Below
    <3>2. p \in Below(a) /\ b \in Below(p)
      BY <2>1, <3>1, TreeAssumption DEF Below
    <3>3. QED
      BY <3>1, <3>2
  <2>2. QED
    BY <2>1
<1> HIDE DEF low
<1>4. spoilt \subseteq low \cup {a} /\ (a \in spoilt => \E c \in low : st[c] = "Failed")
  OBVIOUS
<1> HIDE DEF spoilt
<1>5. \A b \in Actions :
        /\ b \notin low \cup {a} => new[b] = st[b]
        /\ b # a /\ st[b] \in Ended => new[b] = st[b]
        /\ b \in low /\ b # a /\ st[b] \notin Ended => new[b] \in {"Failed", "Cancelled"}
        /\ b = a => new[b] = IF b \in spoilt THEN "Failed" ELSE st[b]
  BY <1>2
<1>6. new \in [Actions -> States]
  <2>1. \A b \in Actions : new[b] \in States
    <3>1. {"Failed", "Cancelled"} \subseteq States
      BY DEF States, Terminal, Ended
    <3>2. \A b \in Actions : st[b] \in States
      OBVIOUS
    <3>3. QED
      BY <1>4, <1>5, <3>1, <3>2
  <2>2. DOMAIN new = Actions /\ new = [b \in DOMAIN new |-> new[b]]
    BY <1>2
  <2>3. QED
    BY <2>1, <2>2
<1>7. \A b \in Below(a) : new[b] \in Terminal
  BY <1>1, <1>3, <1>5 DEF Terminal, Ended, Below
<1>8. \A b \in Below(a) : new[b] # st[b] => st[b] \notin Ended /\ new[b] # "Finished"
  BY <1>1, <1>5 DEF Ended, Below
<1>9. new[a] # st[a] => new[a] = "Failed" /\ \E c \in Below(a) : st[c] = "Failed"
  BY <1>1, <1>4, <1>5
<1>10. QED
  BY <1>1, <1>5, <1>6, <1>7, <1>8, <1>9

-----------------------------------------------------------------------------
\* The turns of the event loop that run an action.
Turn(a) ==
  /\ thread = "running"
  /\ NewNices # <<>>
  /\ a = Head(NewNices)
  /\ message' = message

Still == UNCHANGED <<expecting, asked, pending>>

HasReply(a) == message[a].result \notin {"error", "exception"} /\ a \notin expecting

\* What an action schedules before it polls its children.
Starts(a, scheduled) ==
  \/ /\ scheduled = Children[a]
     /\ \/ state[a] = "Idle" /\ Topic[a] = "none"
        \/ state[a] = "WaitingMessages" /\ HasReply(a)
  \/ scheduled = <<>> /\ state[a] = "WaitingChildren"

Throws(a) ==
  /\ \/ state[a] = "Idle"
     \/ state[a] = "WaitingMessages" /\ message[a].result \in {"error", "exception"}
  /\ Throw(a)
  /\ Still

Asks(a) ==
  /\ state[a] = "Idle"
  /\ Topic[a] # "none"
  /\ expecting' = expecting \cup {a}
  /\ asked' = asked \cup {a}
  /\ pending' = pending \cup {a}
  /\ Waiting(a, SetState(a, "WaitingMessages"), <<>>)

Waits(a) ==
  /\ state[a] = "WaitingMessages"
  /\ Waiting(a, state, <<>>)
  /\ Still

Polls(a, scheduled) ==
  /\ Starts(a, scheduled)
  /\ Waiting(a, SetState(a, "WaitingChildren"), scheduled)
  /\ Still

Judged(a, scheduled) ==
  /\ Condemned(a)
  /\ Starts(a, scheduled)
  /\ Waiting(a, [CancelAll(a) EXCEPT ![a] = "WaitingChildren"], scheduled)
  /\ Still

Finishes(a) ==
  /\ \E scheduled : Starts(a, scheduled)
  /\ AllEnded(a)
  /\ Finish(a, CleanUp(SetState(a, "Finished"), a))
  /\ Still

Drops(a) == Drop(a) /\ Still

\* An action without children that is done at once does what the others do in the end.
LEMMA ChildlessFinish ==
  ASSUME TypeOK, NEW a \in Actions, Children[a] = <<>>
  PROVE  CleanUp(SetState(a, "Finished"), a) = SetState(a, "Finished") /\ AllEnded(a)
<1> DEFINE st == SetState(a, "Finished")
           new == CleanUp(st, a)
<1>1. ChildrenOf(a) = {}
  BY DEF ChildrenOf
<1>2. Below(a) = {}
  BY <1>1, BelowFacts
<1>3. st \in [Actions -> States]
  BY DEF TypeOK, SetState, States, Terminal, Ended
<1> HIDE DEF st
<1>4. /\ new \in [Actions -> States]
      /\ \A b \in Actions \ Below(a) : b # a => new[b] = st[b]
      /\ new[a] # st[a] => \E c \in Below(a) : st[c] = "Failed"
  <2>1. \A x : x = CleanUp(st, a) =>
          /\ x \in [Actions -> States]
          /\ \A b \in Actions \ Below(a) : b # a => x[b] = st[b]
          /\ x[a] # st[a] => \E c \in Below(a) : st[c] = "Failed"
    BY <1>2, <1>3, CleanUpFacts
  <2>2. QED
    BY <2>1
<1> HIDE DEF new
<1>5. new = st
  BY <1>2, <1>3, <1>4
<1>6. QED
  BY <1>1, <1>5 DEF new, st, AllEnded

LEMMA TurnCases ==
  ASSUME TypeOK, RunAction
  PROVE  \E a \in Actions :
           /\ Turn(a)
           /\ \/ Throws(a) \/ Asks(a) \/ Waits(a) \/ Finishes(a) \/ Drops(a)
              \/ \E scheduled : Polls(a, scheduled) \/ Judged(a, scheduled)
<1> DEFINE a == Head(NewNices)
<1>1. /\ thread = "running" /\ NewNices # <<>>
      /\ Process(a) \/ ProcessMessages(a) \/ ProcessChildren(a) \/ Drop(a)
  BY DEF RunAction
<1>2. a \in Actions
  <2>1. NewNices \in Seq(Actions)
    <3>1. priorities \in Seq(Actions) /\ nices \in Seq(Actions)
      BY DEF TypeOK
    <3>2. priorities # <<>> => Head(priorities) \in Actions
      BY <3>1, HeadTailProperties
    <3>3. QED
      BY <3>1, <3>2, AppendProperties DEF NewNices
  <2>2. QED
    BY <1>1, <2>1, HeadTailProperties
<1> HIDE DEF a
<1>3. message' = message
  BY <1>1 DEF Process, ProcessMessages, ProcessChildren, Drop
<1>4. Turn(a)
  BY <1>1, <1>3 DEF Turn, a
<1> DEFINE Case == \/ Throws(a) \/ Asks(a) \/ Waits(a) \/ Finishes(a) \/ Drops(a)
                   \/ \E scheduled : Polls(a, scheduled) \/ Judged(a, scheduled)
<1>5. ASSUME NEW scheduled, Starts(a, scheduled), PollChildren(a, scheduled), Still
      PROVE  Case
  BY <1>5 DEF PollChildren, Polls, Judged, Finishes
<1>6. CASE Process(a)
  <2>1. ASSUME Throw(a), Still
        PROVE  Case
    BY <1>6, <2>1 DEF Process, Throws
  <2>2. ASSUME Topic[a] # "none", Waiting(a, SetState(a, "WaitingMessages"), <<>>),
               expecting' = expecting \cup {a}, asked' = asked \cup {a}, pending' = pending \cup {a}
        PROVE  Case
    BY <1>6, <2>2 DEF Process, Asks
  <2>3. ASSUME Topic[a] = "none", Waiting(a, SetState(a, "WaitingChildren"), Children[a]), Still
        PROVE  Case
    BY <1>6, <2>3 DEF Process, Polls, Starts
  <2>4. ASSUME Topic[a] = "none", Children[a] = <<>>, Finish(a, SetState(a, "Finished")), Still
        PROVE  Case
    <3>1. Finish(a, CleanUp(SetState(a, "Finished"), a)) /\ AllEnded(a)
      BY <1>2, <2>4, ChildlessFinish
    <3>2. Starts(a, Children[a])
      BY <1>6, <2>4 DEF Process, Starts
    <3>3. QED
      BY <2>4, <3>1, <3>2 DEF Finishes
  <2>5. Case
    BY <1>6, <2>1, <2>2, <2>3, <2>4 DEF Process, Still
  <2>6. QED
    BY <1>2, <1>4, <2>5
<1>7. CASE ProcessMessages(a)
  <2>1. state[a] = "WaitingMessages" /\ Still
    BY <1>7 DEF ProcessMessages, Still
  <2>2. Case
    BY <1>5, <1>7, <2>1 DEF ProcessMessages, Throws, Waits, Starts, HasReply
  <2>3. QED
    BY <1>2, <1>4, <2>2
<1>8. CASE ProcessChildren(a)
  <2>1. Case
    BY <1>5, <1>8 DEF ProcessChildren, Starts, Still
  <2>2. QED
    BY <1>2, <1>4, <2>1
<1>9. CASE Drop(a)
  BY <1>2, <1>4, <1>9 DEF Drop, Drops, Still
<1>10. QED
  BY <1>1, <1>6, <1>7, <1>8, <1>9

-----------------------------------------------------------------------------
\* Below an action that has come to its end everything has.
TermInv == \A a \in Actions : state[a] \in Terminal => \A b \in Below(a) : state[b] \in Terminal

\* Nothing has happened yet below an action that has not scheduled its children.
IdleInv == \A a \in Actions : state[a] \in {"Idle", "WaitingMessages"} =>
             \A b \in Below(a) : state[b] = "Idle"

\* How a turn of a changes the states of the others.
Moved(a) ==
  /\ state' \in [Actions -> States]
  /\ \A b \in Actions : b # a =>
       state'[b] = state[b] \/ (b \in Below(a) /\ state'[b] \in {"Failed", "Cancelled"})
  /\ state'[a] \in Terminal => \A b \in Below(a) : state'[b] \in Terminal
  /\ state'[a] \notin Terminal => \A b \in Actions : b # a =>
       state'[b] = state[b] \/ (b \in ChildrenOf(a) /\ Below(b) = {} /\ state'[b] = "Cancelled")

LEMMA CleanUpMoves ==
  ASSUME TypeOK, TermInv, NEW a \in Actions, NEW s \in Terminal,
         state' = CleanUp(SetState(a, s), a)
  PROVE  /\ Moved(a)
         /\ state'[a] \in {s, "Failed"}
         /\ state'[a] # s => \E b \in Below(a) : state[b] = "Failed"
         /\ \A b \in Below(a) : state'[b] # state[b] => state[b] \notin Ended /\ state'[b] # "Finished"
<1> DEFINE st == SetState(a, s)
<1>1. state \in [Actions -> States] /\ s \in States
  BY DEF TypeOK, States, Terminal
<1>2. /\ st \in [Actions -> States] /\ st[a] = s
      /\ \A b \in Actions : b # a => st[b] = state[b]
  BY <1>1 DEF SetState
<1>3. a \notin Below(a) /\ \A b \in Below(a) : Below(b) \subseteq Below(a)
  BY BelowFacts
<1>4. Below(a) \subseteq Actions /\ Ended \subseteq Terminal
  BY DEF Below, Terminal
<1> HIDE DEF st
<1>5. \A p \in Below(a) : st[p] \in Ended => \A b \in Below(p) : st[b] \in Terminal
  <2>1. ASSUME NEW p \in Below(a), st[p] \in Ended, NEW b \in Below(p)
        PROVE  st[b] \in Terminal
    <3>1. p # a /\ b # a /\ b \in Below(a) /\ state[p] \in Terminal
      BY <1>2, <1>3, <1>4, <2>1
    <3>2. state[b] \in Terminal
      BY <1>4, <2>1, <3>1 DEF TermInv
    <3>3. QED
      BY <1>2, <1>4, <3>1, <3>2
  <2>2. QED
    BY <2>1
<1>6. state' = CleanUp(st, a)
  BY DEF st
<1>7. /\ state' \in [Actions -> States]
      /\ \A b \in Actions \ Below(a) : b # a => state'[b] = st[b]
      /\ \A b \in Below(a) : state'[b] \in Terminal
      /\ \A b \in Below(a) : state'[b] # st[b] => st[b] \notin Ended /\ state'[b] # "Finished"
      /\ state'[a] # st[a] => state'[a] = "Failed" /\ \E c \in Below(a) : st[c] = "Failed"
  BY <1>2, <1>5, <1>6, CleanUpFacts
<1>8. \A b \in Below(a) : state'[b] # state[b] => state[b] \notin Ended /\ state'[b] # "Finished"
  BY <1>2, <1>3, <1>4, <1>7
<1>9. state'[a] \in {s, "Failed"} /\ (state'[a] # s => \E b \in Below(a) : state[b] = "Failed")
  BY <1>2, <1>3, <1>4, <1>7
<1>10. state'[a] \in Terminal
  BY <1>9 DEF Terminal, Ended
<1>11. \A b \in Actions : b # a =>
         state'[b] = state[b] \/ (b \in Below(a) /\ state'[b] \in {"Failed", "Cancelled"})
  <2>1. ASSUME NEW b \in Actions, b # a, state'[b] # state[b]
        PROVE  b \in Below(a) /\ state'[b] \in {"Failed", "Cancelled"}
    <3>1. b \in Below(a)
      BY <1>2, <1>7, <2>1
    <3>2. state'[b] \in Terminal /\ state'[b] # "Finished"
      BY <1>7, <1>8, <2>1, <3>1
    <3>3. QED
      BY <3>1, <3>2 DEF Terminal, Ended
  <2>2. QED
    BY <2>1
<1>12. Moved(a)
  BY <1>7, <1>10, <1>11 DEF Moved
<1>13. QED
  BY <1>8, <1>9, <1>12

\* The states after each kind of turn.
LEMMA ThrowsMoves ==
  ASSUME TypeOK, TermInv, NEW a \in Actions, Throws(a)
  PROVE  Moved(a) /\ state'[a] = "Failed"
<1>1. state' = CleanUp(SetState(a, "Failed"), a) /\ "Failed" \in Terminal
  BY DEF Throws, Throw, Terminal, Ended
<1>2. QED
  BY <1>1, CleanUpMoves

LEMMA WaitingMoves ==
  ASSUME TypeOK, NEW a \in Actions, NEW s \in Working, state' = SetState(a, s)
  PROVE  Moved(a) /\ state'[a] = s /\ \A b \in Actions : b # a => state'[b] = state[b]
<1>1. state \in [Actions -> States] /\ s \in States /\ s \notin Terminal
  BY DEF TypeOK, States, Terminal, Working, Ended
<1>2. /\ state' \in [Actions -> States] /\ state'[a] = s
      /\ \A b \in Actions : b # a => state'[b] = state[b]
  BY <1>1 DEF SetState
<1>3. state'[a] \notin Terminal
  BY <1>1, <1>2
<1>4. Moved(a)
  BY <1>2, <1>3 DEF Moved
<1>5. QED
  BY <1>2, <1>4

LEMMA JudgedMoves ==
  ASSUME TypeOK, NEW a \in Actions, NEW scheduled, Judged(a, scheduled)
  PROVE  /\ Moved(a) /\ state'[a] = "WaitingChildren" /\ a \in Judges
         /\ \A b \in Actions : b # a =>
              state'[b] = state[b] \/ (b \in ChildrenOf(a) /\ state'[b] = "Cancelled")
<1>1. /\ state' = [CancelAll(a) EXCEPT ![a] = "WaitingChildren"] /\ a \in Judges
      /\ state \in [Actions -> States]
  BY DEF TypeOK, Judged, Waiting, Condemned, States
<1>2. "WaitingChildren" \in States \ Terminal /\ "Cancelled" \in States
  BY DEF States, Terminal, Working, Ended
<1>3. /\ DOMAIN state' = Actions /\ state' = [b \in DOMAIN state' |-> state'[b]]
      /\ state'[a] = "WaitingChildren"
      /\ \A b \in Actions : b # a => state'[b] = CancelAll(a)[b]
  BY <1>1 DEF CancelAll
<1>4. \A b \in Actions : b # a =>
        state'[b] = state[b] \/ (b \in ChildrenOf(a) /\ state'[b] = "Cancelled")
  BY <1>3 DEF CancelAll
<1>5. state' \in [Actions -> States]
  <2>1. \A b \in Actions : state'[b] \in States
    BY <1>1, <1>2, <1>3, <1>4
  <2>2. QED
    BY <1>3, <2>1
<1>6. \A b \in ChildrenOf(a) : Below(b) = {} /\ b \in Below(a)
  <2>1. \A b \in ChildrenOf(a) : Below(b) = {}
    BY <1>1, JudgeFacts
  <2>2. QED
    BY <2>1, BelowFacts
<1>7. state'[a] \notin Terminal
  BY <1>2, <1>3
<1>8. Moved(a)
  BY <1>4, <1>5, <1>6, <1>7 DEF Moved
<1>9. QED
  BY <1>1, <1>3, <1>4, <1>8

LEMMA FinishesMoves ==
  ASSUME TypeOK, TermInv, NEW a \in Actions, Finishes(a)
  PROVE  /\ Moved(a) /\ state'[a] \in {"Finished", "Failed"}
         /\ state'[a] # "Finished" => \E b \in Below(a) : state[b] = "Failed"
         /\ \A b \in Below(a) : state[b] \in Terminal
         /\ \A b \in Below(a) : state'[b] # state[b] => state[b] = "Cancelled" /\ state'[b] # "Finished"
<1>1. state' = CleanUp(SetState(a, "Finished"), a) /\ "Finished" \in Terminal /\ AllEnded(a)
  BY DEF Finishes, Finish, Terminal, Ended
<1>2. /\ Moved(a) /\ state'[a] \in {"Finished", "Failed"}
      /\ state'[a] # "Finished" => \E b \in Below(a) : state[b] = "Failed"
      /\ \A b \in Below(a) : state'[b] # state[b] => state[b] \notin Ended /\ state'[b] # "Finished"
  BY <1>1, CleanUpMoves
<1>3. \A b \in Below(a) : state[b] \in Terminal
  BY <1>1, BelowFacts, ChildFacts DEF AllEnded, TermInv
<1>4. QED
  BY <1>2, <1>3 DEF Terminal, Ended

LEMMA DropsMoves ==
  ASSUME TypeOK, TermInv, NEW a \in Actions, Drops(a)
  PROVE  /\ Moved(a) /\ {state[a], state'[a]} \subseteq {"Failed", "Cancelled"}
         /\ \A b \in Below(a) : state[b] \in Terminal
         /\ \A b \in Below(a) : state'[b] # state[b] => state[b] = "Cancelled" /\ state'[b] # "Finished"
<1>1. state[a] \in {"Failed", "Cancelled"} /\ state' = CleanUp(state, a)
  BY DEF Drops, Drop
<1>2. state = SetState(a, state[a]) /\ state[a] \in Terminal
  BY <1>1 DEF TypeOK, SetState, Terminal, Ended
<1>3. /\ Moved(a) /\ state'[a] \in {state[a], "Failed"}
      /\ \A b \in Below(a) : state'[b] # state[b] => state[b] \notin Ended /\ state'[b] # "Finished"
  <2> DEFINE s == state[a]
  <2>1. s \in Terminal /\ state' = CleanUp(SetState(a, s), a)
    BY <1>1, <1>2
  <2> HIDE DEF s
  <2>2. /\ Moved(a) /\ state'[a] \in {s, "Failed"}
        /\ \A b \in Below(a) : state'[b] # state[b] => state[b] \notin Ended /\ state'[b] # "Finished"
    BY <2>1, CleanUpMoves
  <2>3. QED
    BY <2>2 DEF s
<1>4. \A b \in Below(a) : state[b] \in Terminal
  BY <1>2 DEF TermInv
<1>5. QED
  BY <1>1, <1>3, <1>4 DEF Terminal, Ended

LEMMA WaitsMoves ==
  ASSUME TypeOK, NEW a \in Actions, Waits(a)
  PROVE  Moved(a) /\ state' = state /\ state[a] = "WaitingMessages"
<1>1. state' = state /\ state[a] = "WaitingMessages"
  BY DEF Waits, Waiting
<1>2. state \in [Actions -> States] /\ state[a] \notin Terminal
  BY <1>1 DEF TypeOK, States, Terminal, Ended
<1>3. state' \in [Actions -> States] /\ state'[a] \notin Terminal
  BY <1>1, <1>2
<1>4. Moved(a)
  BY <1>1, <1>3 DEF Moved
<1>5. QED
  BY <1>1, <1>4

\* What all turns have in common.
LEMMA TurnMoves ==
  ASSUME TypeOK, TermInv, NEW a \in Actions,
         \/ Throws(a) \/ Asks(a) \/ Waits(a) \/ Finishes(a) \/ Drops(a)
         \/ \E scheduled : Polls(a, scheduled) \/ Judged(a, scheduled)
  PROVE  /\ Moved(a)
         /\ state[a] \in Terminal => state'[a] \in Terminal
         /\ state[a] = "WaitingChildren" => state'[a] \in {"WaitingChildren"} \cup Terminal
         /\ state'[a] # "Idle"
         /\ state'[a] = "WaitingMessages" => state[a] \in {"Idle", "WaitingMessages"} /\
              \A b \in Actions : b # a => state'[b] = state[b]
<1>1. {"Failed", "Finished", "Cancelled"} = Terminal
  BY DEF Terminal, Ended
<1>2. CASE Throws(a)
  BY <1>1, <1>2, ThrowsMoves
<1>3. CASE Asks(a)
  <2>1. state' = SetState(a, "WaitingMessages") /\ "WaitingMessages" \in Working /\ state[a] = "Idle"
    BY <1>3 DEF Asks, Waiting, Working
  <2>2. QED
    BY <1>1, <2>1, WaitingMoves
<1>4. CASE Waits(a)
  BY <1>1, <1>4, WaitsMoves
<1>5. CASE Finishes(a)
  BY <1>1, <1>5, FinishesMoves
<1>6. CASE Drops(a)
  BY <1>1, <1>6, DropsMoves
<1>7. ASSUME NEW scheduled, Starts(a, scheduled)
      PROVE  state[a] \notin Terminal
  BY <1>1, <1>7 DEF Starts
<1>8. ASSUME NEW scheduled, Polls(a, scheduled)
      PROVE  Moved(a) /\ state'[a] = "WaitingChildren" /\ state[a] \notin Terminal
  <2>1. state' = SetState(a, "WaitingChildren") /\ "WaitingChildren" \in Working
    BY <1>8 DEF Polls, Waiting, Working
  <2>2. QED
    BY <1>7, <1>8, <2>1, WaitingMoves DEF Polls
<1>9. ASSUME NEW scheduled, Judged(a, scheduled)
      PROVE  Moved(a) /\ state'[a] = "WaitingChildren" /\ state[a] \notin Terminal
  BY <1>7, <1>9, JudgedMoves DEF Judged
<1>10. QED
  BY <1>1, <1>2, <1>3, <1>4, <1>5, <1>6, <1>8, <1>9


-----------------------------------------------------------------------------
\* The two lists.  No action is in them twice.
Uniq == Once(priorities) /\ Once(nices) /\ ToSet(priorities) \cap ToSet(nices) = {}

\* An action that is in a list is still to run, its parent having had what it waited for;
\* and one that waits is in a list.
ListInv ==
  /\ \A a \in Scheduled : state[a] # "Finished"
  /\ thread = "running" => \A a \in Actions : state[a] \in Working => a \in Scheduled
  /\ \A a \in Scheduled \ Roots :
       \E p \in Actions : a \in ChildrenOf(p) /\ state[p] \in {"WaitingChildren"} \cup Terminal

LEMMA ScheduledSets == Scheduled = ToSet(priorities) \cup ToSet(nices)
BY DEF Scheduled, ToSet

\* Moving the first priority event to the nices list leaves the same actions.
LEMMA TurnLists ==
  ASSUME TypeOK, Uniq
  PROVE  /\ NewNices \in Seq(Actions) /\ OldPriorities \in Seq(Actions)
         /\ Once(NewNices) /\ Once(OldPriorities)
         /\ ToSet(NewNices) \cap ToSet(OldPriorities) = {}
         /\ ToSet(NewNices) \cup ToSet(OldPriorities) = Scheduled
<1>1. priorities \in Seq(Actions) /\ nices \in Seq(Actions)
  BY DEF TypeOK
<1>2. Scheduled = ToSet(priorities) \cup ToSet(nices)
  BY ScheduledSets
<1>3. CASE priorities = <<>>
  <2>1. NewNices = nices /\ OldPriorities = <<>> /\ OldPriorities = priorities
    BY <1>3 DEF NewNices, OldPriorities
  <2>2. QED
    BY <1>1, <1>2, <2>1 DEF Uniq
<1>4. CASE priorities # <<>>
  <2> DEFINE x == Head(priorities)
             t == Tail(priorities)
  <2>1. NewNices = Append(nices, x) /\ OldPriorities = t
    BY <1>4 DEF NewNices, OldPriorities
  <2>2. /\ t \in Seq(Actions) /\ x \in Actions
        /\ ToSet(priorities) = {x} \cup ToSet(t)
        /\ Once(t) /\ x \notin ToSet(t)
    BY <1>1, <1>4, TailElements DEF Uniq
  <2> HIDE DEF x, t
  <2>3. x \notin ToSet(nices) /\ ToSet(t) \cap ToSet(nices) = {}
    BY <2>2 DEF Uniq
  <2>4. /\ Append(nices, x) \in Seq(Actions) /\ Once(Append(nices, x))
        /\ ToSet(Append(nices, x)) = ToSet(nices) \cup {x}
    BY <1>1, <2>2, <2>3, AppendElements DEF Uniq
  <2>5. QED
    BY <1>2, <2>1, <2>2, <2>3, <2>4
<1>5. QED
  BY <1>3, <1>4

\* The action that runs is taken out of the lists.
LEMMA TakenLists ==
  ASSUME TypeOK, Uniq, NEW a, Turn(a)
  PROVE  /\ a \in Actions /\ a \in Scheduled
         /\ Tail(NewNices) \in Seq(Actions) /\ OldPriorities \in Seq(Actions)
         /\ Once(Tail(NewNices)) /\ Once(OldPriorities)
         /\ ToSet(Tail(NewNices)) \cap ToSet(OldPriorities) = {}
         /\ ToSet(Tail(NewNices)) \cup ToSet(OldPriorities) = Scheduled \ {a}
<1> DEFINE n == NewNices
           o == OldPriorities
<1>1. /\ n \in Seq(Actions) /\ o \in Seq(Actions) /\ Once(n) /\ Once(o)
      /\ ToSet(n) \cap ToSet(o) = {} /\ ToSet(n) \cup ToSet(o) = Scheduled
  BY TurnLists
<1>2. n # <<>> /\ a = Head(n)
  BY DEF Turn
<1> HIDE DEF n, o
<1>3. /\ Tail(n) \in Seq(Actions) /\ a \in Actions
      /\ ToSet(n) = {a} \cup ToSet(Tail(n)) /\ Once(Tail(n)) /\ a \notin ToSet(Tail(n))
  BY <1>1, <1>2, TailElements
<1>4. a \notin ToSet(o) /\ ToSet(Tail(n)) \cap ToSet(o) = {}
  BY <1>1, <1>3
<1>5. ToSet(Tail(n)) \cup ToSet(o) = Scheduled \ {a} /\ a \in Scheduled
  BY <1>1, <1>3, <1>4
<1>6. QED
  BY <1>1, <1>3, <1>4, <1>5 DEF n, o

LEMMA WithoutElements ==
  ASSUME NEW q \in Seq(Actions), NEW a \in Actions
  PROVE  /\ Without(q, a) \in Seq(Actions)
         /\ ToSet(Without(q, a)) = ToSet(q) \ {a}
         /\ Once(q) => Once(Without(q, a))
<1>1. ToSet(q) \subseteq Actions
  BY DEF ToSet
<1>2. QED
  BY <1>1, SieveElements DEF Without

\* An action that ends is in no list any more.
LEMMA LeavingLists ==
  ASSUME TypeOK, Uniq, NEW a, Turn(a), priorities' = OldPriorities,
         nices' = Tail(NewNices) \/ nices' = Without(Tail(NewNices), a)
  PROVE  /\ Uniq' /\ Scheduled' = Scheduled \ {a}
         /\ priorities' \in Seq(Actions) /\ nices' \in Seq(Actions)
<1> DEFINE t == Tail(NewNices)
           o == OldPriorities
<1>1. /\ t \in Seq(Actions) /\ o \in Seq(Actions) /\ Once(t) /\ Once(o) /\ a \in Actions
      /\ ToSet(t) \cap ToSet(o) = {} /\ ToSet(t) \cup ToSet(o) = Scheduled \ {a}
  BY TakenLists
<1>2. priorities' = o /\ (nices' = t \/ nices' = Without(t, a))
  OBVIOUS
<1> HIDE DEF t, o
<1>3. a \notin ToSet(t)
  <2>1. ToSet(t) \cup ToSet(o) = Scheduled \ {a}
    BY <1>1
  <2>2. QED
    BY <2>1
<1>4. nices' \in Seq(Actions) /\ Once(nices') /\ ToSet(nices') = ToSet(t)
  <2>1. /\ Without(t, a) \in Seq(Actions) /\ Once(Without(t, a))
        /\ ToSet(Without(t, a)) = ToSet(t) \ {a}
    BY <1>1, WithoutElements
  <2>2. ToSet(t) \ {a} = ToSet(t)
    BY <1>3
  <2>3. QED
    BY <1>1, <1>2, <2>1, <2>2
<1>5. Uniq'
  BY <1>1, <1>2, <1>4 DEF Uniq
<1>6. Scheduled' = ToSet(priorities') \cup ToSet(nices')
  BY DEF Scheduled, ToSet
<1>7. QED
  BY <1>1, <1>2, <1>4, <1>5, <1>6

\* One that waits goes to the end of its list, and those it schedules to that of theirs.
LEMMA WaitingLists ==
  ASSUME TypeOK, Uniq, NEW a, Turn(a), NEW st, NEW scheduled \in Seq(Actions),
         Once(scheduled), ToSet(scheduled) \cap Scheduled = {}, Waiting(a, st, scheduled)
  PROVE  /\ Uniq' /\ Scheduled' = Scheduled \cup ToSet(scheduled)
         /\ priorities' \in Seq(Actions) /\ nices' \in Seq(Actions)
<1> DEFINE t == Tail(NewNices)
           o == OldPriorities
           w == Without(t, a)
<1>1. /\ t \in Seq(Actions) /\ o \in Seq(Actions) /\ Once(t) /\ Once(o)
      /\ a \in Actions /\ a \in Scheduled
      /\ ToSet(t) \cap ToSet(o) = {} /\ ToSet(t) \cup ToSet(o) = Scheduled \ {a}
  BY TakenLists
<1>2. priorities' = o \o scheduled /\ nices' = Append(w, a)
  BY DEF Waiting, Wait
<1> HIDE DEF t, o
<1>3. w \in Seq(Actions) /\ Once(w) /\ ToSet(w) = ToSet(t) \ {a}
  BY <1>1, WithoutElements
<1> HIDE DEF w
<1>4. a \notin ToSet(w)
  BY <1>3
<1>5. nices' \in Seq(Actions) /\ Once(nices') /\ ToSet(nices') = ToSet(w) \cup {a}
  BY <1>1, <1>2, <1>3, <1>4, AppendElements
<1>6. ToSet(o) \cap ToSet(scheduled) = {} /\ a \notin ToSet(o)
  BY <1>1
<1>7. /\ priorities' \in Seq(Actions) /\ Once(priorities')
      /\ ToSet(priorities') = ToSet(o) \cup ToSet(scheduled)
  BY <1>1, <1>2, <1>6, JoinElements
<1>8. ToSet(priorities') \cap ToSet(nices') = {}
  BY <1>1, <1>3, <1>5, <1>6, <1>7
<1>9. Scheduled' = ToSet(priorities') \cup ToSet(nices')
  BY DEF Scheduled, ToSet
<1>10. Scheduled' = Scheduled \cup ToSet(scheduled)
  BY <1>1, <1>3, <1>5, <1>7, <1>9
<1>11. QED
  BY <1>5, <1>7, <1>8, <1>10 DEF Uniq


\* The children that an action schedules are not scheduled yet.
LEMMA StartsFresh ==
  ASSUME TypeOK, ListInv, NEW a \in Actions, NEW scheduled, Starts(a, scheduled)
  PROVE  /\ scheduled \in Seq(Actions) /\ Once(scheduled) /\ ToSet(scheduled) \cap Scheduled = {}
         /\ \/ ToSet(scheduled) = {}
            \/ ToSet(scheduled) = ChildrenOf(a) /\ state[a] \in {"Idle", "WaitingMessages"}
<1>1. CASE scheduled = <<>>
  <2>1. scheduled \in Seq(Actions) /\ DOMAIN scheduled = {}
    BY <1>1
  <2>2. Once(scheduled) /\ ToSet(scheduled) = {}
    BY <2>1 DEF Once, ToSet
  <2>3. QED
    BY <2>1, <2>2
<1>2. CASE scheduled # <<>>
  <2>1. scheduled = Children[a] /\ state[a] \in {"Idle", "WaitingMessages"}
    BY <1>2 DEF Starts
  <2>2. /\ scheduled \in Seq(Actions) /\ Once(scheduled) /\ ToSet(scheduled) = ChildrenOf(a)
        /\ \A c \in ChildrenOf(a) : Ancestors[c] = Ancestors[a] \cup {a} /\ c \in Actions
        /\ \A q \in Actions : q # a => ChildrenOf(q) \cap ChildrenOf(a) = {}
    BY <2>1, ChildFacts
  <2>3. \A c \in ChildrenOf(a) : c \notin Roots
    BY <2>2, TreeAssumption
  <2>4. state[a] \notin {"WaitingChildren"} \cup Terminal
    BY <2>1 DEF Terminal, Ended
  <2>5. ASSUME NEW c \in ChildrenOf(a), c \in Scheduled
        PROVE  FALSE
    BY <2>2, <2>3, <2>4, <2>5 DEF ListInv
  <2>6. QED
    BY <2>1, <2>2, <2>5
<1>3. QED
  BY <1>1, <1>2

\* What a turn does to the lists.
Listed(a, fresh) ==
  /\ Uniq' /\ priorities' \in Seq(Actions) /\ nices' \in Seq(Actions)
  /\ Scheduled' = (Scheduled \ {a}) \cup fresh \cup {b \in {a} : state'[b] \in Working}
  /\ \/ fresh = {}
     \/ /\ fresh = ChildrenOf(a)
        /\ state[a] \in {"Idle", "WaitingMessages"}
        /\ state'[a] = "WaitingChildren"

LEMMA TurnScheduled ==
  ASSUME TypeOK, TermInv, Uniq, ListInv, NEW a \in Actions, Turn(a),
         \/ Throws(a) \/ Asks(a) \/ Waits(a) \/ Finishes(a) \/ Drops(a)
         \/ \E scheduled : Polls(a, scheduled) \/ Judged(a, scheduled)
  PROVE  a \in Scheduled /\ \E fresh \in SUBSET Actions : Listed(a, fresh)
<1>1. a \in Scheduled
  BY TakenLists
<1>2. ASSUME state'[a] \notin Working, priorities' = OldPriorities,
             nices' = Tail(NewNices) \/ nices' = Without(Tail(NewNices), a)
      PROVE  Listed(a, {})
  BY <1>2, LeavingLists DEF Listed
<1>3. "WaitingChildren" \in Working /\ "WaitingMessages" \in Working
      /\ \A s \in {"Finished", "Failed", "Cancelled"} : s \notin Working
  BY DEF Working
<1>4. CASE Throws(a)
  <2>1. state'[a] = "Failed" /\ priorities' = OldPriorities /\ nices' = Tail(NewNices)
    BY <1>4, ThrowsMoves DEF Throws, Throw
  <2>2. QED
    BY <1>1, <1>2, <1>3, <2>1
<1>5. CASE Finishes(a)
  <2>1. /\ state'[a] \in {"Finished", "Failed"}
        /\ priorities' = OldPriorities /\ nices' = Without(Tail(NewNices), a)
    BY <1>5, FinishesMoves DEF Finishes, Finish
  <2>2. QED
    BY <1>1, <1>2, <1>3, <2>1
<1>6. CASE Drops(a)
  <2>1. /\ state'[a] \in {"Failed", "Cancelled"}
        /\ priorities' = OldPriorities /\ nices' = Tail(NewNices)
    BY <1>6, DropsMoves DEF Drops, Drop
  <2>2. QED
    BY <1>1, <1>2, <1>3, <2>1
<1>7. ASSUME NEW st, Waiting(a, st, <<>>), state'[a] \in Working
      PROVE  Listed(a, {})
  <2>1. <<>> \in Seq(Actions) /\ Once(<<>>) /\ ToSet(<<>>) = {}
    BY DEF Once, ToSet
  <2>2. /\ Uniq' /\ Scheduled' = Scheduled \cup ToSet(<<>>)
        /\ priorities' \in Seq(Actions) /\ nices' \in Seq(Actions)
    BY <1>7, <2>1, WaitingLists
  <2>3. QED
    BY <1>1, <1>7, <2>1, <2>2 DEF Listed
<1>8. CASE Asks(a)
  <2>1. Waiting(a, SetState(a, "WaitingMessages"), <<>>) /\ state'[a] = "WaitingMessages"
    <3>1. Waiting(a, SetState(a, "WaitingMessages"), <<>>)
      BY <1>8 DEF Asks
    <3>2. state' = SetState(a, "WaitingMessages")
      BY <3>1 DEF Waiting
    <3>3. QED
      BY <1>3, <3>1, <3>2, WaitingMoves
  <2>2. QED
    BY <1>1, <1>3, <1>7, <2>1
<1>9. CASE Waits(a)
  <2>1. Waiting(a, state, <<>>) /\ state'[a] = "WaitingMessages"
    BY <1>9, WaitsMoves DEF Waits
  <2>2. QED
    BY <1>1, <1>3, <1>7, <2>1
<1>10. ASSUME NEW scheduled, NEW st, Starts(a, scheduled), Waiting(a, st, scheduled),
              state'[a] = "WaitingChildren"
       PROVE  ToSet(scheduled) \in SUBSET Actions /\ Listed(a, ToSet(scheduled))
  <2>1. /\ scheduled \in Seq(Actions) /\ Once(scheduled) /\ ToSet(scheduled) \cap Scheduled = {}
        /\ \/ ToSet(scheduled) = {}
           \/ ToSet(scheduled) = ChildrenOf(a) /\ state[a] \in {"Idle", "WaitingMessages"}
    BY <1>10, StartsFresh
  <2>2. /\ Uniq' /\ Scheduled' = Scheduled \cup ToSet(scheduled)
        /\ priorities' \in Seq(Actions) /\ nices' \in Seq(Actions)
    BY <1>10, <2>1, WaitingLists
  <2>3. ToSet(scheduled) \in SUBSET Actions
    BY <2>1 DEF ToSet
  <2> DEFINE fresh == ToSet(scheduled)
  <2> HIDE DEF fresh
  <2>4. Listed(a, fresh)
    BY <1>1, <1>3, <1>10, <2>1, <2>2 DEF Listed, fresh
  <2>5. QED
    BY <2>3, <2>4 DEF fresh
<1>11. ASSUME NEW scheduled, Polls(a, scheduled)
       PROVE  \E fresh \in SUBSET Actions : Listed(a, fresh)
  <2>1. Waiting(a, SetState(a, "WaitingChildren"), scheduled) /\ Starts(a, scheduled)
    BY <1>11 DEF Polls
  <2>2. state' = SetState(a, "WaitingChildren")
    BY <2>1 DEF Waiting
  <2>3. state'[a] = "WaitingChildren"
    BY <1>3, <2>2, WaitingMoves
  <2>4. QED
    BY <1>10, <2>1, <2>3
<1>12. ASSUME NEW scheduled, Judged(a, scheduled)
       PROVE  \E fresh \in SUBSET Actions : Listed(a, fresh)
  <2>1. state'[a] = "WaitingChildren"
    BY <1>12, JudgedMoves
  <2>2. QED
    BY <1>10, <1>12, <2>1 DEF Judged
<1>13. QED
  BY <1>1, <1>4, <1>5, <1>6, <1>8, <1>9, <1>11, <1>12


-----------------------------------------------------------------------------
\* The turn of a preserves what is said of the states and the lists.
LEMMA TermStep ==
  ASSUME TypeOK, TermInv, NEW a \in Actions, Moved(a),
         state[a] \in Terminal => state'[a] \in Terminal
  PROVE  TermInv'
<1>1. {"Failed", "Cancelled"} \subseteq Terminal
  BY DEF Terminal, Ended
<1>2. \A b \in Actions : b # a => state'[b] = state[b] \/ state'[b] \in Terminal
  BY <1>1 DEF Moved
<1>3. ASSUME NEW p \in Actions, state'[p] \in Terminal, NEW b \in Below(p)
      PROVE  state'[b] \in Terminal
  <2>1. b \in Actions
    BY DEF Below
  <2>2. CASE p = a
    BY <1>3, <2>2 DEF Moved
  <2>3. ASSUME state[p] \in Terminal
        PROVE  state'[b] \in Terminal
    BY <1>2, <2>1, <2>3 DEF TermInv
  <2>4. CASE p # a /\ p \in Below(a) /\ state'[a] \in Terminal
    BY <2>4, BelowFacts DEF Moved
  <2>5. CASE p # a /\ p \in Below(a) /\ state'[a] \notin Terminal
    <3>1. state'[p] = state[p]
      BY <1>3, <2>5 DEF Moved
    <3>2. QED
      BY <1>3, <2>3, <3>1
  <2>6. CASE p # a /\ p \notin Below(a)
    BY <1>3, <2>3, <2>6 DEF Moved
  <2>7. QED
    BY <2>2, <2>4, <2>5, <2>6
<1>4. QED
  BY <1>3 DEF TermInv

\* A scheduled action has no idle or asking action above it.
LEMMA NobodyIdleAbove ==
  ASSUME IdleInv, ListInv, NEW a \in Actions, a \in Scheduled, NEW p \in Actions, a \in Below(p)
  PROVE  state[p] \notin {"Idle", "WaitingMessages"}
<1>1. p \in Ancestors[a]
  BY DEF Below
<1>2. a \notin Roots
  BY <1>1, TreeAssumption
<1>3. PICK q \in Actions : a \in ChildrenOf(q) /\ state[q] \in {"WaitingChildren"} \cup Terminal
  BY <1>2 DEF ListInv
<1>4. p = q \/ q \in Below(p)
  <2>1. Ancestors[a] = Ancestors[q] \cup {q}
    BY <1>3, ChildFacts
  <2>2. QED
    BY <1>1, <2>1 DEF Below
<1>5. state[q] \notin {"Idle", "WaitingMessages"}
  BY <1>3 DEF Terminal, Ended
<1>6. QED
  BY <1>4, <1>5 DEF IdleInv

LEMMA IdleStep ==
  ASSUME TypeOK, IdleInv, ListInv, NEW a \in Actions, a \in Scheduled, Moved(a),
         state'[a] # "Idle",
         state'[a] = "WaitingMessages" => state[a] \in {"Idle", "WaitingMessages"} /\
           \A b \in Actions : b # a => state'[b] = state[b]
  PROVE  IdleInv'
<1>1. ASSUME NEW p \in Actions, state'[p] \in {"Idle", "WaitingMessages"}, NEW b \in Below(p)
      PROVE  state'[b] = "Idle"
  <2>1. b \in Actions /\ p \notin Below(p)
    BY BelowFacts DEF Below
  <2>2. CASE p = a
    BY <1>1, <2>1, <2>2 DEF IdleInv
  <2>3. CASE p # a
    <3>1. state[p] = state'[p]
      BY <1>1, <2>3 DEF Moved
    <3>2. state[b] = "Idle"
      BY <1>1, <3>1 DEF IdleInv
    <3>3. a \notin Below(p) /\ b # a
      BY <1>1, <3>1, NobodyIdleAbove
    <3>4. ASSUME b \in Below(a)
          PROVE  p \in Below(a)
      <4>1. b \in Below(a) \cap Below(p)
        BY <3>4
      <4>2. a = p \/ a \in Below(p) \/ p \in Below(a)
        BY <4>1, BelowFacts
      <4>3. QED
        BY <2>3, <3>3, <4>2
    <3>5. b \notin ChildrenOf(a) \/ b \notin Below(a)
      <4>1. ASSUME b \in ChildrenOf(a), p \in Below(a)
            PROVE  FALSE
        <5>1. Ancestors[b] = Ancestors[a] \cup {a} /\ p \in Ancestors[b] /\ a \in Ancestors[p]
          BY <4>1, ChildFacts DEF Below
        <5>2. p \in Ancestors[a]
          BY <2>3, <5>1
        <5>3. a \in Below(p)
          BY <5>2 DEF Below
        <5>4. QED
          BY <3>3, <5>3
      <4>2. QED
        BY <3>4, <4>1
    <3>6. ASSUME state'[b] # state[b]
          PROVE  FALSE
      <4>1. b \in Below(a)
        BY <2>1, <3>3, <3>6 DEF Moved
      <4>2. state'[a] \in Terminal
        BY <2>1, <3>3, <3>5, <3>6, <4>1 DEF Moved
      <4>3. state'[p] \in Terminal
        BY <3>4, <4>1, <4>2 DEF Moved
      <4>4. QED
        BY <1>1, <4>3 DEF Terminal, Ended
    <3>7. QED
      BY <3>2, <3>6
  <2>4. QED
    BY <2>2, <2>3
<1>2. QED
  BY <1>1 DEF IdleInv

LEMMA ListStep ==
  ASSUME TypeOK, IdleInv, ListInv, NEW a \in Actions, Turn(a), a \in Scheduled, Moved(a),
         NEW fresh \in SUBSET Actions, Listed(a, fresh),
         state[a] \in Terminal => state'[a] \in Terminal,
         state[a] = "WaitingChildren" => state'[a] \in {"WaitingChildren"} \cup Terminal
  PROVE  ListInv'
<1>1. Scheduled' = (Scheduled \ {a}) \cup fresh \cup {b \in {a} : state'[b] \in Working}
  BY DEF Listed
<1>2. /\ {"Failed", "Cancelled"} \subseteq Terminal /\ "Finished" \notin {"Failed", "Cancelled"}
      /\ "Finished" \notin Working /\ Working \cap {"Failed", "Cancelled"} = {}
  BY DEF Terminal, Ended, Working
<1>3. \A b \in Actions : b # a => state'[b] = state[b] \/ state'[b] \in {"Failed", "Cancelled"}
  BY DEF Moved
<1>4. Scheduled \subseteq Actions
  BY DEF Scheduled, TypeOK
<1>5. fresh = {} \/ (fresh = ChildrenOf(a) /\ state'[a] = "WaitingChildren"
                       /\ \A b \in Below(a) : state[b] = "Idle")
  BY DEF Listed, IdleInv
<1>6. ASSUME NEW b \in Scheduled'
      PROVE  state'[b] # "Finished"
  <2>1. CASE b \in Scheduled \ {a}
    BY <1>2, <1>3, <1>4, <2>1 DEF ListInv
  <2>2. CASE b \in fresh
    <3>1. state[b] = "Idle" /\ b # a /\ b \in Actions
      BY <1>5, <2>2, BelowFacts
    <3>2. QED
      BY <1>2, <1>3, <3>1
  <2>3. CASE b = a /\ state'[b] \in Working
    BY <1>2, <2>3
  <2>4. QED
    BY <1>1, <1>6, <2>1, <2>2, <2>3
<1>7. ASSUME NEW b \in Actions, state'[b] \in Working
      PROVE  b \in Scheduled'
  <2>1. CASE b = a
    BY <1>1, <1>7, <2>1
  <2>2. CASE b # a
    BY <1>1, <1>2, <1>3, <1>7, <2>2 DEF ListInv, Turn
  <2>3. QED
    BY <2>1, <2>2
<1>8. ASSUME NEW b \in Scheduled' \ Roots
      PROVE  \E p \in Actions : b \in ChildrenOf(p) /\ state'[p] \in {"WaitingChildren"} \cup Terminal
  <2>1. CASE b \in Scheduled
    <3>1. PICK p \in Actions : b \in ChildrenOf(p) /\ state[p] \in {"WaitingChildren"} \cup Terminal
      BY <1>8, <2>1 DEF ListInv
    <3>2. state'[p] \in {"WaitingChildren"} \cup Terminal
      BY <1>2, <1>3, <3>1
    <3>3. QED
      BY <3>1, <3>2
  <2>2. CASE b \in fresh
    BY <1>5, <2>2
  <2>3. QED
    BY <1>1, <1>8, <2>1, <2>2
<1>9. QED
  BY <1>6, <1>7, <1>8 DEF ListInv

-----------------------------------------------------------------------------
\* All that has ever happened is under one root; and once the answer is given that root
\* has come to its end.
RunInv ==
  \E r \in Roots :
    /\ \A a \in Actions : a \in Scheduled \/ state[a] # "Idle" => a = r \/ r \in Ancestors[a]
    /\ Answered => state[r] \in Terminal

\* What a turn may answer.
Replied(a) ==
  \/ answers' = answers
  \/ /\ a \in Roots
     /\ state[a] \notin Terminal /\ state'[a] \in Terminal
     /\ \E result \in {"results", "error"} : answers' = Append(answers, result)

LEMMA TurnReplied ==
  ASSUME TypeOK, TermInv, NEW a \in Actions,
         \/ Throws(a) \/ Asks(a) \/ Waits(a) \/ Finishes(a) \/ Drops(a)
         \/ \E scheduled : Polls(a, scheduled) \/ Judged(a, scheduled)
  PROVE  Replied(a)
<1>1. {"Failed", "Finished", "Cancelled"} = Terminal
  BY DEF Terminal, Ended
<1>2. CASE Throws(a)
  <2>1. state'[a] = "Failed" /\ state[a] \in {"Idle", "WaitingMessages"}
    BY <1>2, ThrowsMoves DEF Throws
  <2>2. answers' = answers \/ (a \in Roots /\ answers' = Append(answers, "error"))
    BY <1>2 DEF Throws, Throw
  <2>3. QED
    BY <1>1, <2>1, <2>2 DEF Replied
<1>3. CASE Finishes(a)
  <2> DEFINE st == CleanUp(SetState(a, "Finished"), a)
  <2>1. state'[a] \in {"Finished", "Failed"}
    BY <1>3, FinishesMoves
  <2>2. state[a] \in {"Idle", "WaitingMessages", "WaitingChildren"}
    BY <1>3 DEF Finishes, Starts
  <2>3. Finish(a, st)
    BY <1>3 DEF Finishes
  <2> HIDE DEF st
  <2>4. answers' = answers \/ (a \in Roots /\ answers' = Append(answers, Answer(a, st)))
    BY <2>3 DEF Finish
  <2>5. Answer(a, st) \in {"results", "error"}
    BY DEF Answer
  <2>6. QED
    BY <1>1, <2>1, <2>2, <2>4, <2>5 DEF Replied
<1>4. CASE Asks(a)
  BY <1>4 DEF Asks, Waiting, Replied
<1>5. CASE Waits(a)
  BY <1>5 DEF Waits, Waiting, Replied
<1>6. CASE Drops(a)
  BY <1>6 DEF Drops, Drop, Replied
<1>7. ASSUME NEW scheduled, Polls(a, scheduled) \/ Judged(a, scheduled)
      PROVE  Replied(a)
  BY <1>7 DEF Polls, Judged, Waiting, Replied
<1>8. QED
  BY <1>2, <1>3, <1>4, <1>5, <1>6, <1>7

LEMMA RunStep ==
  ASSUME TypeOK, RunInv, NEW a \in Actions, a \in Scheduled, Moved(a), Replied(a),
         NEW fresh \in SUBSET Actions, Listed(a, fresh),
         state[a] \in Terminal => state'[a] \in Terminal
  PROVE  RunInv'
<1>1. PICK r \in Roots :
        /\ \A b \in Actions : b \in Scheduled \/ state[b] # "Idle" => b = r \/ r \in Ancestors[b]
        /\ Answered => state[r] \in Terminal
  BY DEF RunInv
<1>2. a = r \/ r \in Ancestors[a]
  BY <1>1
<1>3. \A b \in Below(a) : r \in Ancestors[b]
  BY <1>2, TreeFacts DEF Below
<1>4. ASSUME NEW b \in Actions, b \in Scheduled' \/ state'[b] # "Idle"
      PROVE  b = r \/ r \in Ancestors[b]
  <2>1. b \in Scheduled' => b \in Scheduled \/ b = a \/ b \in ChildrenOf(a)
    BY DEF Listed
  <2>2. state'[b] = state[b] \/ b = a \/ b \in Below(a)
    BY DEF Moved
  <2>3. ChildrenOf(a) \subseteq Below(a)
    BY BelowFacts
  <2>4. QED
    BY <1>1, <1>2, <1>3, <1>4, <2>1, <2>2, <2>3
<1>5. r \in Actions /\ {"Failed", "Cancelled"} \subseteq Terminal
  BY TreeAssumption DEF Terminal, Ended
<1>6. state[r] \in Terminal => state'[r] \in Terminal
  BY <1>5 DEF Moved
<1>7. Answered' => state'[r] \in Terminal
  <2>1. a \in Roots => a = r
    BY <1>2, TreeAssumption
  <2>2. answers' # answers => state'[r] \in Terminal
    BY <2>1 DEF Replied
  <2>3. answers' = answers => (Answered' => Answered)
    BY DEF Answered
  <2>4. QED
    BY <1>1, <1>6, <2>2, <2>3
<1>8. QED
  BY <1>4, <1>7 DEF RunInv


-----------------------------------------------------------------------------
\* Who is to blame for the end of an action: itself, one above or below it, or one under
\* the same judge.
Blame(a, t) ==
  \/ t = a
  \/ t \in Ancestors[a]
  \/ a \in Ancestors[t]
  \/ \E j \in Judges : j \in Ancestors[a] \cap Ancestors[t]

\* What is to blame for one is so for all that are above it.
LEMMA BlameAbove ==
  ASSUME NEW a \in Actions, NEW b \in Below(a), NEW t \in Actions, Blame(b, t)
  PROVE  Blame(a, t)
<1>1. /\ b \in Actions /\ a \in Ancestors[b]
      /\ \A x, y \in Ancestors[b] : x = y \/ x \in Ancestors[y] \/ y \in Ancestors[x]
  BY TreeFacts DEF Below
<1>2. \A x \in Ancestors[t] : Ancestors[x] \subseteq Ancestors[t]
  BY TreeFacts
<1>3. CASE t = b \/ b \in Ancestors[t]
  BY <1>1, <1>2, <1>3 DEF Blame
<1>4. CASE t \in Ancestors[b]
  BY <1>1, <1>4 DEF Blame
<1>5. CASE \E j \in Judges : j \in Ancestors[b] \cap Ancestors[t]
  BY <1>1, <1>2, <1>5 DEF Blame
<1>6. QED
  BY <1>3, <1>4, <1>5 DEF Blame

\* What is to blame for one child of a judge is so for all of them.
LEMMA BlameUnderJudge ==
  ASSUME NEW a \in Judges, NEW b \in ChildrenOf(a), NEW c \in ChildrenOf(a), NEW t \in Actions,
         Blame(c, t)
  PROVE  Blame(b, t)
<1>1. a \in Actions
  BY JudgeFacts
<1>2. /\ Ancestors[b] = Ancestors[a] \cup {a} /\ Ancestors[c] = Ancestors[a] \cup {a}
  BY <1>1, ChildFacts
<1>3. \A x \in Ancestors[t] : Ancestors[x] \subseteq Ancestors[t]
  BY TreeFacts
<1>4. CASE t = c
  BY <1>2, <1>4 DEF Blame
<1>5. CASE t \in Ancestors[c]
  BY <1>2, <1>5 DEF Blame
<1>6. CASE c \in Ancestors[t]
  <2>1. Ancestors[c] \subseteq Ancestors[t]
    BY <1>3, <1>6
  <2>2. a \in Ancestors[b] \cap Ancestors[t]
    BY <1>2, <2>1
  <2>3. QED
    BY <2>2 DEF Blame
<1>7. CASE \E j \in Judges : j \in Ancestors[c] \cap Ancestors[t]
  BY <1>2, <1>7 DEF Blame
<1>8. QED
  BY <1>4, <1>5, <1>6, <1>7 DEF Blame

LEMMA BranchStep ==
  ASSUME TypeOK, TermInv, FailureStaysInBranch, NEW a \in Actions,
         \/ Throws(a) \/ Asks(a) \/ Waits(a) \/ Finishes(a) \/ Drops(a)
         \/ \E scheduled : Polls(a, scheduled) \/ Judged(a, scheduled)
  PROVE  FailureStaysInBranch' /\ thrown' \subseteq Actions
<1> DEFINE Bad == {"Failed", "Cancelled"}
           Excused == \A b \in Actions : state'[b] \in Bad =>
                        state[b] \in Bad \/ \E t \in thrown' : Blame(b, t)
<1>1. thrown \subseteq Actions
  BY DEF TypeOK
<1>2. \A b \in Actions : state[b] \in Bad => \E t \in thrown : Blame(b, t)
  BY DEF FailureStaysInBranch, Blame
<1>3. Below(a) \subseteq Actions /\ {"Failed", "Cancelled"} = Bad
  BY DEF Below
<1> HIDE DEF Bad
<1>4. CASE Throws(a)
  <2>1. thrown' = thrown \cup {a} /\ Moved(a)
    BY <1>4, ThrowsMoves DEF Throws, Throw
  <2>2. \A b \in Below(a) \cup {a} : Blame(b, a)
    BY DEF Below, Blame
  <2>3. \A b \in Actions \ Below(a) : b # a => state'[b] = state[b]
    BY <2>1 DEF Moved
  <2>4. Excused
    BY <2>1, <2>2, <2>3
  <2>5. QED
    BY <1>1, <1>2, <1>3, <2>1, <2>4 DEF FailureStaysInBranch, Blame
<1>5. ASSUME thrown' = thrown, Excused
      PROVE  FailureStaysInBranch' /\ thrown' \subseteq Actions
  BY <1>1, <1>2, <1>3, <1>5 DEF FailureStaysInBranch, Blame
<1>6. ASSUME NEW s \in Working, state' = SetState(a, s), thrown' = thrown
      PROVE  FailureStaysInBranch' /\ thrown' \subseteq Actions
  <2>1. s \notin Bad
    BY DEF Working, Bad
  <2>2. state'[a] = s /\ \A b \in Actions : b # a => state'[b] = state[b]
    BY <1>6, WaitingMoves
  <2>3. Excused
    BY <2>1, <2>2
  <2>4. QED
    BY <1>5, <1>6, <2>3
<1>7. "WaitingMessages" \in Working /\ "WaitingChildren" \in Working
  BY DEF Working
<1>8. CASE Asks(a)
  BY <1>6, <1>7, <1>8 DEF Asks, Waiting
<1>9. CASE Waits(a)
  BY <1>5, <1>9 DEF Waits, Waiting
<1>10. CASE Finishes(a)
  <2>1. /\ Moved(a) /\ state'[a] \in {"Finished", "Failed"}
        /\ state'[a] # "Finished" => \E b \in Below(a) : state[b] = "Failed"
        /\ \A b \in Below(a) : state'[b] # state[b] => state[b] = "Cancelled"
        /\ thrown' = thrown
    BY <1>10, FinishesMoves DEF Finishes, Finish
  <2>2. state'[a] \in Bad => \E t \in thrown' : Blame(a, t)
    <3>1. ASSUME NEW c \in Below(a), state[c] = "Failed"
          PROVE  \E t \in thrown' : Blame(a, t)
      <4>1. PICK t \in thrown : Blame(c, t)
        BY <1>2, <1>3, <3>1
      <4>2. QED
        BY <1>1, <2>1, <4>1, BlameAbove
    <3>2. QED
      BY <2>1, <3>1 DEF Bad
  <2>3. Excused
    BY <1>3, <2>1, <2>2 DEF Moved
  <2>4. QED
    BY <1>5, <2>1, <2>3
<1>11. CASE Drops(a)
  <2>1. /\ Moved(a) /\ state[a] \in Bad
        /\ \A b \in Below(a) : state'[b] # state[b] => state[b] = "Cancelled"
        /\ thrown' = thrown
    BY <1>3, <1>11, DropsMoves DEF Drops, Drop
  <2>2. Excused
    BY <1>3, <2>1 DEF Moved
  <2>3. QED
    BY <1>5, <2>1, <2>2
<1>12. ASSUME NEW scheduled, Polls(a, scheduled)
       PROVE  FailureStaysInBranch' /\ thrown' \subseteq Actions
  BY <1>6, <1>7, <1>12 DEF Polls, Waiting
<1>13. ASSUME NEW scheduled, Judged(a, scheduled)
       PROVE  FailureStaysInBranch' /\ thrown' \subseteq Actions
  <2>1. /\ state'[a] = "WaitingChildren" /\ a \in Judges
        /\ \A b \in Actions : b # a =>
             state'[b] = state[b] \/ (b \in ChildrenOf(a) /\ state'[b] = "Cancelled")
    BY <1>13, JudgedMoves
  <2>2. thrown' = thrown /\ \E c \in ChildrenOf(a) : state[c] = "Failed"
    BY <1>13 DEF Judged, Condemned, Waiting
  <2>3. PICK c \in ChildrenOf(a) : state[c] = "Failed"
    BY <2>2
  <2>4. c \in Actions
    BY <2>3, ChildFacts
  <2>5. PICK t \in thrown : Blame(c, t)
    BY <1>2, <1>3, <2>3, <2>4
  <2>6. \A b \in ChildrenOf(a) : Blame(b, t)
    BY <1>1, <2>1, <2>3, <2>5, BlameUnderJudge
  <2>7. "WaitingChildren" \notin Bad
    BY DEF Bad
  <2>8. Excused
    BY <2>1, <2>2, <2>5, <2>6, <2>7
  <2>9. QED
    BY <1>5, <2>2, <2>8
<1>14. QED
  BY <1>4, <1>8, <1>9, <1>10, <1>11, <1>12, <1>13


-----------------------------------------------------------------------------
\* Requests and replies.  An action that ended without its reply did so for a subworker's
\* error or because of its judge.
Spoilt(a) ==
  /\ state[a] \in {"Failed", "Cancelled"}
  /\ Topic[a] = "COMPUTE_REPLY" \/ Judges \cap Ancestors[a] # {}

AskInv ==
  /\ expecting \subseteq pending
  /\ \A a \in asked : Topic[a] # "none" /\ state[a] # "Idle"
  /\ \A a \in Actions : state[a] = "WaitingMessages" => Topic[a] # "none"
  /\ \A a \in Actions :
       state[a] \in Working \cup {"Finished"} /\ Topic[a] # "none" => a \in asked
  /\ \A a \in Actions : message[a] = Nothing <=> (a \notin asked \/ a \in expecting)
  /\ \A a \in Actions : message[a].result \in {"error", "exception"} => Topic[a] = "COMPUTE_REPLY"
  /\ \A a \in asked : state[a] # "WaitingMessages" => message[a].result = "results" \/ Spoilt(a)

\* How an action comes from one state to another in a turn in which it asks for nothing.
LEMMA StillFacts ==
  ASSUME TypeOK, TermInv, IdleInv, NEW a \in Actions,
         \/ Throws(a) \/ Waits(a) \/ Finishes(a) \/ Drops(a)
         \/ \E scheduled : Polls(a, scheduled) \/ Judged(a, scheduled)
  PROVE  /\ Still
         /\ state'[a] = "WaitingMessages" => state[a] = "WaitingMessages"
         /\ state'[a] \in {"WaitingChildren", "Finished"} =>
              \/ Topic[a] = "none"
              \/ state[a] \in Working
         /\ state[a] = "WaitingMessages" /\ state'[a] # "WaitingMessages" =>
              \/ HasReply(a)
              \/ state'[a] = "Failed" /\ message[a].result \in {"error", "exception"}
         /\ state[a] \in {"Failed", "Cancelled"} => state'[a] \in {"Failed", "Cancelled"}
         /\ \A b \in Below(a) : state'[b] # state[b] /\ state[b] = "WaitingMessages" =>
              Judges \cap Ancestors[b] # {}
<1>1. Working = {"WaitingMessages", "WaitingChildren"}
  BY DEF Working
<1>2. "WaitingMessages" \notin Terminal
  BY DEF Terminal, Ended
<1>3. CASE Throws(a)
  <2>1. Still /\ state[a] \in {"Idle", "WaitingMessages"} /\ state'[a] = "Failed"
        /\ (state[a] = "WaitingMessages" => message[a].result \in {"error", "exception"})
    BY <1>3, ThrowsMoves DEF Throws
  <2>2. \A b \in Below(a) : state[b] = "Idle"
    BY <2>1 DEF IdleInv
  <2>3. QED
    BY <2>1, <2>2
<1>4. CASE Waits(a)
  <2>1. Still /\ state' = state /\ state[a] = "WaitingMessages"
    BY <1>4, WaitsMoves DEF Waits
  <2>2. QED
    BY <2>1
<1>5. ASSUME NEW scheduled, Starts(a, scheduled)
      PROVE  /\ state[a] \in {"Idle"} \cup Working
             /\ state[a] = "Idle" => Topic[a] = "none"
             /\ state[a] = "WaitingMessages" => HasReply(a)
  BY <1>1, <1>5 DEF Starts
<1>6. CASE Finishes(a)
  <2>1. Still /\ state'[a] \in {"Finished", "Failed"} /\ \A b \in Below(a) : state[b] \in Terminal
    BY <1>6, FinishesMoves DEF Finishes
  <2>2. PICK scheduled : Starts(a, scheduled)
    BY <1>6 DEF Finishes
  <2>3. QED
    BY <1>1, <1>2, <1>5, <2>1, <2>2
<1>7. CASE Drops(a)
  <2>1. /\ Still /\ {state[a], state'[a]} \subseteq {"Failed", "Cancelled"}
        /\ \A b \in Below(a) : state[b] \in Terminal
    BY <1>7, DropsMoves DEF Drops
  <2>2. QED
    BY <1>1, <1>2, <2>1
<1>8. ASSUME NEW scheduled, Polls(a, scheduled)
      PROVE  /\ Still /\ state'[a] = "WaitingChildren" /\ Starts(a, scheduled)
             /\ \A b \in Actions : b # a => state'[b] = state[b]
  <2>1. state' = SetState(a, "WaitingChildren")
    BY <1>8 DEF Polls, Waiting
  <2>2. QED
    BY <1>1, <1>8, <2>1, WaitingMoves DEF Polls
<1>9. CASE \E scheduled : Polls(a, scheduled)
  <2>1. PICK scheduled : Polls(a, scheduled)
    BY <1>9
  <2>2. /\ Still /\ state'[a] = "WaitingChildren" /\ Starts(a, scheduled)
        /\ \A b \in Actions : b # a => state'[b] = state[b]
    BY <1>8, <2>1
  <2>3. \A b \in Below(a) : state'[b] = state[b]
    BY <2>2, BelowFacts DEF Below
  <2>4. QED
    BY <1>1, <1>5, <2>2, <2>3
<1>10. CASE \E scheduled : Judged(a, scheduled)
  <2>1. PICK scheduled : Judged(a, scheduled)
    BY <1>10
  <2>2. Still /\ Starts(a, scheduled)
    BY <2>1 DEF Judged
  <2>3. state'[a] = "WaitingChildren" /\ a \in Judges
    BY <2>1, JudgedMoves
  <2>4. \A b \in Below(a) : a \in Judges \cap Ancestors[b]
    BY <2>3 DEF Below
  <2>5. QED
    BY <1>1, <1>5, <2>2, <2>3, <2>4
<1>11. QED
  BY <1>3, <1>4, <1>6, <1>7, <1>9, <1>10

\* A message that has come is no error if HasReply.
LEMMA ReplyFacts ==
  ASSUME TypeOK, AskInv, NEW a \in asked, HasReply(a)
  PROVE  message[a].result = "results"
<1>1. a \in Actions /\ message[a] # Nothing
  BY DEF TypeOK, AskInv, HasReply
<1> DEFINE R == [from : Actions, result : {"results", "error", "exception"}]
<1>2. message \in [Actions -> {Nothing} \cup R]
  BY DEF TypeOK
<1>3. message[a] \in R
  BY <1>1, <1>2
<1>4. message[a].result \in {"results", "error", "exception"}
  BY <1>3
<1>5. QED
  BY <1>4 DEF HasReply

LEMMA AskStill ==
  ASSUME TypeOK, TermInv, IdleInv, AskInv, NEW a \in Actions, Turn(a), Moved(a), state'[a] # "Idle",
         \/ Throws(a) \/ Waits(a) \/ Finishes(a) \/ Drops(a)
         \/ \E scheduled : Polls(a, scheduled) \/ Judged(a, scheduled)
  PROVE  AskInv'
<1>1. /\ Still
      /\ state'[a] = "WaitingMessages" => state[a] = "WaitingMessages"
      /\ state'[a] \in {"WaitingChildren", "Finished"} =>
           \/ Topic[a] = "none"
           \/ state[a] \in Working
      /\ state[a] = "WaitingMessages" /\ state'[a] # "WaitingMessages" =>
           \/ HasReply(a)
           \/ state'[a] = "Failed" /\ message[a].result \in {"error", "exception"}
      /\ state[a] \in {"Failed", "Cancelled"} => state'[a] \in {"Failed", "Cancelled"}
      /\ \A b \in Below(a) : state'[b] # state[b] /\ state[b] = "WaitingMessages" =>
           Judges \cap Ancestors[b] # {}
  BY StillFacts
<1>2. /\ expecting' = expecting /\ asked' = asked /\ pending' = pending /\ message' = message
      /\ asked \subseteq Actions
  BY <1>1 DEF Still, Turn, TypeOK
<1>3. \A b \in Actions : b # a =>
        state'[b] = state[b] \/ (b \in Below(a) /\ state'[b] \in {"Failed", "Cancelled"})
  BY DEF Moved
<1>4. /\ Working = {"WaitingMessages", "WaitingChildren"}
      /\ state'[a] \in {"Failed", "Cancelled", "Finished", "WaitingMessages", "WaitingChildren"}
  BY DEF Working, Moved, States, Terminal, Ended
<1>5. \A b \in asked : Topic[b] # "none" /\ state'[b] # "Idle"
  BY <1>2, <1>3 DEF AskInv
<1>6. \A b \in Actions : state'[b] = "WaitingMessages" => Topic[b] # "none"
  BY <1>1, <1>3 DEF AskInv
<1>7. \A b \in Actions : state'[b] \in Working \cup {"Finished"} /\ Topic[b] # "none" => b \in asked
  <2>1. state'[a] \in Working \cup {"Finished"} /\ Topic[a] # "none" => a \in asked
    BY <1>1, <1>4 DEF AskInv
  <2>2. \A b \in Actions : b # a /\ state'[b] \in Working \cup {"Finished"} => state[b] = state'[b]
    BY <1>3, <1>4
  <2>3. QED
    BY <2>1, <2>2 DEF AskInv
<1>8. ASSUME NEW b \in asked, state'[b] # "WaitingMessages"
      PROVE  message[b].result = "results" \/ Spoilt(b)'
  <2>1. b \in Actions /\ state[b] # "Idle"
    BY <1>2 DEF AskInv
  <2>2. ASSUME state'[b] \in {"Failed", "Cancelled"},
               Topic[b] = "COMPUTE_REPLY" \/ Judges \cap Ancestors[b] # {}
        PROVE  Spoilt(b)'
    BY <2>2 DEF Spoilt
  <2>3. state[b] # "WaitingMessages" => message[b].result = "results" \/ Spoilt(b)
    BY DEF AskInv
  <2>4. CASE b # a
    BY <1>1, <1>3, <1>8, <2>1, <2>2, <2>3, <2>4 DEF Spoilt
  <2>5. CASE b = a /\ state[a] # "WaitingMessages"
    BY <1>1, <2>2, <2>3, <2>5 DEF Spoilt
  <2>6. CASE b = a /\ state[a] = "WaitingMessages"
    <3>1. HasReply(a) => message[a].result = "results"
      BY <2>6, ReplyFacts
    <3>2. message[a].result \in {"error", "exception"} => Topic[a] = "COMPUTE_REPLY"
      BY DEF AskInv
    <3>3. QED
      BY <1>1, <1>8, <2>2, <2>6, <3>1, <3>2
  <2>7. QED
    BY <2>4, <2>5, <2>6
<1>9. QED
  BY <1>2, <1>5, <1>6, <1>7, <1>8 DEF AskInv


LEMMA AskAsks ==
  ASSUME TypeOK, AskInv, NEW a \in Actions, Turn(a), Asks(a)
  PROVE  /\ AskInv' /\ a \notin asked
         /\ state'[a] = "WaitingMessages" /\ \A b \in Actions : b # a => state'[b] = state[b]
<1>1. /\ state[a] = "Idle" /\ Topic[a] # "none" /\ message' = message
      /\ expecting' = expecting \cup {a} /\ asked' = asked \cup {a} /\ pending' = pending \cup {a}
      /\ state' = SetState(a, "WaitingMessages") /\ asked \subseteq Actions
  BY DEF Asks, Waiting, Turn, TypeOK
<1>2. state'[a] = "WaitingMessages" /\ \A b \in Actions : b # a => state'[b] = state[b]
  BY <1>1, WaitingMoves DEF Working
<1>3. a \notin asked
  BY <1>1 DEF AskInv
<1>4. \A b \in asked' : Topic[b] # "none" /\ state'[b] # "Idle"
  BY <1>1, <1>2 DEF AskInv
<1>5. \A b \in Actions : message'[b] = Nothing <=> (b \notin asked' \/ b \in expecting')
  BY <1>1, <1>3 DEF AskInv
<1>6. \A b \in asked' : state'[b] # "WaitingMessages" => message'[b].result = "results" \/ Spoilt(b)'
  BY <1>1, <1>2 DEF AskInv, Spoilt
<1>7. \A b \in Actions :
        state'[b] \in Working \cup {"Finished"} /\ Topic[b] # "none" => b \in asked'
  BY <1>1, <1>2 DEF AskInv
<1>8. \A b \in Actions : state'[b] = "WaitingMessages" => Topic[b] # "none"
  BY <1>1, <1>2 DEF AskInv
<1>9. expecting' \subseteq pending'
  BY <1>1 DEF AskInv
<1>10. \A b \in Actions : message'[b].result \in {"error", "exception"} => Topic[b] = "COMPUTE_REPLY"
  BY <1>1 DEF AskInv
<1>11. AskInv'
  BY <1>4, <1>5, <1>6, <1>7, <1>8, <1>9, <1>10 DEF AskInv
<1>12. QED
  BY <1>2, <1>3, <1>11

\* What the delivery of a reply changes.
Takers(a, kind) == {b \in Actions : Matches(a, kind, b)}

LEMMA HandleFacts ==
  ASSUME TypeOK, AskInv, NEW a \in Actions, NEW kind \in {"results", "error", "exception"},
         HandleMessage(a, kind)
  PROVE  /\ a \in pending /\ a \in asked
         /\ message' \in [Actions -> {Nothing} \cup
                            [from : Actions, result : {"results", "error", "exception"}]]
         /\ \A b \in Takers(a, kind) :
              b \in expecting /\ Topic[b] = Topic[a] /\ message'[b] = [from |-> a, result |-> kind]
         /\ \A b \in Actions \ Takers(a, kind) : message'[b] = message[b]
         /\ expecting' = expecting \ Takers(a, kind) /\ pending' = pending \ {a}
         /\ a \in expecting => a \in Takers(a, kind)
         /\ kind # "results" => Topic[a] = "COMPUTE_REPLY"
         /\ state' = state /\ asked' = asked /\ thrown' = thrown /\ answers' = answers
         /\ thread' = thread /\ nices' = NewNices /\ priorities' = OldPriorities
<1> DEFINE takers == Takers(a, kind)
           R == [from : Actions, result : {"results", "error", "exception"}]
           m == [from |-> a, result |-> kind]
<1>1. /\ a \in pending /\ kind \in ReplyKinds(a)
      /\ message' = [b \in Actions |-> IF b \in takers THEN m ELSE message[b]]
      /\ expecting' = expecting \ takers /\ pending' = pending \ {a}
      /\ state' = state /\ asked' = asked /\ thrown' = thrown /\ answers' = answers
      /\ thread' = thread /\ nices' = NewNices /\ priorities' = OldPriorities
  BY DEF HandleMessage, Takers
<1>2. \A b \in takers : b \in Actions /\ b \in expecting /\ Topic[b] = Topic[a]
  BY DEF Takers, Matches
<1>3. a \in expecting => a \in takers
  BY DEF Takers, Matches
<1>4. a \in asked /\ pending \subseteq asked /\ message \in [Actions -> {Nothing} \cup R]
  BY <1>1 DEF TypeOK
<1>5. m \in R
  OBVIOUS
<1>6. kind # "results" => Topic[a] = "COMPUTE_REPLY"
  BY <1>1, <1>4, WorkflowAssumption DEF ReplyKinds, AskInv
<1> HIDE DEF takers, R, m
<1>7. message' \in [Actions -> {Nothing} \cup R]
  BY <1>1, <1>4, <1>5
<1>8. /\ \A b \in takers : message'[b] = m
      /\ \A b \in Actions \ takers : message'[b] = message[b]
  BY <1>1, <1>2
<1>9. QED
  BY <1>1, <1>2, <1>3, <1>4, <1>6, <1>7, <1>8 DEF takers, R, m

LEMMA AskHandle ==
  ASSUME TypeOK, AskInv, NEW a \in Actions, NEW kind \in {"results", "error", "exception"},
         HandleMessage(a, kind)
  PROVE  AskInv'
<1> DEFINE takers == Takers(a, kind)
<1>1. /\ \A b \in takers :
           b \in expecting /\ Topic[b] = Topic[a] /\ message'[b] = [from |-> a, result |-> kind]
      /\ \A b \in Actions \ takers : message'[b] = message[b]
      /\ expecting' = expecting \ takers /\ pending' = pending \ {a}
      /\ a \in expecting => a \in takers
      /\ kind # "results" => Topic[a] = "COMPUTE_REPLY"
      /\ state' = state /\ asked' = asked
      /\ asked \subseteq Actions /\ pending \subseteq asked
  BY HandleFacts DEF TypeOK
<1> HIDE DEF takers
<1>2. \A b \in takers : message'[b].result = kind /\ message'[b] # Nothing
  <2>1. [from |-> a, result |-> kind].result = kind /\ Nothing.result = "none"
    BY DEF Nothing
  <2>2. QED
    BY <1>1, <2>1
<1>3. \A b \in takers : b \in asked
  BY <1>1 DEF AskInv
<1>4. expecting' \subseteq pending'
  BY <1>1 DEF AskInv
<1>5. \A b \in Actions : message'[b] = Nothing <=> (b \notin asked \/ b \in expecting')
  BY <1>1, <1>2, <1>3 DEF AskInv
<1>6. \A b \in Actions : message'[b].result \in {"error", "exception"} => Topic[b] = "COMPUTE_REPLY"
  BY <1>1, <1>2 DEF AskInv
<1>7. ASSUME NEW b \in asked, state[b] # "WaitingMessages"
      PROVE  message'[b].result = "results" \/ Spoilt(b)'
  <2>1. Spoilt(b)' <=> Spoilt(b)
    BY <1>1 DEF Spoilt
  <2>2. ASSUME b \in takers, message[b].result = "results"
        PROVE  FALSE
    <3>1. message[b] = Nothing
      BY <1>1, <2>2 DEF AskInv
    <3>2. QED
      BY <2>2, <3>1 DEF Nothing
  <2>3. message[b].result = "results" \/ Spoilt(b)
    BY <1>7 DEF AskInv
  <2>4. QED
    BY <1>1, <2>1, <2>2, <2>3
<1>8. QED
  BY <1>1, <1>4, <1>5, <1>6, <1>7 DEF AskInv

-----------------------------------------------------------------------------
\* With separate contexts an action gets its own reply, or the exception of another; and
\* while its own has not come, only that exception can have been delivered to it.
OwnInv ==
  /\ \A a \in asked : message[a] # Nothing /\ message[a].from # a => message[a].result = "exception"
  /\ \A a \in pending \ expecting : message[a].result = "exception"

LEMMA OwnHandle ==
  ASSUME SeparateContexts, TypeOK, AskInv, RunInv, OwnInv,
         NEW a \in Actions, NEW kind \in {"results", "error", "exception"}, HandleMessage(a, kind)
  PROVE  OwnInv'
<1> DEFINE takers == Takers(a, kind)
<1>1. /\ a \in asked
      /\ \A b \in takers :
           b \in expecting /\ Topic[b] = Topic[a] /\ message'[b] = [from |-> a, result |-> kind]
      /\ \A b \in Actions \ takers : message'[b] = message[b]
      /\ expecting' = expecting \ takers /\ pending' = pending \ {a}
      /\ asked' = asked /\ asked \subseteq Actions /\ pending \subseteq asked
  BY HandleFacts DEF TypeOK
<1>2. \A b \in takers : kind = "exception" \/ Context[a] = "" \/ Context[b] = Context[a]
  BY DEF Takers, Matches
<1> HIDE DEF takers
<1>3. [from |-> a, result |-> kind].result = kind /\ [from |-> a, result |-> kind].from = a
  OBVIOUS
<1>4. PICK r \in Roots :
        \A b \in Actions : b \in Scheduled \/ state[b] # "Idle" => b = r \/ r \in Ancestors[b]
  BY DEF RunInv
<1>5. \A b \in asked : r \in Ancestors[b]
  <2>1. Topic[r] = "none"
    BY TreeAssumption
  <2>2. \A b \in asked : b \in Actions /\ Topic[b] # "none" /\ state[b] # "Idle"
    BY <1>1 DEF AskInv
  <2>3. QED
    BY <1>4, <2>1, <2>2
<1>6. ASSUME NEW b \in takers, b # a
      PROVE  kind = "exception"
  <2>1. b \in asked
    BY <1>1 DEF AskInv
  <2>2. r \in Ancestors[a] \cap Ancestors[b] /\ Topic[a] = Topic[b] /\ Topic[a] # "none"
    BY <1>1, <1>5, <2>1 DEF AskInv
  <2>3. ASSUME Context[a] = "" \/ Context[a] = Context[b]
        PROVE  FALSE
    BY <1>1, <1>6, <2>1, <2>2, <2>3 DEF SeparateContexts
  <2>4. QED
    BY <1>2, <2>3
<1>7. ASSUME NEW b \in asked, message'[b] # Nothing, message'[b].from # b
      PROVE  message'[b].result = "exception"
  <2>1. CASE b \in takers
    BY <1>1, <1>3, <1>6, <1>7, <2>1
  <2>2. CASE b \notin takers
    BY <1>1, <1>7, <2>2 DEF OwnInv
  <2>3. QED
    BY <2>1, <2>2
<1>8. ASSUME NEW b \in pending' \ expecting'
      PROVE  message'[b].result = "exception"
  <2>1. b # a /\ b \in pending /\ b \in Actions
    BY <1>1
  <2>2. CASE b \in takers
    BY <1>1, <1>3, <1>6, <2>1, <2>2
  <2>3. CASE b \notin takers
    BY <1>1, <1>8, <2>1, <2>3 DEF OwnInv
  <2>4. QED
    BY <2>2, <2>3
<1>9. QED
  BY <1>1, <1>7, <1>8 DEF OwnInv

LEMMA OwnTurn ==
  ASSUME TypeOK, TermInv, IdleInv, AskInv, OwnInv, NEW a \in Actions, Turn(a),
         \/ Throws(a) \/ Asks(a) \/ Waits(a) \/ Finishes(a) \/ Drops(a)
         \/ \E scheduled : Polls(a, scheduled) \/ Judged(a, scheduled)
  PROVE  OwnInv'
<1>1. message' = message
  BY DEF Turn
<1>2. CASE Still
  BY <1>1, <1>2 DEF Still, OwnInv
<1>3. CASE Asks(a)
  <2>1. /\ a \notin asked /\ asked' = asked \cup {a}
        /\ expecting' = expecting \cup {a} /\ pending' = pending \cup {a}
    BY <1>3, AskAsks DEF Asks
  <2>2. message[a] = Nothing
    BY <2>1 DEF AskInv
  <2>3. QED
    BY <1>1, <2>1, <2>2 DEF OwnInv
<1>4. QED
  BY <1>2, <1>3, StillFacts


-----------------------------------------------------------------------------
\* After the answer only drops are left; so nothing is thrown after an answer with results.
ResultInv ==
  answers = <<"results">> =>
    \A r \in Roots : state[r] # "Idle" =>
      state[r] \in Terminal /\ (Decides[r] = {} => thrown = {})

LEMMA NotAnswered ==
  ASSUME TypeOK, TermInv, RunInv, NEW a \in Actions, a \in Scheduled, state[a] \notin Terminal
  PROVE  answers = <<>>
<1>1. PICK r \in Roots : (a = r \/ r \in Ancestors[a]) /\ (Answered => state[r] \in Terminal)
  BY DEF RunInv
<1>2. r \in Actions /\ (a = r \/ a \in Below(r))
  BY <1>1, TreeAssumption DEF Below
<1>3. QED
  BY <1>1, <1>2 DEF TermInv, Answered

LEMMA TurnThread ==
  ASSUME TypeOK, NEW a \in Actions,
         \/ Throws(a) \/ Asks(a) \/ Waits(a) \/ Finishes(a) \/ Drops(a)
         \/ \E scheduled : Polls(a, scheduled) \/ Judged(a, scheduled)
  PROVE  /\ thread' \in {"running", "ended"}
         /\ thrown' = thrown \/ state[a] \in {"Idle", "WaitingMessages"}
<1>1. thread \in {"running", "ended"}
  BY DEF TypeOK
<1>2. CASE Throws(a)
  BY <1>1, <1>2 DEF Throws, Throw
<1>3. CASE Asks(a)
  BY <1>1, <1>3 DEF Asks, Waiting
<1>4. CASE Waits(a)
  BY <1>1, <1>4 DEF Waits, Waiting
<1>5. CASE Finishes(a)
  BY <1>1, <1>5 DEF Finishes, Finish
<1>6. CASE Drops(a)
  BY <1>1, <1>6 DEF Drops, Drop
<1>7. ASSUME NEW scheduled, Polls(a, scheduled) \/ Judged(a, scheduled)
      PROVE  thread' \in {"running", "ended"} /\ thrown' = thrown
  BY <1>1, <1>7 DEF Polls, Judged, Waiting
<1>8. QED
  BY <1>2, <1>3, <1>4, <1>5, <1>6, <1>7

\* The answer with results is the one of Finish.
LEMMA ResultsFinish ==
  ASSUME TypeOK, NEW a \in Actions, answers' = <<"results">>, answers = <<>>,
         \/ Throws(a) \/ Asks(a) \/ Waits(a) \/ Finishes(a) \/ Drops(a)
         \/ \E scheduled : Polls(a, scheduled) \/ Judged(a, scheduled)
  PROVE  /\ Finishes(a) /\ a \in Roots /\ thrown' = thrown
         /\ Decides[a] = {} => thrown = {}
<1>1. <<"results">> # <<>> /\ Append(<<>>, "error") # <<"results">>
  <2>1. Len(<<"results">>) = 1 /\ Len(<<>>) = 0
    OBVIOUS
  <2>2. Append(<<>>, "error")[1] = "error" /\ <<"results">>[1] = "results"
    OBVIOUS
  <2>3. QED
    BY <2>1, <2>2
<1>2. ~Throws(a) /\ ~Asks(a) /\ ~Waits(a) /\ ~Drops(a)
  BY <1>1 DEF Throws, Throw, Asks, Waits, Drops, Drop, Waiting
<1>3. ~ \E scheduled : Polls(a, scheduled) \/ Judged(a, scheduled)
  BY <1>1 DEF Polls, Judged, Waiting
<1>4. Finishes(a)
  BY <1>2, <1>3
<1> DEFINE st == CleanUp(SetState(a, "Finished"), a)
<1>5. Finish(a, st)
  BY <1>4 DEF Finishes
<1> HIDE DEF st
<1>6. a \in Roots /\ answers' = Append(<<>>, Answer(a, st)) /\ thrown' = thrown
  BY <1>1, <1>5 DEF Finish
<1>7. Decides[a] = {} => thrown = {}
  <2>1. ASSUME Decides[a] = {}, thrown # {}
        PROVE  FALSE
    <3>1. Answer(a, st) = "error"
      BY <2>1 DEF Answer
    <3>2. QED
      BY <1>1, <1>6, <3>1
  <2>2. QED
    BY <2>1
<1>8. QED
  BY <1>4, <1>6, <1>7

LEMMA ResultStep ==
  ASSUME TypeOK, TermInv, RunInv, RunInv', ResultInv, NEW a \in Actions, a \in Scheduled,
         Moved(a), Replied(a), state[a] \in Terminal => state'[a] \in Terminal,
         \/ Throws(a) \/ Asks(a) \/ Waits(a) \/ Finishes(a) \/ Drops(a)
         \/ \E scheduled : Polls(a, scheduled) \/ Judged(a, scheduled)
  PROVE  ResultInv'
<1>1. /\ Roots \subseteq Actions /\ \A r \in Roots : r \notin Below(a)
      /\ \A r \in Roots : Ancestors[r] = {}
  BY TreeAssumption DEF Below
<1>2. "Idle" \notin Terminal
  BY DEF Terminal, Ended
<1>3. SUFFICES ASSUME answers' = <<"results">>, NEW r \in Roots, state'[r] # "Idle"
               PROVE  state'[r] \in Terminal /\ (Decides[r] = {} => thrown' = {})
  BY DEF ResultInv
<1>4. <<"results">> # <<>>
  OBVIOUS
<1>5. CASE answers' = answers
  <2>1. state[a] \in Terminal
    BY <1>3, <1>4, <1>5, NotAnswered
  <2>2. thrown' = thrown
    BY <2>1, TurnThread DEF Terminal, Ended
  <2>3. r # a => state'[r] = state[r]
    BY <1>1 DEF Moved
  <2>4. state[r] # "Idle"
    BY <1>2, <1>3, <2>1, <2>3
  <2>5. state[r] \in Terminal /\ (Decides[r] = {} => thrown = {})
    BY <1>3, <1>5, <2>4 DEF ResultInv
  <2>6. QED
    BY <2>1, <2>2, <2>3, <2>5
<1>6. CASE answers' # answers
  <2>1. a \in Roots /\ state[a] \notin Terminal /\ state'[a] \in Terminal
    BY <1>6 DEF Replied
  <2>2. answers = <<>>
    BY <2>1, NotAnswered
  <2>3. thrown' = thrown /\ (Decides[a] = {} => thrown = {})
    BY <1>3, <2>2, ResultsFinish
  <2>4. state'[a] # "Idle"
    BY <1>2, <2>1
  <2>5. r = a
    BY <1>1, <1>3, <2>1, <2>4 DEF RunInv
  <2>6. QED
    BY <2>1, <2>3, <2>5
<1>7. QED
  BY <1>5, <1>6


-----------------------------------------------------------------------------
\* The invariant.
IndInv ==
  /\ TypeOK
  /\ Uniq
  /\ ListInv
  /\ TermInv
  /\ IdleInv
  /\ RunInv
  /\ FailureStaysInBranch
  /\ AskInv
  /\ ResultInv

LEMMA InitInv == Init => IndInv
<1> SUFFICES ASSUME Init
             PROVE  IndInv
  OBVIOUS
<1>1. PICK r \in Roots : priorities = <<r>>
  BY DEF Init
<1>2. r \in Actions /\ nices = <<>>
  BY <1>1, TreeAssumption DEF Init
<1>3. /\ priorities \in Seq(Actions) /\ nices \in Seq(Actions)
      /\ DOMAIN priorities = {1} /\ DOMAIN nices = {} /\ priorities[1] = r
  BY <1>1, <1>2
<1>4. ToSet(priorities) = {r} /\ ToSet(nices) = {} /\ Scheduled = {r}
  BY <1>3 DEF ToSet, Scheduled
<1>5. Uniq
  BY <1>3, <1>4 DEF Uniq, Once
<1>6. \A a \in Actions : state[a] = "Idle" /\ message[a] = Nothing
  BY DEF Init
<1>7. TypeOK
  <2>1. message \in [Actions -> {Nothing} \cup
                               [from : Actions, result : {"results", "error", "exception"}]]
    BY DEF Init
  <2>2. state \in [Actions -> {"Idle"} \cup Working \cup Terminal]
    BY DEF Init
  <2>3. QED
    BY <1>3, <2>1, <2>2 DEF Init, TypeOK
<1>8. "Idle" \notin Working /\ "Idle" \notin Terminal
  BY DEF Working, Terminal, Ended
<1>9. ListInv
  BY <1>1, <1>4, <1>6, <1>8, <1>2 DEF ListInv
<1>10. TermInv /\ IdleInv
  BY <1>6, <1>8 DEF TermInv, IdleInv, Below
<1>11. RunInv
  BY <1>4, <1>6 DEF RunInv, Answered, Init
<1>12. FailureStaysInBranch
  BY <1>6 DEF FailureStaysInBranch
<1>13. AskInv
  BY <1>6, <1>8 DEF AskInv, Init, Nothing
<1>14. ResultInv
  <2>1. \A q \in Roots : state[q] = "Idle"
    BY <1>6, TreeAssumption
  <2>2. QED
    BY <2>1 DEF ResultInv
<1>15. QED
  BY <1>5, <1>7, <1>9, <1>10, <1>11, <1>12, <1>13, <1>14 DEF IndInv

LEMMA TurnInv == IndInv /\ RunAction => IndInv'
<1> SUFFICES ASSUME IndInv, RunAction
             PROVE  IndInv'
  OBVIOUS
<1>1. /\ TypeOK /\ Uniq /\ ListInv /\ TermInv /\ IdleInv /\ RunInv /\ FailureStaysInBranch
      /\ AskInv /\ ResultInv
  BY DEF IndInv
<1>2. PICK a \in Actions :
        /\ Turn(a)
        /\ \/ Throws(a) \/ Asks(a) \/ Waits(a) \/ Finishes(a) \/ Drops(a)
           \/ \E scheduled : Polls(a, scheduled) \/ Judged(a, scheduled)
  BY <1>1, TurnCases
<1>3. /\ Moved(a)
      /\ state[a] \in Terminal => state'[a] \in Terminal
      /\ state[a] = "WaitingChildren" => state'[a] \in {"WaitingChildren"} \cup Terminal
      /\ state'[a] # "Idle"
      /\ state'[a] = "WaitingMessages" => state[a] \in {"Idle", "WaitingMessages"} /\
           \A b \in Actions : b # a => state'[b] = state[b]
  BY <1>1, <1>2, TurnMoves
<1>4. a \in Scheduled /\ \E fresh \in SUBSET Actions : Listed(a, fresh)
  BY <1>1, <1>2, TurnScheduled
<1>5. PICK fresh \in SUBSET Actions : Listed(a, fresh)
  BY <1>4
<1>6. Replied(a)
  BY <1>1, <1>2, TurnReplied
<1>7. TermInv'
  BY <1>1, <1>3, TermStep
<1>8. IdleInv'
  BY <1>1, <1>3, <1>4, IdleStep
<1>9. ListInv'
  BY <1>1, <1>2, <1>3, <1>4, <1>5, ListStep
<1>10. RunInv'
  BY <1>1, <1>3, <1>4, <1>5, <1>6, RunStep
<1>11. FailureStaysInBranch' /\ thrown' \subseteq Actions
  BY <1>1, <1>2, BranchStep
<1>12. AskInv'
  <2>1. CASE Asks(a)
    BY <1>1, <1>2, <2>1, AskAsks
  <2>2. CASE ~Asks(a)
    BY <1>1, <1>2, <1>3, <2>2, AskStill
  <2>3. QED
    BY <2>1, <2>2
<1>13. ResultInv'
  BY <1>1, <1>2, <1>3, <1>4, <1>6, <1>10, ResultStep
<1>14. TypeOK'
  <2>1. state' \in [Actions -> {"Idle"} \cup Working \cup Terminal]
    BY <1>3 DEF Moved, States
  <2>2. priorities' \in Seq(Actions) /\ nices' \in Seq(Actions)
    BY <1>5 DEF Listed
  <2>3. expecting' \subseteq Actions /\ asked' \subseteq Actions /\ pending' \subseteq asked'
    <3>1. CASE Asks(a)
      BY <1>1, <3>1 DEF TypeOK, Asks
    <3>2. CASE Still
      BY <1>1, <3>2 DEF TypeOK, Still
    <3>3. QED
      BY <1>1, <1>2, <3>1, <3>2, StillFacts
  <2>4. message' = message
    BY <1>2 DEF Turn
  <2>5. answers' \in Seq({"results", "error"})
    <3>1. answers \in Seq({"results", "error"})
      BY <1>1 DEF TypeOK
    <3>2. answers' = answers \/ \E result \in {"results", "error"} : answers' = Append(answers, result)
      BY <1>6 DEF Replied
    <3>3. \A result \in {"results", "error"} : Append(answers, result) \in Seq({"results", "error"})
      BY <3>1, AppendProperties
    <3>4. QED
      BY <3>1, <3>2, <3>3
  <2>6. thread' \in {"running", "ended"}
    BY <1>1, <1>2, TurnThread
  <2>7. QED
    BY <1>1, <1>11, <2>1, <2>2, <2>3, <2>4, <2>5, <2>6 DEF TypeOK
<1>15. Uniq'
  BY <1>5 DEF Listed
<1>16. QED
  BY <1>7, <1>8, <1>9, <1>10, <1>11, <1>12, <1>13, <1>14, <1>15 DEF IndInv

LEMMA HandleInv ==
  ASSUME IndInv, NEW a \in Actions, NEW kind \in {"results", "error", "exception"},
         HandleMessage(a, kind)
  PROVE  IndInv'
<1>1. /\ TypeOK /\ Uniq /\ ListInv /\ TermInv /\ IdleInv /\ RunInv /\ FailureStaysInBranch
      /\ AskInv /\ ResultInv
  BY DEF IndInv
<1>2. /\ message' \in [Actions -> {Nothing} \cup
                         [from : Actions, result : {"results", "error", "exception"}]]
      /\ expecting' = expecting \ Takers(a, kind) /\ pending' = pending \ {a}
      /\ state' = state /\ asked' = asked /\ thrown' = thrown /\ answers' = answers
      /\ thread' = thread /\ nices' = NewNices /\ priorities' = OldPriorities
  BY <1>1, HandleFacts
<1>3. /\ nices' \in Seq(Actions) /\ priorities' \in Seq(Actions) /\ Once(nices') /\ Once(priorities')
      /\ ToSet(nices') \cap ToSet(priorities') = {}
      /\ ToSet(nices') \cup ToSet(priorities') = Scheduled
  BY <1>1, <1>2, TurnLists
<1>4. Uniq'
  BY <1>3 DEF Uniq
<1>5. Scheduled' = Scheduled
  <2>1. Scheduled' = ToSet(priorities') \cup ToSet(nices')
    BY DEF Scheduled, ToSet
  <2>2. QED
    BY <1>3, <2>1
<1>6. TypeOK'
  BY <1>1, <1>2, <1>3 DEF TypeOK
<1>7. ListInv'
  BY <1>1, <1>2, <1>5 DEF ListInv
<1>8. TermInv' /\ IdleInv'
  BY <1>1, <1>2 DEF TermInv, IdleInv
<1>9. RunInv'
  BY <1>1, <1>2, <1>5 DEF RunInv, Answered
<1>10. FailureStaysInBranch'
  BY <1>1, <1>2 DEF FailureStaysInBranch
<1>11. AskInv'
  BY <1>1, AskHandle
<1>12. ResultInv'
  BY <1>1, <1>2 DEF ResultInv
<1>13. QED
  BY <1>4, <1>6, <1>7, <1>8, <1>9, <1>10, <1>11, <1>12 DEF IndInv

LEMMA StutterInv == IndInv /\ UNCHANGED vars => IndInv'
<1> SUFFICES ASSUME IndInv, UNCHANGED vars
             PROVE  IndInv'
  OBVIOUS
<1>1. /\ state' = state /\ priorities' = priorities /\ nices' = nices /\ expecting' = expecting
      /\ message' = message /\ asked' = asked /\ pending' = pending /\ thrown' = thrown
      /\ answers' = answers /\ thread' = thread
  BY DEF vars
<1>2. Scheduled' = Scheduled /\ Answered' = Answered
  BY <1>1 DEF Scheduled, Answered
<1>3. TypeOK' /\ Uniq'
  BY <1>1 DEF IndInv, TypeOK, Uniq
<1>4. ListInv' /\ RunInv'
  BY <1>1, <1>2 DEF IndInv, ListInv, RunInv
<1>5. TermInv' /\ IdleInv' /\ FailureStaysInBranch' /\ ResultInv'
  BY <1>1 DEF IndInv, TermInv, IdleInv, FailureStaysInBranch, ResultInv
<1>6. AskInv'
  <2>1. \A a : Spoilt(a)' <=> Spoilt(a)
    BY <1>1 DEF Spoilt
  <2>2. QED
    BY <1>1, <2>1 DEF IndInv, AskInv
<1>7. QED
  BY <1>3, <1>4, <1>5, <1>6 DEF IndInv

\* The inductive invariant holds in every behaviour of the worker.
THEOREM Invariance == Spec => []IndInv
<1>1. IndInv /\ [Next]_vars => IndInv'
  BY TurnInv, HandleInv, StutterInv DEF Next
<1>2. QED
  BY InitInv, <1>1, PTL DEF Spec


\* Every variable keeps to its type.
THEOREM TypeCorrect == Spec => []TypeOK
BY Invariance, PTL DEF IndInv

\* The event lists neither lose nor double an action that waits, and after the answer
\* nothing in the tree is left to be done.
THEOREM QuietInTheEnd == Spec => []QuietAfterAnswer
<1>1. ASSUME IndInv
      PROVE  PolledOnce
  <2>1. TypeOK /\ Uniq /\ ListInv
    BY <1>1 DEF IndInv
  <2>2. Once(priorities \o nices)
    BY <2>1, JoinElements DEF TypeOK, Uniq
  <2>3. QED
    BY <2>1, <2>2 DEF PolledOnce, ListInv, Once
<1>2. ASSUME IndInv, Answered
      PROVE  \E r \in Roots : \A a \in Actions : a = r \/ r \in Ancestors[a] => state[a] \in Terminal
  <2>1. TermInv /\ RunInv
    BY <1>1, <1>2 DEF IndInv
  <2>2. PICK r \in Roots : state[r] \in Terminal
    BY <1>2, <2>1 DEF RunInv
  <2>3. r \in Actions
    BY TreeAssumption
  <2>4. \A a \in Actions : a = r \/ r \in Ancestors[a] => state[a] \in Terminal
    BY <2>1, <2>2, <2>3 DEF TermInv, Below
  <2>5. QED
    BY <2>4
<1>3. IndInv => QuietAfterAnswer
  BY <1>1, <1>2 DEF QuietAfterAnswer
<1>4. QED
  BY <1>3, Invariance, PTL

\* An action fails or is cancelled only for what happened in its own branch or under its
\* own judge.
THEOREM BranchesFailAlone == Spec => []FailureStaysInBranch
BY Invariance, PTL DEF IndInv

LEMMA OwnInvariance ==
  ASSUME SeparateContexts
  PROVE  Spec => [](IndInv /\ OwnInv)
<1>1. Init => OwnInv
  BY DEF Init, OwnInv
<1>2. IndInv /\ OwnInv /\ [Next]_vars => OwnInv'
  <2>1. ASSUME IndInv, OwnInv, RunAction
        PROVE  OwnInv'
    <3>1. TypeOK /\ TermInv /\ IdleInv /\ AskInv
      BY <2>1 DEF IndInv
    <3>2. QED
      BY <2>1, <3>1, TurnCases, OwnTurn
  <2>2. ASSUME IndInv, OwnInv, NEW a \in Actions, NEW kind \in {"results", "error", "exception"},
               HandleMessage(a, kind)
        PROVE  OwnInv'
    <3>1. TypeOK /\ AskInv /\ RunInv
      BY <2>2 DEF IndInv
    <3>2. QED
      BY <2>2, <3>1, OwnHandle
  <2>3. ASSUME OwnInv, UNCHANGED vars
        PROVE  OwnInv'
    BY <2>3 DEF OwnInv, vars
  <2>4. QED
    BY <2>1, <2>2, <2>3 DEF Next
<1>3. QED
  BY <1>1, <1>2, Invariance, PTL DEF Spec

\* With separate contexts the results of a worker are made of the replies to its own
\* requests.
THEOREM OwnRepliesOnly ==
  ASSUME SeparateContexts
  PROVE  Spec => []OwnReplies
<1>1. ASSUME IndInv, OwnInv
      PROVE  OwnReplies
  <2>1. SUFFICES ASSUME answers = <<"results">>, NEW r \in Roots, NEW a \in Actions,
                        state[r] # "Idle", Decides[r] = {}, r \in Ancestors[a], Topic[a] # "none"
                 PROVE  message[a] = [from |-> a, result |-> "results"]
    BY DEF OwnReplies
  <2>2. TypeOK /\ TermInv /\ AskInv /\ ResultInv /\ FailureStaysInBranch
    BY <1>1 DEF IndInv
  <2>3. state[r] \in Terminal /\ thrown = {} /\ r \in Actions
    BY <2>1, <2>2, TreeAssumption DEF ResultInv
  <2>4. state[a] \in Terminal
    BY <2>1, <2>2, <2>3 DEF TermInv, Below
  <2>5. state[a] = "Finished"
    BY <2>2, <2>3, <2>4 DEF FailureStaysInBranch, Terminal, Ended
  <2>6. a \in asked /\ ~Spoilt(a)
    BY <2>1, <2>2, <2>5 DEF AskInv, Spoilt
  <2>7. message[a].result = "results"
    BY <2>2, <2>5, <2>6 DEF AskInv
  <2>8. message[a] # Nothing
    BY <2>7 DEF Nothing
  <2>9. message[a].from = a
    BY <1>1, <2>6, <2>7, <2>8 DEF OwnInv
  <2>10. message[a] \in [from : Actions, result : {"results", "error", "exception"}]
    BY <2>2, <2>8 DEF TypeOK
  <2>11. QED
    BY <2>7, <2>9, <2>10
<1>2. QED
  BY <1>1, OwnInvariance, PTL

-----------------------------------------------------------------------------
\* The worker is a job.  When it answers with results, all replies have come.
LEMMA ResultsComplete ==
  ASSUME SeparateContexts, DecidesAlone, IndInv, OwnInv, NEW a \in Roots, a \in Scheduled,
         Finishes(a), Decides[a] = {} => thrown = {}
  PROVE  pending = {}
<1>1. TypeOK /\ TermInv /\ RunInv /\ AskInv /\ FailureStaysInBranch
  BY DEF IndInv
<1>2. a \in Actions /\ Ancestors[a] = {} /\ Topic[a] = "none"
  BY TreeAssumption
<1>3. \A b \in Actions : state[b] # "Idle" => b = a \/ a \in Ancestors[b]
  BY <1>1, <1>2 DEF RunInv
<1>4. \A b \in Below(a) : state[b] \in Terminal
  BY <1>1, <1>2, FinishesMoves
<1>5. ASSUME NEW b \in pending
      PROVE  FALSE
  <2>1. b \in asked /\ b \in Actions /\ Topic[b] # "none" /\ state[b] # "Idle"
    BY <1>1, <1>5 DEF TypeOK, AskInv
  <2>2. a \in Ancestors[b] /\ state[b] \in Terminal
    BY <1>2, <1>3, <1>4, <2>1 DEF Below
  <2>3. ~Spoilt(b)
    <3>1. CASE Decides[a] = {}
      BY <1>1, <2>1, <3>1 DEF FailureStaysInBranch, Spoilt
    <3>2. CASE Decides[a] # {}
      BY <2>1, <2>2, <3>2 DEF DecidesAlone, Spoilt
    <3>3. QED
      BY <3>1, <3>2
  <2>4. state[b] # "WaitingMessages"
    BY <2>2 DEF Terminal, Ended
  <2>5. message[b].result = "results"
    BY <1>1, <2>1, <2>3, <2>4 DEF AskInv
  <2>6. b \notin expecting
    BY <1>1, <2>1, <2>5 DEF AskInv, Nothing
  <2>7. QED
    BY <1>5, <2>5, <2>6 DEF OwnInv
<1>6. QED
  BY <1>5


LEMMA JobTurn ==
  ASSUME SeparateContexts, DecidesAlone, IndInv, OwnInv, RunAction
  PROVE  Job!Next \/ UNCHANGED Job!vars
<1>1. TypeOK /\ Uniq /\ ListInv /\ TermInv /\ IdleInv /\ RunInv /\ AskInv
  BY DEF IndInv
<1>2. PICK a \in Actions :
        /\ Turn(a)
        /\ \/ Throws(a) \/ Asks(a) \/ Waits(a) \/ Finishes(a) \/ Drops(a)
           \/ \E scheduled : Polls(a, scheduled) \/ Judged(a, scheduled)
  BY <1>1, TurnCases
<1>3. a \in Scheduled /\ Replied(a)
  BY <1>1, <1>2, TurnScheduled, TurnReplied
<1>4. state[a] \notin Terminal => answers = <<>>
  BY <1>1, <1>3, NotAnswered
<1>5. CASE Asks(a)
  <2>1. state[a] = "Idle" /\ answers' = answers
        /\ asked' = asked \cup {a} /\ pending' = pending \cup {a}
    BY <1>5 DEF Asks, Waiting
  <2>2. answers = <<>>
    BY <1>4, <2>1 DEF Terminal, Ended
  <2>3. a \notin asked
    BY <1>1, <1>2, <1>5, AskAsks
  <2>4. QED
    BY <2>1, <2>2, <2>3 DEF Job!Next, Job!Ask
<1>6. CASE ~Asks(a)
  <2>1. asked' = asked /\ pending' = pending
    BY <1>1, <1>2, <1>6, StillFacts DEF Still
  <2>2. CASE answers' = answers
    BY <2>1, <2>2 DEF Job!vars
  <2>3. CASE answers' # answers
    <3>1. PICK result \in {"results", "error"} :
            a \in Roots /\ state[a] \notin Terminal /\ answers' = Append(answers, result)
      BY <1>3, <2>3 DEF Replied
    <3>2. answers = <<>>
      BY <1>4, <3>1
    <3>3. answers' = <<result>>
      BY <3>1, <3>2
    <3>4. result = "results" => pending = {}
      <4>1. ASSUME result = "results"
            PROVE  Finishes(a) /\ (Decides[a] = {} => thrown = {})
        BY <1>1, <1>2, <3>2, <3>3, <4>1, ResultsFinish
      <4>2. QED
        BY <1>3, <3>1, <4>1, ResultsComplete
    <3>5. Job!Answer(result)
      BY <2>1, <3>2, <3>3, <3>4 DEF Job!Answer
    <3>6. QED
      BY <3>5 DEF Job!Next
  <2>4. QED
    BY <2>2, <2>3
<1>7. QED
  BY <1>5, <1>6

\* A compute worker is a job of ComputeJob: it answers once, asks nothing afterwards, and
\* gives results only when all its requests have been answered.
THEOREM WorkerIsJob ==
  ASSUME SeparateContexts, DecidesAlone
  PROVE  Spec => IsJob
<1>1. Init => Job!Init
  BY DEF Init, Job!Init
<1>2. IndInv /\ OwnInv /\ [Next]_vars => [Job!Next]_(Job!vars)
  <2>1. ASSUME IndInv, NEW a \in Actions, NEW kind \in {"results", "error", "exception"},
               HandleMessage(a, kind)
        PROVE  Job!Next
    <3>1. a \in pending /\ pending' = pending \ {a} /\ asked' = asked /\ answers' = answers
      BY <2>1, HandleFacts DEF IndInv
    <3>2. QED
      BY <3>1 DEF Job!Next, Job!Reply
  <2>2. ASSUME UNCHANGED vars
        PROVE  UNCHANGED Job!vars
    BY <2>2 DEF vars, Job!vars
  <2>3. QED
    BY <2>1, <2>2, JobTurn DEF Next
<1>3. QED
  BY <1>1, <1>2, OwnInvariance, PTL DEF Spec, IsJob, Job!Spec

-----------------------------------------------------------------------------
(* Lists, for the series and the actions of Schedules.                     *)

\* Where an element may be put into a list, and what the list has then.
LEMMA InsertAtElements ==
  ASSUME NEW X, NEW q \in Seq(X), NEW x \in X, NEW k \in 1 .. Len(q) + 1
  PROVE  /\ InsertAt(q, k, x) \in Seq(X)
         /\ Len(InsertAt(q, k, x)) = Len(q) + 1
         /\ \A i \in 1 .. Len(q) + 1 :
              InsertAt(q, k, x)[i] = IF i < k THEN q[i] ELSE IF i = k THEN x ELSE q[i - 1]
<1> DEFINE n == Len(q)
           a == SubSeq(q, 1, k - 1)
           b == SubSeq(q, k, n)
           o == <<x>>
           s == InsertAt(q, k, x)
<1>1. n \in Nat /\ k \in 1 .. n + 1
  BY LenProperties
<1>2. /\ a \in Seq(X) /\ Len(a) = k - 1 /\ \A i \in 1 .. (k - 1) : a[i] = q[i]
  <2>1. \A i \in 1 .. (k - 1) : i \in 1 .. n
    BY <1>1
  <2>2. QED
    BY <1>1, <2>1, SubSeqProperties
<1>3. /\ b \in Seq(X) /\ Len(b) = n - k + 1 /\ \A i \in 1 .. (n - k + 1) : b[i] = q[i + k - 1]
  <2>1. \A i \in k .. n : i \in 1 .. n
    BY <1>1
  <2>2. CASE k <= n
    BY <1>1, <2>1, <2>2, SubSeqProperties
  <2>3. CASE k = n + 1
    <3>1. b = <<>> /\ n - k + 1 = 0
      BY <1>1, <2>3, SubSeqProperties
    <3>2. QED
      BY <3>1
  <2>4. QED
    BY <1>1, <2>2, <2>3
<1>4. s = (a \o o) \o b /\ o \in Seq(X) /\ Len(o) = 1 /\ o[1] = x
  BY DEF InsertAt
<1> DEFINE c == a \o o
<1> HIDE DEF a, b, n, s, o
<1>5. /\ c \in Seq(X) /\ Len(c) = k
      /\ \A i \in 1 .. k : c[i] = IF i < k THEN q[i] ELSE x
  <2>1. /\ c \in Seq(X) /\ Len(c) = (k - 1) + 1
        /\ \A i \in 1 .. ((k - 1) + 1) : c[i] = IF i <= k - 1 THEN a[i] ELSE o[i - (k - 1)]
    <3>1. /\ c \in Seq(X) /\ Len(c) = Len(a) + Len(o)
          /\ \A i \in 1 .. (Len(a) + Len(o)) : c[i] = IF i <= Len(a) THEN a[i] ELSE o[i - Len(a)]
      BY <1>2, <1>4, ConcatProperties
    <3>2. Len(a) = k - 1 /\ Len(o) = 1
      BY <1>2, <1>4
    <3> HIDE DEF c
    <3>3. QED
      BY <3>1, <3>2
  <2>2. \A i \in 1 .. k : (i < k => i \in 1 .. (k - 1) /\ i <= k - 1)
                          /\ (~(i < k) => i - (k - 1) = 1 /\ ~(i <= k - 1))
    BY <1>1
  <2>3. (k - 1) + 1 = k
    BY <1>1
  <2>4. QED
    BY <1>2, <1>4, <2>1, <2>2, <2>3
<1>6. s = c \o b
  BY <1>4
<1> HIDE DEF c
<1>7. /\ s \in Seq(X) /\ Len(s) = k + (n - k + 1)
      /\ \A i \in 1 .. (k + (n - k + 1)) : s[i] = IF i <= k THEN c[i] ELSE b[i - k]
  <2>1. /\ s \in Seq(X) /\ Len(s) = Len(c) + Len(b)
        /\ \A i \in 1 .. (Len(c) + Len(b)) : s[i] = IF i <= Len(c) THEN c[i] ELSE b[i - Len(c)]
    BY <1>3, <1>5, <1>6, ConcatProperties
  <2>2. Len(c) = k /\ Len(b) = n - k + 1
    BY <1>3, <1>5
  <2>3. QED
    BY <2>1, <2>2
<1>8. k + (n - k + 1) = n + 1
  BY <1>1
<1>9. \A i \in 1 .. (n + 1) : s[i] = IF i < k THEN q[i] ELSE IF i = k THEN x ELSE q[i - 1]
  <2> TAKE i \in 1 .. (n + 1)
  <2>1. CASE i <= k
    <3>1. i \in 1 .. k /\ s[i] = c[i]
      BY <1>1, <1>7, <1>8, <2>1
    <3>2. QED
      BY <1>1, <1>5, <2>1, <3>1
  <2>2. CASE ~(i <= k)
    <3>1. i - k \in 1 .. (n - k + 1) /\ (i - k) + k - 1 = i - 1 /\ ~(i < k) /\ i # k
      BY <1>1, <2>2
    <3>2. s[i] = b[i - k]
      BY <1>7, <1>8, <2>2
    <3>3. QED
      BY <1>3, <3>1, <3>2
  <2>3. QED
    BY <2>1, <2>2
<1>10. QED
  BY <1>7, <1>8, <1>9 DEF s, n

\* The least of some places.
LEMMA LeastPlace ==
  ASSUME NEW T \in SUBSET Nat, T # {}
  PROVE  Min(T) \in T /\ \A y \in T : Min(T) <= y
<1>1. \E x \in T : \A y \in T : x <= y
  BY LeastNumber
<1>2. QED
  BY <1>1 DEF Min

\* The most of a list of numbers is in it.
LEMMA MostOfList ==
  ASSUME NEW k \in Nat, k > 0, NEW v \in [1 .. k -> Nat]
  PROVE  \E x \in 1 .. k : \A y \in 1 .. k : v[x] >= v[y]
<1> DEFINE G == {n \in 0 .. k : n = 0 \/ \E x \in 1 .. n : \A y \in 1 .. n : v[x] >= v[y]}
<1>1. 0 \in G
  OBVIOUS
<1>2. ASSUME NEW n \in 1 .. k, n - 1 \in G
      PROVE  n \in G
  <2>1. \A y \in 1 .. n : y = n \/ y \in 1 .. (n - 1)
    OBVIOUS
  <2>2. n \in 1 .. n /\ n \in 0 .. k /\ \A y \in 1 .. n : v[y] \in Nat
    OBVIOUS
  <2>3. CASE n = 1
    <3>1. \A y \in 1 .. n : y = n
      BY <2>3
    <3>2. v[n] >= v[n]
      BY <2>2
    <3>3. QED
      BY <2>2, <3>1, <3>2
  <2>4. CASE n # 1
    <3>1. PICK x \in 1 .. (n - 1) : \A y \in 1 .. (n - 1) : v[x] >= v[y]
      BY <1>2, <2>4
    <3>2. x \in 1 .. n
      BY <3>1
    <3>3. CASE v[x] >= v[n]
      <4>1. \A y \in 1 .. n : v[x] >= v[y]
        BY <2>1, <3>1, <3>3
      <4>2. QED
        BY <2>2, <3>2, <4>1
    <3>4. CASE ~(v[x] >= v[n])
      <4>1. \A y \in 1 .. n : v[n] >= v[y]
        <5> TAKE y \in 1 .. n
        <5>1. CASE y = n
          BY <2>2, <5>1
        <5>2. CASE y \in 1 .. (n - 1)
          BY <2>2, <3>1, <3>2, <3>4, <5>2
        <5>3. QED
          BY <2>1, <5>1, <5>2
      <4>2. QED
        BY <2>2, <4>1
    <3>5. QED
      BY <3>3, <3>4
  <2>5. QED
    BY <2>3, <2>4
<1> HIDE DEF G
<1>3. \A n \in 0 .. k : n \in G
  BY <1>1, <1>2, Climb
<1>4. k \in G /\ k # 0
  BY <1>3
<1>5. QED
  BY <1>4 DEF G

-----------------------------------------------------------------------------
(* The deltas of a series.                                                 *)
Held == [s : Int, e : Int, bw : Nat]

LEMMA InsertTyped ==
  ASSUME NEW ads \in Seq(Held), NEW d \in Held
  PROVE  Insert(ads, d) \in Seq(Held)
<1> DEFINE later == {i \in DOMAIN ads : ads[i].s >= d.e}
<1>1. CASE later = {}
  BY <1>1, AppendElements DEF Insert
<1>2. CASE later # {}
  <2>1. later \in SUBSET Nat /\ later \subseteq 1 .. Len(ads)
    OBVIOUS
  <2> HIDE DEF later
  <2>2. Min(later) \in 1 .. Len(ads) + 1
    <3>1. Min(later) \in later /\ Len(ads) \in Nat
      BY <1>2, <2>1, LeastPlace
    <3>2. Min(later) \in 1 .. Len(ads)
      BY <2>1, <3>1
    <3> DEFINE k == Min(later)
    <3>3. k \in 1 .. Len(ads)
      BY <3>2
    <3> HIDE DEF k
    <3>4. k \in 1 .. Len(ads) + 1
      BY <3>1, <3>3
    <3>5. QED
      BY <3>4 DEF k
  <2>3. QED
    BY <1>2, <2>2, InsertAtElements DEF Insert, later
<1>3. QED
  BY <1>1, <1>2

LEMMA ReplacedTyped ==
  ASSUME NEW ads \in Seq(Held), NEW a, NEW b \in Held
  PROVE  Replaced(ads, a, b) \in Seq(Held)
BY DEF Replaced

LEMMA MergeTyped ==
  ASSUME NEW a \in Held, NEW d \in Held, NEW join \in BOOLEAN
  PROVE  Merge(a, d, join) \in Held
<1>1. Join(a, d) \in Held
  BY DEF Join, Held
<1>2. Combine(a, d) \in Held
  BY DEF Combine, Held
<1>3. QED
  BY <1>1, <1>2 DEF Merge

LEMMA EndMoved ==
  ASSUME NEW d \in Held, NEW t \in Int
  PROVE  [d EXCEPT !.s = t] \in Held /\ [d EXCEPT !.e = t] \in Held
BY DEF Held

LEMMA MeetTyped ==
  ASSUME NEW ads \in Seq(Held), NEW d \in Held, NEW a \in Held, NEW join \in BOOLEAN
  PROVE  Meet(ads, d, a, join) \in [ads : Seq(Held), left : Held]
<1> DEFINE own == IF a.s < d.s THEN [a EXCEPT !.s = d.s] ELSE a
           rest == IF a.s > d.s THEN [d EXCEPT !.s = a.s] ELSE d
           tail == own.e > rest.e
           base == IF tail THEN [own EXCEPT !.e = rest.e] ELSE own
           met == Merge(base, rest, join)
           cut == [a EXCEPT !.e = d.s]
           front == [d EXCEPT !.e = a.s]
           split == CASE a.s < d.s -> Insert(Replaced(ads, a, cut), own)
                      [] a.s > d.s -> Insert(ads, front)
                      [] OTHER -> ads
           merged == Replaced(split, own, met)
           after == [own EXCEPT !.s = rest.e]
           goesOn == [rest EXCEPT !.s = own.e]
<1>1. own \in Held /\ rest \in Held /\ cut \in Held /\ front \in Held
  BY DEF Held
<1>2. base \in Held /\ after \in Held /\ goesOn \in Held /\ NoDelta \in Held
  <2> HIDE DEF own, rest
  <2>1. own.s \in Int /\ rest.s \in Int /\ own.e \in Int /\ rest.e \in Int
    BY <1>1 DEF Held
  <2>2. base \in Held
    BY <1>1, <2>1, EndMoved
  <2>3. after \in Held /\ goesOn \in Held
    BY <1>1, <2>1, EndMoved
  <2>4. NoDelta \in Held
    BY DEF Held, NoDelta, Delta
  <2>5. QED
    BY <2>2, <2>3, <2>4
<1>3. Meet(ads, d, a, join) = IF tail THEN [ads |-> Insert(merged, after), left |-> NoDelta]
                              ELSE [ads |-> merged, left |-> goesOn]
  BY DEF Meet
<1> HIDE DEF own, rest, tail, base, cut, front, after, goesOn
<1>4. met \in Held
  BY <1>1, <1>2, MergeTyped
<1>5. split \in Seq(Held)
  <2>1. Replaced(ads, a, cut) \in Seq(Held)
    BY <1>1, ReplacedTyped
  <2>2. Insert(Replaced(ads, a, cut), own) \in Seq(Held) /\ Insert(ads, front) \in Seq(Held)
    BY <1>1, <2>1, InsertTyped
  <2>3. QED
    BY <2>2
<1> HIDE DEF met, split
<1>6. merged \in Seq(Held)
  BY <1>4, <1>5, ReplacedTyped
<1> HIDE DEF merged
<1>7. Insert(merged, after) \in Seq(Held)
  BY <1>2, <1>6, InsertTyped
<1>8. QED
  BY <1>2, <1>3, <1>6, <1>7

LEMMA WindowTyped ==
  ASSUME NEW ads \in Seq(Held), NEW s, NEW e
  PROVE  GetADSInWindow(ads, s, e) \in Seq(Held)
BY KeepElements DEF GetADSInWindow

\* How a delta goes through its contacts.
GoesThrough(s, ads, d, w, join) ==
  /\ s \in [0 .. Len(w) -> [ads : Seq(Held), left : Held]]
  /\ s[0] = [ads |-> ads, left |-> d]
  /\ \A n \in 1 .. Len(w) : s[n] = Meet(s[n - 1].ads, s[n - 1].left, w[n], join)
  /\ AddDelta(ads, d, join) =
        IF s[Len(w)].left.s = s[Len(w)].left.e THEN s[Len(w)].ads
        ELSE Insert(s[Len(w)].ads, s[Len(w)].left)

LEMMA AddDeltaSteps ==
  ASSUME NEW ads \in Seq(Held), NEW d \in Held, NEW join \in BOOLEAN,
         NEW contacts, contacts = GetADSInWindow(ads, d.s, d.e)
  PROVE  contacts \in Seq(Held) /\ \E s : GoesThrough(s, ads, d, contacts, join)
<1>1. contacts \in Seq(Held)
  BY WindowTyped
<1> DEFINE m == Len(contacts)
           D == [ads : Seq(Held), left : Held]
           E(b, n) == Meet(b.ads, b.left, contacts[n], join)
           step == [n \in 1 .. m |-> [b \in D |-> E(b, n)]]
           Body(f) == [n \in 0 .. m |-> IF n = 0 THEN [ads |-> ads, left |-> d] ELSE E(f[n - 1], n)]
           s == CHOOSE f : f = Body(f)
<1>2. m \in Nat
  BY <1>1
<1>3. [ads |-> ads, left |-> d] \in D
  OBVIOUS
<1>4. ASSUME NEW b \in D, NEW n \in 1 .. m
      PROVE  E(b, n) \in D
  <2>1. b.ads \in Seq(Held) /\ b.left \in Held /\ contacts[n] \in Held
    BY <1>1
  <2>2. QED
    BY <2>1, MeetTyped
<1>5. AddDelta(ads, d, join) = IF s[m].left.s = s[m].left.e THEN s[m].ads ELSE Insert(s[m].ads, s[m].left)
  BY DEF AddDelta
<1> HIDE DEF m, D, E
<1>6. step \in [1 .. m -> [D -> D]]
  BY <1>4
<1>7. \A n \in 1 .. m, b \in D : step[n][b] = E(b, n)
  OBVIOUS
<1> HIDE DEF step
<1>8. PICK f \in [0 .. m -> D] : Recurs(f, [ads |-> ads, left |-> d], step, m)
  BY <1>2, <1>3, <1>6, Recursion
<1>9. f = Body(f)
  <2>1. \A n \in 0 .. m : n # 0 => n \in 1 .. m /\ n - 1 \in 0 .. m
    BY <1>2
  <2>2. \A n \in 0 .. m : f[n] = IF n = 0 THEN [ads |-> ads, left |-> d] ELSE step[n][f[n - 1]]
    BY <1>8, Zenon DEF Recurs
  <2>3. \A n \in 0 .. m : n # 0 => step[n][f[n - 1]] = E(f[n - 1], n)
    BY <1>7, <1>8, <2>1
  <2>4. \A n \in 0 .. m : f[n] = Body(f)[n]
    BY <2>2, <2>3
  <2>5. QED
    BY <1>8, <2>4
<1> HIDE DEF Body
<1>10. s = Body(s)
  BY <1>9
<1> HIDE DEF s
<1>11. \A n \in 0 .. m : s[n] = IF n = 0 THEN [ads |-> ads, left |-> d] ELSE E(s[n - 1], n)
  BY <1>10, Zenon DEF Body
<1> DEFINE G == {n \in 0 .. m : s[n] \in D}
<1>12. 0 \in G /\ \A n \in 1 .. m : n - 1 \in G => n \in G
  <2>1. 0 \in 0 .. m /\ \A n \in 1 .. m : n \in 0 .. m /\ n # 0
    BY <1>2
  <2>2. QED
    BY <1>3, <1>4, <1>11, <2>1
<1> HIDE DEF G
<1>13. \A n \in 0 .. m : s[n] \in D
  <2>1. \A n \in 0 .. m : n \in G
    BY <1>2, <1>12, Climb
  <2>2. QED
    BY <2>1 DEF G
<1>14. \A n \in 1 .. m : n \in 0 .. m /\ n # 0
  BY <1>2
<1>15. 0 \in 0 .. m /\ s[0] = [ads |-> ads, left |-> d]
  BY <1>2, <1>11
<1>16. \A n \in 1 .. m : s[n] = Meet(s[n - 1].ads, s[n - 1].left, contacts[n], join)
  BY <1>11, <1>14 DEF E
<1>17. s \in [0 .. m -> D]
  <2>1. s = [n \in 0 .. m |-> s[n]]
    BY <1>10 DEF Body
  <2>2. QED
    BY <1>13, <2>1
<1>18. QED
  BY <1>1, <1>5, <1>15, <1>16, <1>17 DEF D, m, GoesThrough

LEMMA AddDeltaTyped ==
  ASSUME NEW ads \in Seq(Held), NEW d \in Held, NEW join \in BOOLEAN
  PROVE  AddDelta(ads, d, join) \in Seq(Held)
<1> DEFINE w == GetADSInWindow(ads, d.s, d.e)
           m == Len(w)
<1>1. w \in Seq(Held) /\ \E s : GoesThrough(s, ads, d, w, join)
  <2>1. w = GetADSInWindow(ads, d.s, d.e)
    OBVIOUS
  <2> HIDE DEF w
  <2>2. QED
    BY <2>1, AddDeltaSteps
<1> HIDE DEF w
<1>2. m \in 0 .. m
  BY <1>1
<1> HIDE DEF m
<1>3. PICK s \in [0 .. m -> [ads : Seq(Held), left : Held]] :
        AddDelta(ads, d, join) = IF s[m].left.s = s[m].left.e THEN s[m].ads
                                 ELSE Insert(s[m].ads, s[m].left)
  BY <1>1, Zenon DEF GoesThrough, m
<1>4. s[m].ads \in Seq(Held) /\ s[m].left \in Held
  BY <1>2
<1>5. QED
  BY <1>4, <1>3, InsertTyped

Sums(s, ds) ==
  /\ s \in [0 .. Len(ds) -> Seq(Held)] /\ s[0] = <<>> /\ SeriesOf(ds) = s[Len(ds)]
  /\ \A n \in 1 .. Len(ds) :
       s[n] = AddDelta(s[n - 1], Delta(ds[n].s, ds[n].e, ds[n].bw), FALSE)
AreHeld(ds) == \A i \in 1 .. Len(ds) : Delta(ds[i].s, ds[i].e, ds[i].bw) \in Held

LEMMA SeriesSteps ==
  ASSUME NEW ds, Len(ds) \in Nat, AreHeld(ds)
  PROVE  \E s : Sums(s, ds)
<1> DEFINE m == Len(ds)
           D == Seq(Held)
           E(b, n) == AddDelta(b, Delta(ds[n].s, ds[n].e, ds[n].bw), FALSE)
           step == [n \in 1 .. m |-> [b \in D |-> E(b, n)]]
           Body(f) == [n \in 0 .. m |-> IF n = 0 THEN EmptySeries ELSE E(f[n - 1], n)]
           s == CHOOSE f : f = Body(f)
<1>1. m \in Nat
  OBVIOUS
<1>2. EmptySeries \in D
  BY DEF EmptySeries
<1>3. ASSUME NEW b \in D, NEW n \in 1 .. m
      PROVE  E(b, n) \in D
  BY AddDeltaTyped DEF AreHeld
<1>4. SeriesOf(ds) = s[m]
  BY DEF SeriesOf
<1> HIDE DEF m, D, E
<1>5. step \in [1 .. m -> [D -> D]]
  BY <1>3
<1>6. \A n \in 1 .. m, b \in D : step[n][b] = E(b, n)
  OBVIOUS
<1> HIDE DEF step
<1>7. PICK f \in [0 .. m -> D] : Recurs(f, EmptySeries, step, m)
  BY <1>1, <1>2, <1>5, Recursion
<1>8. f = Body(f)
  <2>1. \A n \in 0 .. m : n # 0 => n \in 1 .. m /\ n - 1 \in 0 .. m
    BY <1>1
  <2>2. \A n \in 0 .. m : f[n] = IF n = 0 THEN EmptySeries ELSE step[n][f[n - 1]]
    BY <1>7, Zenon DEF Recurs
  <2>3. \A n \in 0 .. m : n # 0 => step[n][f[n - 1]] = E(f[n - 1], n)
    BY <1>6, <1>7, <2>1
  <2>4. \A n \in 0 .. m : f[n] = Body(f)[n]
    BY <2>2, <2>3
  <2>5. QED
    BY <1>7, <2>4
<1> HIDE DEF Body
<1>9. s = Body(s)
  BY <1>8
<1> HIDE DEF s
<1>10. \A n \in 0 .. m : s[n] = IF n = 0 THEN EmptySeries ELSE E(s[n - 1], n)
  BY <1>9, Zenon DEF Body
<1> DEFINE G == {n \in 0 .. m : s[n] \in D}
<1>11. 0 \in G /\ \A n \in 1 .. m : n - 1 \in G => n \in G
  <2>1. 0 \in 0 .. m /\ \A n \in 1 .. m : n \in 0 .. m /\ n # 0
    BY <1>1
  <2>2. QED
    BY <1>2, <1>3, <1>10, <2>1
<1> HIDE DEF G
<1>12. \A n \in 0 .. m : s[n] \in D
  <2>1. \A n \in 0 .. m : n \in G
    BY <1>1, <1>11, Climb
  <2>2. QED
    BY <2>1 DEF G
<1>13. 0 \in 0 .. m /\ \A n \in 1 .. m : n \in 0 .. m /\ n # 0
  BY <1>1
<1>14. s[0] = <<>>
  BY <1>10, <1>13 DEF EmptySeries
<1>15. \A n \in 1 .. m : s[n] = AddDelta(s[n - 1], Delta(ds[n].s, ds[n].e, ds[n].bw), FALSE)
  BY <1>10, <1>13 DEF E
<1>16. s \in [0 .. m -> D]
  <2>1. s = [n \in 0 .. m |-> s[n]]
    BY <1>9 DEF Body
  <2>2. QED
    BY <1>12, <2>1
<1> HIDE DEF s
<1>17. QED
  BY <1>4, <1>14, <1>15, <1>16 DEF D, Sums, m

LEMMA SeriesTyped ==
  ASSUME NEW ds, Len(ds) \in Nat, AreHeld(ds)
  PROVE  SeriesOf(ds) \in Seq(Held)
<1>1. PICK s : Sums(s, ds)
  BY SeriesSteps
<1>2. QED
  BY <1>1 DEF Sums

\* What the deltas of a window hold at most is a number, and what one of them holds.
LEMMA JoinTyped ==
  ASSUME NEW ads \in Seq(Held), NEW s, NEW e
  PROVE  /\ JoinADSInWindow(ads, s, e).bw \in Nat
         /\ GetADSInWindow(ads, s, e) # <<>> =>
              \E i \in DOMAIN GetADSInWindow(ads, s, e) :
                JoinADSInWindow(ads, s, e).bw = GetADSInWindow(ads, s, e)[i].bw
<1> DEFINE w == GetADSInWindow(ads, s, e)
           V == {w[i].bw : i \in DOMAIN w}
<1>1. w \in Seq(Held)
  BY WindowTyped
<1>2. JoinADSInWindow(ads, s, e) = IF w = <<>> THEN NoDelta ELSE [w[1] EXCEPT !.bw = Max(V)]
  BY DEF JoinADSInWindow
<1> HIDE DEF w
<1>3. CASE w = <<>>
  BY <1>2, <1>3 DEF NoDelta, Delta, w
<1>4. CASE w # <<>>
  <2>1. Len(w) \in Nat /\ Len(w) > 0 /\ DOMAIN w = 1 .. Len(w) /\ w[1] \in Held
        /\ \A i \in 1 .. Len(w) : w[i].bw \in Nat
    <3>1. Len(w) \in Nat /\ Len(w) > 0 /\ DOMAIN w = 1 .. Len(w)
      BY <1>1, <1>4, LenProperties, EmptySeq
    <3>2. \A i \in 1 .. Len(w) : w[i] \in Held
      BY <1>1
    <3>3. QED
      BY <3>1, <3>2 DEF Held
  <2> DEFINE v == [i \in 1 .. Len(w) |-> w[i].bw]
  <2>2. v \in [1 .. Len(w) -> Nat]
    BY <2>1
  <2> HIDE DEF v
  <2>3. PICK x \in 1 .. Len(w) : \A y \in 1 .. Len(w) : v[x] >= v[y]
    BY <2>1, <2>2, MostOfList
  <2>4. \A y \in 1 .. Len(w) : v[y] = w[y].bw
    BY DEF v
  <2>5. \E z \in V : \A y \in V : z >= y
    <3>1. \A y \in V : \E i \in 1 .. Len(w) : y = w[i].bw
      BY <2>1
    <3>2. w[x].bw \in V
      BY <2>1, <2>3
    <3>3. \A i \in 1 .. Len(w) : w[x].bw >= w[i].bw
      BY <2>3, <2>4
    <3> HIDE DEF V
    <3>4. QED
      BY <3>1, <3>2, <3>3
  <2>6. Max(V) \in V
    BY <2>5 DEF Max
  <2>7. Max(V) \in Nat /\ \E i \in DOMAIN w : Max(V) = w[i].bw
    BY <2>1, <2>6
  <2> HIDE DEF V
  <2>8. [w[1] EXCEPT !.bw = Max(V)].bw = Max(V)
    BY <2>1 DEF Held
  <2>9. QED
    BY <1>2, <1>4, <2>7, <2>8 DEF w
<1>5. QED
  BY <1>3, <1>4

-----------------------------------------------------------------------------
(* What is asked for.                                                      *)
RequestTyped == request \in Seq(PathRequest) /\ Len(request) \in 1 .. Len(Routes)

LEMMA WindowTimes ==
  ASSUME NEW w \in Window
  PROVE  w.s \in Int /\ w.e \in Int /\ w.s \in Nat /\ w.s < w.e
<1>1. w \in [s : Times, e : Times] /\ w.s < w.e
  BY DEF Window
<1>2. \A t \in Times : t \in Nat
  BY SchedulesAssumption DEF Times
<1>3. QED
  BY <1>1, <1>2

LEMMA RequestFields ==
  ASSUME RequestTyped, NEW u \in DOMAIN request
  PROVE  /\ request[u].bw \in Nat /\ request[u].bw > 0
         /\ request[u].max \in Nat /\ request[u].min \in Nat
         /\ request[u].flex \in Seq(Window) /\ Len(request[u].flex) \in Nat
         /\ 1 \in 1 .. Len(request[u].flex)
         /\ u \in 1 .. Len(request) /\ u \in DOMAIN Routes /\ Len(request) \in Nat
<1>1. request[u] \in PathRequest /\ u \in 1 .. Len(request) /\ Len(request) \in Nat
  BY DEF RequestTyped
<1>2. /\ request[u].bw \in Nat \ {0}
      /\ request[u].max \in Nat /\ request[u].min \in Nat
      /\ request[u].flex \in Seq(Window) \ {<<>>}
  BY <1>1 DEF PathRequest
<1>3. Len(request[u].flex) \in Nat /\ Len(request[u].flex) # 0
  BY <1>2, LenProperties, EmptySeq
<1>4. Routes \in Seq(Seq(Seq(Links))) /\ Len(Routes) \in Nat /\ DOMAIN Routes = 1 .. Len(Routes)
  BY SchedulesAssumption, LenProperties
<1>5. u \in DOMAIN Routes
  BY <1>1, <1>4 DEF RequestTyped
<1>6. QED
  BY <1>1, <1>2, <1>3, <1>5

LEMMA FlexTyped ==
  ASSUME RequestTyped, NEW c, NEW u \in DOMAIN request
  PROVE  /\ FlexBandwidth(c, u) \in Nat /\ Volume(u) \in Int
         /\ FlexBandwidth(c, u) # 0 => Duration(c, u) \in Int
<1>1. FlexBandwidth(c, u) \in Nat
  BY RequestFields DEF FlexBandwidth
<1>2. Volume(u) \in Int
  <2> DEFINE w == request[u].flex[1]
  <2>1. w \in Window
    BY RequestFields
  <2>2. w.s \in Int /\ w.e \in Int /\ w.e - w.s \in Int /\ request[u].bw \in Int
    BY <2>1, WindowTimes, RequestFields
  <2> DEFINE x == w.e - w.s
             y == request[u].bw
  <2>3. x \in Int /\ y \in Int
    BY <2>2
  <2> HIDE DEF x, y
  <2>4. y * x \in Int
    BY <2>3
  <2>5. QED
    BY <2>4 DEF Volume, x, y
<1>3. ASSUME FlexBandwidth(c, u) # 0
      PROVE  Duration(c, u) \in Int
  BY <1>1, <1>2, <1>3 DEF Duration
<1>4. QED
  BY <1>1, <1>2, <1>3

\* The path search hands out routes.
LEMMA PathsTyped ==
  ASSUME NEW L, NEW u \in DOMAIN Routes
  PROVE  ComputeKShortestPaths(L, u) \in Seq(Seq(Links))
<1>1. Routes[u] \in Seq(Seq(Links))
  BY SchedulesAssumption
<1>2. QED
  BY <1>1, KeepElements DEF ComputeKShortestPaths

-----------------------------------------------------------------------------
(* The time points worth trying are numbers.                               *)
LEMMA BeforeTyped ==
  ASSUME NEW c, NEW q \in Seq(Links), NEW l \in Links
  PROVE  Before(c, q, l) \in Seq(Links)
<1> DEFINE m == Len(q)
           D == Seq(Links)
           E(b, n) == b \o IF Count(c, l) > Count(c, q[n]) THEN <<l, q[n]>> ELSE <<q[n]>>
           step == [n \in 1 .. m |-> [b \in D |-> E(b, n)]]
           Body(f) == [n \in 0 .. m |-> IF n = 0 THEN <<>> ELSE E(f[n - 1], n)]
           s == CHOOSE f : f = Body(f)
<1>1. m \in Nat
  OBVIOUS
<1>2. <<>> \in D
  OBVIOUS
<1>3. ASSUME NEW b \in D, NEW n \in 1 .. m
      PROVE  E(b, n) \in D
  <2>1. <<l, q[n]>> \in Seq(Links) /\ <<q[n]>> \in Seq(Links)
    OBVIOUS
  <2>2. QED
    BY <2>1, JoinElements
<1>4. Before(c, q, l) = Append(s[m], l)
  BY DEF Before
<1> HIDE DEF m, D, E
<1>5. step \in [1 .. m -> [D -> D]]
  BY <1>3
<1>6. \A n \in 1 .. m, b \in D : step[n][b] = E(b, n)
  OBVIOUS
<1> HIDE DEF step
<1>7. PICK f \in [0 .. m -> D] : Recurs(f, <<>>, step, m)
  BY <1>1, <1>2, <1>5, Recursion
<1>8. f = Body(f)
  <2>1. \A n \in 0 .. m : n # 0 => n \in 1 .. m /\ n - 1 \in 0 .. m
    BY <1>1
  <2>2. \A n \in 0 .. m : f[n] = IF n = 0 THEN <<>> ELSE step[n][f[n - 1]]
    BY <1>7, Zenon DEF Recurs
  <2>3. \A n \in 0 .. m : n # 0 => step[n][f[n - 1]] = E(f[n - 1], n)
    BY <1>6, <1>7, <2>1
  <2>4. \A n \in 0 .. m : f[n] = Body(f)[n]
    BY <2>2, <2>3
  <2>5. QED
    BY <1>7, <2>4
<1> HIDE DEF Body
<1>9. s = Body(s)
  BY <1>8
<1> HIDE DEF s
<1>10. \A n \in 0 .. m : s[n] = IF n = 0 THEN <<>> ELSE E(s[n - 1], n)
  BY <1>9, Zenon DEF Body
<1> DEFINE G == {n \in 0 .. m : s[n] \in D}
<1>11. 0 \in G /\ \A n \in 1 .. m : n - 1 \in G => n \in G
  <2>1. 0 \in 0 .. m /\ \A n \in 1 .. m : n \in 0 .. m /\ n # 0
    BY <1>1
  <2>2. QED
    BY <1>2, <1>3, <1>10, <2>1
<1> HIDE DEF G
<1>12. \A n \in 0 .. m : s[n] \in D
  <2>1. \A n \in 0 .. m : n \in G
    BY <1>1, <1>11, Climb
  <2>2. QED
    BY <2>1 DEF G
<1>13. s[m] \in Seq(Links)
  BY <1>1, <1>12 DEF D
<1>14. QED
  BY <1>4, <1>13, AppendElements

LEMMA OrderedTyped ==
  ASSUME NEW c
  PROVE  OrderedLinks(c) \in Seq(Links)
<1> DEFINE m == Len(LinkOrder)
           D == Seq(Links)
           E(b, n) == IF LinkOrder[n] \in left[c] /\ Count(c, LinkOrder[n]) > 0 THEN Before(c, b, LinkOrder[n]) ELSE b
           step == [n \in 1 .. m |-> [b \in D |-> E(b, n)]]
           Body(f) == [n \in 0 .. m |-> IF n = 0 THEN <<>> ELSE E(f[n - 1], n)]
           s == CHOOSE f : f = Body(f)
<1>1. m \in Nat
  BY SchedulesAssumption, LenProperties
<1>2. <<>> \in D
  OBVIOUS
<1>3. ASSUME NEW b \in D, NEW n \in 1 .. m
      PROVE  E(b, n) \in D
  <2>1. LinkOrder[n] \in Links
    BY SchedulesAssumption
  <2>2. QED
    BY <2>1, BeforeTyped
<1>4. OrderedLinks(c) = s[m]
  BY DEF OrderedLinks
<1> HIDE DEF m, D, E
<1>5. step \in [1 .. m -> [D -> D]]
  BY <1>3
<1>6. \A n \in 1 .. m, b \in D : step[n][b] = E(b, n)
  OBVIOUS
<1> HIDE DEF step
<1>7. PICK f \in [0 .. m -> D] : Recurs(f, <<>>, step, m)
  BY <1>1, <1>2, <1>5, Recursion
<1>8. f = Body(f)
  <2>1. \A n \in 0 .. m : n # 0 => n \in 1 .. m /\ n - 1 \in 0 .. m
    BY <1>1
  <2>2. \A n \in 0 .. m : f[n] = IF n = 0 THEN <<>> ELSE step[n][f[n - 1]]
    BY <1>7, Zenon DEF Recurs
  <2>3. \A n \in 0 .. m : n # 0 => step[n][f[n - 1]] = E(f[n - 1], n)
    BY <1>6, <1>7, <2>1
  <2>4. \A n \in 0 .. m : f[n] = Body(f)[n]
    BY <2>2, <2>3
  <2>5. QED
    BY <1>7, <2>4
<1> HIDE DEF Body
<1>9. s = Body(s)
  BY <1>8
<1> HIDE DEF s
<1>10. \A n \in 0 .. m : s[n] = IF n = 0 THEN <<>> ELSE E(s[n - 1], n)
  BY <1>9, Zenon DEF Body
<1> DEFINE G == {n \in 0 .. m : s[n] \in D}
<1>11. 0 \in G /\ \A n \in 1 .. m : n - 1 \in G => n \in G
  <2>1. 0 \in 0 .. m /\ \A n \in 1 .. m : n \in 0 .. m /\ n # 0
    BY <1>1
  <2>2. QED
    BY <1>2, <1>3, <1>10, <2>1
<1> HIDE DEF G
<1>12. \A n \in 0 .. m : s[n] \in D
  <2>1. \A n \in 0 .. m : n \in G
    BY <1>1, <1>11, Climb
  <2>2. QED
    BY <2>1 DEF G
<1>13. QED
  BY <1>1, <1>4, <1>12 DEF D

LEMMA UniqueTyped ==
  ASSUME NEW q \in Seq(Int), NEW t \in Int
  PROVE  AddUniqueTimePoint(q, t) \in Seq(Int)
BY AppendElements DEF AddUniqueTimePoint

\* What Consider goes on with; remain is only compared.
Scan(R) == [start : Int, next : Int, remain : R, points : Seq(Int)]

LEMMA ConsiderTyped ==
  ASSUME NEW r, NEW b \in Scan(Int \cup {r}), NEW d \in Held, NEW max \in Int,
         NEW bw, NEW volume
  PROVE  Consider(b, d, max, bw, volume) \in Scan(Int \cup {r})
<1> DEFINE R == Int \cup {r}
           Try(x, until) ==
             IF More(x.remain * (until - x.start), volume)
             THEN [x EXCEPT !.points = AddUniqueTimePoint(@, x.start), !.start = x.next]
             ELSE x
           Sliding(x, t) == [x EXCEPT !.next = IF @ <= x.start THEN t ELSE @]
           before == Try(Sliding(b, d.s), d.s)
           less == [before EXCEPT !.remain = IF More(@, max - d.bw) THEN max - d.bw ELSE @]
           with == Sliding(less, d.e)
<1>1. d.s \in Int /\ d.e \in Int /\ d.bw \in Nat /\ max - d.bw \in R
  BY DEF Held
<1>2. ASSUME NEW x \in Scan(R), NEW t \in Int
      PROVE  Sliding(x, t) \in Scan(R)
  BY DEF Scan
<1>3. ASSUME NEW x \in Scan(R), NEW until
      PROVE  Try(x, until) \in Scan(R)
  <2>1. x.points \in Seq(Int) /\ x.start \in Int /\ x.next \in Int
    BY DEF Scan
  <2>2. AddUniqueTimePoint(x.points, x.start) \in Seq(Int)
    BY <2>1, UniqueTyped
  <2>3. QED
    BY <2>1, <2>2 DEF Scan
<1>4. Consider(b, d, max, bw, volume) =
        IF More(bw, with.remain) THEN [with EXCEPT !.start = d.e, !.remain = max] ELSE Try(with, d.e)
  BY DEF Consider
<1> HIDE DEF Try, Sliding
<1>5. before \in Scan(R)
  BY <1>1, <1>2, <1>3
<1> HIDE DEF before
<1>6. less \in Scan(R)
  <2>1. (IF More(before.remain, max - d.bw) THEN max - d.bw ELSE before.remain) \in R
    BY <1>1, <1>5 DEF Scan
  <2> HIDE DEF R
  <2>2. QED
    BY <1>5, <2>1 DEF Scan
<1> HIDE DEF less
<1>7. with \in Scan(R)
  BY <1>1, <1>2, <1>6
<1> HIDE DEF with
<1>8. [with EXCEPT !.start = d.e, !.remain = max] \in Scan(R)
  BY <1>1, <1>7 DEF Scan
<1>9. QED
  BY <1>3, <1>4, <1>7, <1>8

LEMMA TimePointsTyped ==
  ASSUME NEW points \in Seq(Int), NEW ads \in Seq(Held), NEW max \in Int, NEW bw, NEW volume
  PROVE  TimePoints(points, ads, max, bw, volume) \in Seq(Int)
<1> DEFINE m == Len(ads)
           D == Scan(Int \cup {max - ads[1].bw})
           E(b, n) == Consider(b, ads[n], max, bw, volume)
           step == [n \in 1 .. m |-> [b \in D |-> E(b, n)]]
           Body(f) == [n \in 0 .. m |-> IF n = 0 THEN [start |-> Now, next |-> 0, remain |-> max - ads[1].bw, points |-> points] ELSE E(f[n - 1], n)]
           s == CHOOSE f : f = Body(f)
<1>1. m \in Nat
  OBVIOUS
<1>2. [start |-> Now, next |-> 0, remain |-> max - ads[1].bw, points |-> points] \in D
  <2>1. Now \in Int
    BY SchedulesAssumption
  <2>2. QED
    BY <2>1 DEF Scan
<1>3. ASSUME NEW b \in D, NEW n \in 1 .. m
      PROVE  E(b, n) \in D
  <2>1. ads[n] \in Held
    OBVIOUS
  <2>2. QED
    BY <2>1, ConsiderTyped
<1>4. TimePoints(points, ads, max, bw, volume) = s[m].points
  BY DEF TimePoints
<1> HIDE DEF m, D, E
<1>5. step \in [1 .. m -> [D -> D]]
  BY <1>3
<1>6. \A n \in 1 .. m, b \in D : step[n][b] = E(b, n)
  OBVIOUS
<1> HIDE DEF step
<1>7. PICK f \in [0 .. m -> D] : Recurs(f, [start |-> Now, next |-> 0, remain |-> max - ads[1].bw, points |-> points], step, m)
  BY <1>1, <1>2, <1>5, Recursion
<1>8. f = Body(f)
  <2>1. \A n \in 0 .. m : n # 0 => n \in 1 .. m /\ n - 1 \in 0 .. m
    BY <1>1
  <2>2. \A n \in 0 .. m : f[n] = IF n = 0 THEN [start |-> Now, next |-> 0, remain |-> max - ads[1].bw, points |-> points] ELSE step[n][f[n - 1]]
    BY <1>7, Zenon DEF Recurs
  <2>3. \A n \in 0 .. m : n # 0 => step[n][f[n - 1]] = E(f[n - 1], n)
    BY <1>6, <1>7, <2>1
  <2>4. \A n \in 0 .. m : f[n] = Body(f)[n]
    BY <2>2, <2>3
  <2>5. QED
    BY <1>7, <2>4
<1> HIDE DEF Body
<1>9. s = Body(s)
  BY <1>8
<1> HIDE DEF s
<1>10. \A n \in 0 .. m : s[n] = IF n = 0 THEN [start |-> Now, next |-> 0, remain |-> max - ads[1].bw, points |-> points] ELSE E(s[n - 1], n)
  BY <1>9, Zenon DEF Body
<1> DEFINE G == {n \in 0 .. m : s[n] \in D}
<1>11. 0 \in G /\ \A n \in 1 .. m : n - 1 \in G => n \in G
  <2>1. 0 \in 0 .. m /\ \A n \in 1 .. m : n \in 0 .. m /\ n # 0
    BY <1>1
  <2>2. QED
    BY <1>2, <1>3, <1>10, <2>1
<1> HIDE DEF G
<1>12. \A n \in 0 .. m : s[n] \in D
  <2>1. \A n \in 0 .. m : n \in G
    BY <1>1, <1>11, Climb
  <2>2. QED
    BY <2>1 DEF G
<1>13. s[m].points \in Seq(Int)
  BY <1>1, <1>12 DEF D, Scan
<1>14. QED
  BY <1>4, <1>13

-----------------------------------------------------------------------------
(* What is known of a link.                                                *)
LinkDelta == [s : Int, e : Int, bw : Nat, gri : Nat, made : Int, applied : BOOLEAN]

LEMMA LinkSeriesTyped ==
  ASSUME NEW ds \in Seq(LinkDelta)
  PROVE  SeriesOf(ds) \in Seq(Held)
<1>1. Len(ds) \in Nat /\ \A i \in 1 .. Len(ds) : ds[i] \in LinkDelta
  OBVIOUS
<1>2. \A i \in 1 .. Len(ds) : Delta(ds[i].s, ds[i].e, ds[i].bw) \in Held
  BY <1>1 DEF LinkDelta, Held, Delta
<1>3. QED
  BY <1>1, <1>2, SeriesTyped DEF AreHeld

LEMMA AggregatedTyped ==
  ASSUME NEW c, NEW u, deltas[c] \in [Links -> Seq(LinkDelta)]
  PROVE  /\ Aggregated(c, u).points \in Seq(Int)
         /\ Aggregated(c, u).links \subseteq Links
<1> DEFINE o == OrderedLinks(c)
<1>1. o \in Seq(Links)
  BY OrderedTyped
<1> HIDE DEF o
<1> DEFINE m == Len(o)
           D == [points : Seq(Int), links : SUBSET Links]
           E(b, n) == IF Len(b.points) >= MAX_ATS_SIZE THEN b
                      ELSE [links |-> b.links \cup {o[n]},
                            points |-> IF deltas[c][o[n]] = <<>> THEN b.points
                                       ELSE TimePoints(b.points, SeriesOf(deltas[c][o[n]]),
                                              Capacity[o[n]], FlexBandwidth(c, u), Volume(u))]
           step == [n \in 1 .. m |-> [b \in D |-> E(b, n)]]
           Body(f) == [n \in 0 .. m |-> IF n = 0 THEN [points |-> <<>>, links |-> {}] ELSE E(f[n - 1], n)]
           s == CHOOSE f : f = Body(f)
<1>2. m \in Nat
  BY <1>1
<1>3. [points |-> <<>>, links |-> {}] \in D
  OBVIOUS
<1>4. ASSUME NEW b \in D, NEW n \in 1 .. m
      PROVE  E(b, n) \in D
  <2>1. o[n] \in Links /\ Capacity[o[n]] \in Int
    BY <1>1, SchedulesAssumption
  <2>2. SeriesOf(deltas[c][o[n]]) \in Seq(Held)
    BY <2>1, LinkSeriesTyped
  <2>3. b.points \in Seq(Int) /\ b.links \in SUBSET Links
    OBVIOUS
  <2> DEFINE tp == TimePoints(b.points, SeriesOf(deltas[c][o[n]]), Capacity[o[n]],
                              FlexBandwidth(c, u), Volume(u))
  <2>4. tp \in Seq(Int)
    BY <2>1, <2>2, <2>3, TimePointsTyped
  <2> HIDE DEF tp
  <2>5. QED
    BY <2>1, <2>3, <2>4 DEF tp
<1>5. Aggregated(c, u) = s[m]
  BY DEF Aggregated, o
<1> HIDE DEF m, D, E
<1>6. step \in [1 .. m -> [D -> D]]
  BY <1>4
<1>7. \A n \in 1 .. m, b \in D : step[n][b] = E(b, n)
  OBVIOUS
<1> HIDE DEF step
<1>8. PICK f \in [0 .. m -> D] : Recurs(f, [points |-> <<>>, links |-> {}], step, m)
  BY <1>2, <1>3, <1>6, Recursion
<1>9. f = Body(f)
  <2>1. \A n \in 0 .. m : n # 0 => n \in 1 .. m /\ n - 1 \in 0 .. m
    BY <1>2
  <2>2. \A n \in 0 .. m : f[n] = IF n = 0 THEN [points |-> <<>>, links |-> {}] ELSE step[n][f[n - 1]]
    BY <1>8, Zenon DEF Recurs
  <2>3. \A n \in 0 .. m : n # 0 => step[n][f[n - 1]] = E(f[n - 1], n)
    BY <1>7, <1>8, <2>1
  <2>4. \A n \in 0 .. m : f[n] = Body(f)[n]
    BY <2>2, <2>3
  <2>5. QED
    BY <1>8, <2>4
<1> HIDE DEF Body
<1>10. s = Body(s)
  BY <1>9
<1> HIDE DEF s
<1>11. \A n \in 0 .. m : s[n] = IF n = 0 THEN [points |-> <<>>, links |-> {}] ELSE E(s[n - 1], n)
  BY <1>10, Zenon DEF Body
<1> DEFINE G == {n \in 0 .. m : s[n] \in D}
<1>12. 0 \in G /\ \A n \in 1 .. m : n - 1 \in G => n \in G
  <2>1. 0 \in 0 .. m /\ \A n \in 1 .. m : n \in 0 .. m /\ n # 0
    BY <1>2
  <2>2. QED
    BY <1>3, <1>4, <1>11, <2>1
<1> HIDE DEF G
<1>13. \A n \in 0 .. m : s[n] \in D
  <2>1. \A n \in 0 .. m : n \in G
    BY <1>2, <1>12, Climb
  <2>2. QED
    BY <2>1 DEF G
<1>14. s[m].points \in Seq(Int) /\ s[m].links \in SUBSET Links
  BY <1>2, <1>13 DEF D
<1>15. QED
  BY <1>5, <1>14

LEMMA EraseTyped ==
  ASSUME NEW q \in Seq(Int), NEW out
  PROVE  EraseAll(q, out) \in Seq(Int)
<1> DEFINE m == (Len(q) + 1) * (Len(q) + 1)
           D == [s : Seq(Int), i : Nat \ {0}]
           E(b, n) == CASE b.i > Len(b.s) -> b
                        [] b.i <= Len(b.s) /\ b.s[b.i] \in out ->
                              [s |-> RemoveAt(b.s, b.i), i |-> IF b.i = Len(b.s) THEN 1 ELSE b.i + 1]
                        [] OTHER -> [b EXCEPT !.i = @ + 1]
           step == [n \in 1 .. m |-> [b \in D |-> E(b, n)]]
           Body(f) == [n \in 0 .. m |-> IF n = 0 THEN [s |-> q, i |-> 1] ELSE E(f[n - 1], n)]
           s == CHOOSE f : f = Body(f)
<1>1. m \in Nat
  <2>1. Len(q) + 1 \in Nat
    OBVIOUS
  <2> DEFINE x == Len(q) + 1
  <2>2. x \in Nat
    BY <2>1
  <2> HIDE DEF x
  <2>3. x * x \in Nat
    BY <2>2
  <2>4. QED
    BY <2>3 DEF x
<1>2. [s |-> q, i |-> 1] \in D
  OBVIOUS
<1>3. ASSUME NEW b \in D, NEW n \in 1 .. m
      PROVE  E(b, n) \in D
  <2>1. b.s \in Seq(Int) /\ b.i \in Nat /\ b.i # 0 /\ Len(b.s) \in Nat
    OBVIOUS
  <2>2. CASE b.i > Len(b.s)
    BY <2>2
  <2>3. CASE b.i <= Len(b.s) /\ b.s[b.i] \in out
    <3>1. b.i \in DOMAIN b.s
      BY <2>1, <2>3
    <3>2. RemoveAt(b.s, b.i) \in Seq(Int)
      BY <2>1, <3>1, RemoveAtElements
    <3>3. ~(b.i > Len(b.s))
      BY <2>1, <2>3
    <3>4. E(b, n) = [s |-> RemoveAt(b.s, b.i), i |-> IF b.i = Len(b.s) THEN 1 ELSE b.i + 1]
      BY <2>3, <3>3
    <3>5. (IF b.i = Len(b.s) THEN 1 ELSE b.i + 1) \in Nat \ {0}
      BY <2>1
    <3>6. QED
      BY <3>2, <3>4, <3>5
  <2>4. CASE b.i <= Len(b.s) /\ b.s[b.i] \notin out
    <3>1. ~(b.i > Len(b.s))
      BY <2>1, <2>4
    <3>2. E(b, n) = [b EXCEPT !.i = @ + 1]
      BY <2>4, <3>1
    <3>3. b.i + 1 \in Nat \ {0}
      BY <2>1
    <3>4. QED
      BY <3>2, <3>3
  <2>5. QED
    BY <2>1, <2>2, <2>3, <2>4
<1>4. EraseAll(q, out) = s[m].s
  BY DEF EraseAll
<1> HIDE DEF m, D, E
<1>5. step \in [1 .. m -> [D -> D]]
  BY <1>3
<1>6. \A n \in 1 .. m, b \in D : step[n][b] = E(b, n)
  OBVIOUS
<1> HIDE DEF step
<1>7. PICK f \in [0 .. m -> D] : Recurs(f, [s |-> q, i |-> 1], step, m)
  BY <1>1, <1>2, <1>5, Recursion
<1>8. f = Body(f)
  <2>1. \A n \in 0 .. m : n # 0 => n \in 1 .. m /\ n - 1 \in 0 .. m
    BY <1>1
  <2>2. \A n \in 0 .. m : f[n] = IF n = 0 THEN [s |-> q, i |-> 1] ELSE step[n][f[n - 1]]
    BY <1>7, Zenon DEF Recurs
  <2>3. \A n \in 0 .. m : n # 0 => step[n][f[n - 1]] = E(f[n - 1], n)
    BY <1>6, <1>7, <2>1
  <2>4. \A n \in 0 .. m : f[n] = Body(f)[n]
    BY <2>2, <2>3
  <2>5. QED
    BY <1>7, <2>4
<1> HIDE DEF Body
<1>9. s = Body(s)
  BY <1>8
<1> HIDE DEF s
<1>10. \A n \in 0 .. m : s[n] = IF n = 0 THEN [s |-> q, i |-> 1] ELSE E(s[n - 1], n)
  BY <1>9, Zenon DEF Body
<1> DEFINE G == {n \in 0 .. m : s[n] \in D}
<1>11. 0 \in G /\ \A n \in 1 .. m : n - 1 \in G => n \in G
  <2>1. 0 \in 0 .. m /\ \A n \in 1 .. m : n \in 0 .. m /\ n # 0
    BY <1>1
  <2>2. QED
    BY <1>2, <1>3, <1>10, <2>1
<1> HIDE DEF G
<1>12. \A n \in 0 .. m : s[n] \in D
  <2>1. \A n \in 0 .. m : n \in G
    BY <1>1, <1>11, Climb
  <2>2. QED
    BY <2>1 DEF G
<1>13. s[m].s \in Seq(Int)
  BY <1>1, <1>12 DEF D
<1>14. QED
  BY <1>4, <1>13

LEMMA FlexStartsTyped ==
  ASSUME NEW q \in Seq(Int), NEW flex \in Seq(Window), NEW length
  PROVE  WithFlexStarts(q, flex, length) \in Seq(Int)
<1> DEFINE m == Len(flex)
           D == Seq(Int)
           E(b, n) == IF flex[n].s >= Now /\ flex[n].e - flex[n].s >= length THEN AddUniqueTimePoint(b, flex[n].s) ELSE b
           step == [n \in 1 .. m |-> [b \in D |-> E(b, n)]]
           Body(f) == [n \in 0 .. m |-> IF n = 0 THEN q ELSE E(f[n - 1], n)]
           s == CHOOSE f : f = Body(f)
<1>1. m \in Nat
  OBVIOUS
<1>2. q \in D
  OBVIOUS
<1>3. ASSUME NEW b \in D, NEW n \in 1 .. m
      PROVE  E(b, n) \in D
  <2>1. flex[n] \in Window
    OBVIOUS
  <2>2. flex[n].s \in Int
    BY <2>1, WindowTimes
  <2>3. QED
    BY <2>2, UniqueTyped
<1>4. WithFlexStarts(q, flex, length) = s[m]
  BY DEF WithFlexStarts
<1> HIDE DEF m, D, E
<1>5. step \in [1 .. m -> [D -> D]]
  BY <1>3
<1>6. \A n \in 1 .. m, b \in D : step[n][b] = E(b, n)
  OBVIOUS
<1> HIDE DEF step
<1>7. PICK f \in [0 .. m -> D] : Recurs(f, q, step, m)
  BY <1>1, <1>2, <1>5, Recursion
<1>8. f = Body(f)
  <2>1. \A n \in 0 .. m : n # 0 => n \in 1 .. m /\ n - 1 \in 0 .. m
    BY <1>1
  <2>2. \A n \in 0 .. m : f[n] = IF n = 0 THEN q ELSE step[n][f[n - 1]]
    BY <1>7, Zenon DEF Recurs
  <2>3. \A n \in 0 .. m : n # 0 => step[n][f[n - 1]] = E(f[n - 1], n)
    BY <1>6, <1>7, <2>1
  <2>4. \A n \in 0 .. m : f[n] = Body(f)[n]
    BY <2>2, <2>3
  <2>5. QED
    BY <1>7, <2>4
<1> HIDE DEF Body
<1>9. s = Body(s)
  BY <1>8
<1> HIDE DEF s
<1>10. \A n \in 0 .. m : s[n] = IF n = 0 THEN q ELSE E(s[n - 1], n)
  BY <1>9, Zenon DEF Body
<1> DEFINE G == {n \in 0 .. m : s[n] \in D}
<1>11. 0 \in G /\ \A n \in 1 .. m : n - 1 \in G => n \in G
  <2>1. 0 \in 0 .. m /\ \A n \in 1 .. m : n \in 0 .. m /\ n # 0
    BY <1>1
  <2>2. QED
    BY <1>2, <1>3, <1>10, <2>1
<1> HIDE DEF G
<1>12. \A n \in 0 .. m : s[n] \in D
  <2>1. \A n \in 0 .. m : n \in G
    BY <1>1, <1>11, Climb
  <2>2. QED
    BY <2>1 DEF G
<1>13. QED
  BY <1>1, <1>4, <1>12 DEF D

LEMMA ATSTyped ==
  ASSUME RequestTyped, NEW c, NEW u \in DOMAIN request, NEW points \in Seq(Int)
  PROVE  OrderedATS(c, u, points) \in Seq(Int)
<1> DEFINE flex == request[u].flex
           trimmed == Trimmed(points, flex)
           all == <<Now>> \o trimmed
           qualified == Qualified(all, flex, Duration(c, u))
<1>1. flex \in Seq(Window)
  BY RequestFields
<1>2. trimmed \in Seq(Int)
  BY EraseTyped DEF Trimmed
<1>3. <<Now>> \in Seq(Int)
  BY SchedulesAssumption
<1>4. OrderedATS(c, u, points) = WithFlexStarts(qualified, flex, Duration(c, u))
  BY DEF OrderedATS
<1> HIDE DEF flex, trimmed
<1>5. all \in Seq(Int)
  BY <1>2, <1>3, JoinElements
<1> HIDE DEF all
<1>6. qualified \in Seq(Int)
  BY <1>5, EraseTyped DEF Qualified
<1> HIDE DEF qualified
<1>7. QED
  BY <1>1, <1>4, <1>6, FlexStartsTyped

-----------------------------------------------------------------------------
(* What a time point costs and gives back.                                 *)
LEMMA AppliedLeaves ==
  ASSUME NEW f \in Nat, NEW bw \in Nat
  PROVE  /\ Applied(f, bw) \in Nat /\ Applied(f, bw) <= f
         /\ Applied(f, bw) > 0 => Applied(f, bw) + bw = f
BY DEF Applied

LEMMA RevokedLeaves ==
  ASSUME NEW f \in Nat, NEW bw \in Nat, NEW max \in Nat
  PROVE  /\ Revoked(f, bw, max) \in Nat /\ Revoked(f, bw, max) <= max
         /\ f + bw <= max => Revoked(f, bw, max) = f + bw
BY DEF Revoked

\* The TEWG of a context while its time points are tried: a link that is still in it
\* between two of them has what it had before the first.
Tried(c) == {b \in [left : SUBSET Links, thrown : BOOLEAN, free : [Links -> Nat],
                    series : [Links -> Seq(Held)]] :
               /\ \A l \in Links : b.series[l] \in {series[c][l], SeriesOf(deltas[c][l])}
               /\ b.left \subseteq left[c]
               /\ \A l \in Links : b.free[l] <= Capacity[l]
               /\ ~ b.thrown => \A l \in b.left : b.free[l] = free[c][l]}
Untried(c) == [left |-> left[c], thrown |-> FALSE, free |-> free[c], series |-> series[c]]

LinksTyped(c) ==
  /\ left[c] \subseteq Links
  /\ free[c] \in [Links -> Nat] /\ \A l \in Links : free[c][l] <= Capacity[l]
  /\ series[c] \in [Links -> Seq(Held)]
  /\ deltas[c] \in [Links -> Seq(LinkDelta)]

LEMMA TimePointGivesBack ==
  ASSUME RequestTyped, NEW c, LinksTyped(c), NEW r, NEW u \in DOMAIN request,
         FlexBandwidth(c, u) > 0, NEW b \in Tried(c), ~ b.thrown, NEW start
  PROVE  AtTimePoint(c, r, u, b, start) \in Tried(c)
<1> DEFINE bw == FlexBandwidth(c, u)
           end == start + Duration(c, u)
           kept == PruneByExclusionUrn(b.left, u)
           held == [l \in kept |-> ConjoinedDelta(b.series[l], start, end)]
           net == [l \in Links |-> IF l \in kept THEN Applied(b.free[l], held[l]) ELSE b.free[l]]
           L == PruneByBandwidth(kept, net, bw)
           back == [l \in Links |-> IF l \in L THEN RestoredTo(c, l, net[l], held[l]) ELSE net[l]]
           ads == IF WantsGraphs(r, u) THEN KeepSeries(c, b.series, ComputeKShortestPaths(L, u))
                  ELSE b.series
<1>1. AtTimePoint(c, r, u, b, start) =
        IF EdgeLinks(u) \subseteq L THEN [left |-> L, thrown |-> FALSE, free |-> back, series |-> ads]
        ELSE [left |-> L, thrown |-> TRUE, free |-> net, series |-> b.series]
  BY DEF AtTimePoint
<1>2. /\ b.left \subseteq left[c] /\ b.left \subseteq Links /\ b.free \in [Links -> Nat]
      /\ \A l \in Links : b.free[l] <= Capacity[l]
      /\ \A l \in b.left : b.free[l] = free[c][l]
      /\ b.series \in [Links -> Seq(Held)]
      /\ \A l \in Links : b.series[l] \in {series[c][l], SeriesOf(deltas[c][l])}
  BY DEF Tried
<1>17. /\ ads \in [Links -> Seq(Held)]
       /\ \A l \in Links : ads[l] \in {series[c][l], SeriesOf(deltas[c][l])}
  <2> DEFINE paths == ComputeKShortestPaths(L, u)
             more == KeepSeries(c, b.series, paths)
  <2> HIDE DEF L, paths
  <2>1. \A l \in Links : SeriesOf(deltas[c][l]) \in Seq(Held) /\ b.series[l] \in Seq(Held)
    BY <1>2, LinkSeriesTyped DEF LinksTyped
  <2>2. /\ more \in [Links -> Seq(Held)]
        /\ \A l \in Links : more[l] \in {b.series[l], SeriesOf(deltas[c][l])}
    BY <2>1 DEF KeepSeries
  <2> HIDE DEF more
  <2>3. ads = IF WantsGraphs(r, u) THEN more ELSE b.series
    BY DEF more, paths
  <2> HIDE DEF ads
  <2>4. QED
    BY <1>2, <2>2, <2>3
<1> HIDE DEF ads
<1>3. bw \in Nat /\ bw > 0
  BY FlexTyped
<1> HIDE DEF bw, end
<1>4. kept \subseteq b.left
  BY DEF PruneByExclusionUrn
<1> HIDE DEF kept
<1>5. \A l \in kept : held[l] \in Nat
  <2> TAKE l \in kept
  <2>1. b.series[l] \in Seq(Held)
    BY <1>2, <1>4
  <2>2. JoinADSInWindow(b.series[l], start, end).bw \in Nat
    BY <2>1, JoinTyped
  <2>3. QED
    BY <2>2 DEF ConjoinedDelta
<1> HIDE DEF held
<1>6. \A l \in Links : net[l] \in Nat /\ net[l] <= b.free[l] /\ net[l] <= Capacity[l]
  <2> TAKE l \in Links
  <2>1. b.free[l] \in Nat /\ Capacity[l] \in Nat /\ b.free[l] <= Capacity[l]
    BY <1>2, SchedulesAssumption
  <2>2. CASE l \in kept
    <3>1. net[l] = Applied(b.free[l], held[l])
      BY <2>2
    <3>2. net[l] \in Nat /\ net[l] <= b.free[l]
      BY <1>5, <2>1, <2>2, <3>1, AppliedLeaves
    <3>3. QED
      BY <2>1, <3>2
  <2>3. CASE l \notin kept
    BY <2>1, <2>3
  <2>4. QED
    BY <2>2, <2>3
<1>7. L \subseteq kept /\ \A l \in L : net[l] >= bw
  BY DEF PruneByBandwidth
<1>8. \A l \in L : net[l] + held[l] = b.free[l] /\ l \in Links
  <2> TAKE l \in L
  <2>1. l \in kept /\ l \in Links /\ b.free[l] \in Nat /\ net[l] >= bw /\ held[l] \in Nat
    BY <1>2, <1>4, <1>5, <1>7
  <2>2. net[l] = Applied(b.free[l], held[l])
    BY <2>1
  <2>3. net[l] > 0
    BY <1>3, <1>6, <2>1
  <2>4. QED
    BY <2>1, <2>2, <2>3, AppliedLeaves
<1> HIDE DEF L
<1>9. \A l \in L : back[l] = b.free[l]
  <2> TAKE l \in L
  <2>1. /\ l \in Links /\ held[l] \in Nat /\ net[l] \in Nat /\ b.free[l] <= Capacity[l]
        /\ Capacity[l] \in Nat /\ net[l] + held[l] = b.free[l] /\ b.free[l] \in Nat
    BY <1>2, <1>5, <1>6, <1>7, <1>8, SchedulesAssumption
  <2>2. back[l] = RestoredTo(c, l, net[l], held[l])
    BY <2>1
  <2>3. CASE held[l] = 0
    BY <2>1, <2>2, <2>3 DEF RestoredTo
  <2>4. CASE held[l] # 0
    <3>1. back[l] = Revoked(net[l], held[l], Capacity[l])
      BY <2>2, <2>4 DEF RestoredTo
    <3> HIDE DEF back, net
    <3> DEFINE f == net[l]
               h == held[l]
               max == Capacity[l]
    <3>2. f \in Nat /\ h \in Nat /\ max \in Nat /\ f + h <= max
      BY <2>1
    <3> HIDE DEF f, h, max
    <3>3. Revoked(f, h, max) = f + h
      BY <3>2, RevokedLeaves
    <3>4. QED
      BY <2>1, <3>1, <3>3 DEF f, h, max
  <2>5. QED
    BY <2>3, <2>4
<1>10. \A l \in Links : back[l] \in Nat /\ back[l] <= Capacity[l]
  <2> TAKE l \in Links
  <2>1. CASE l \in L
    BY <1>2, <1>9, <2>1
  <2>2. CASE l \notin L
    <3>1. back[l] = net[l]
      BY <2>2
    <3>2. QED
      BY <1>6, <3>1
  <2>3. QED
    BY <2>1, <2>2
<1>11. back \in [Links -> Nat] /\ net \in [Links -> Nat]
  <2>1. DOMAIN back = Links /\ DOMAIN net = Links
    OBVIOUS
  <2>2. back = [l \in Links |-> back[l]] /\ net = [l \in Links |-> net[l]]
    OBVIOUS
  <2> HIDE DEF back, net
  <2>3. QED
    BY <1>6, <1>10, <2>1, <2>2
<1> HIDE DEF back, net
<1>12. L \subseteq Links /\ L \subseteq left[c]
  BY <1>2, <1>4, <1>7
<1>13. \A l \in L : back[l] = free[c][l]
  BY <1>2, <1>4, <1>7, <1>9
<1>14. CASE EdgeLinks(u) \subseteq L
  <2>1. AtTimePoint(c, r, u, b, start) = [left |-> L, thrown |-> FALSE, free |-> back, series |-> ads]
    BY <1>1, <1>14
  <2> DEFINE x == [left |-> L, thrown |-> FALSE, free |-> back, series |-> ads]
  <2>2. x.left = L /\ x.thrown = FALSE /\ x.free = back /\ x.series = ads
    OBVIOUS
  <2>3. x \in [left : SUBSET Links, thrown : BOOLEAN, free : [Links -> Nat],
                series : [Links -> Seq(Held)]]
    BY <1>2, <1>11, <1>12, <1>17
  <2> HIDE DEF x
  <2>4. x \in Tried(c)
    BY <1>10, <1>12, <1>13, <1>17, <2>2, <2>3 DEF Tried
  <2>5. QED
    BY <2>1, <2>4 DEF x
<1>15. CASE ~ (EdgeLinks(u) \subseteq L)
  <2>1. AtTimePoint(c, r, u, b, start) = [left |-> L, thrown |-> TRUE, free |-> net, series |-> b.series]
    BY <1>1, <1>15
  <2> DEFINE x == [left |-> L, thrown |-> TRUE, free |-> net, series |-> b.series]
  <2>2. x.left = L /\ x.thrown = TRUE /\ x.free = net /\ x.series = b.series
    OBVIOUS
  <2>3. x \in [left : SUBSET Links, thrown : BOOLEAN, free : [Links -> Nat],
                series : [Links -> Seq(Held)]]
    BY <1>2, <1>11, <1>12, <1>17
  <2> HIDE DEF x
  <2>4. x \in Tried(c)
    BY <1>2, <1>6, <1>12, <2>2, <2>3 DEF Tried
  <2>5. QED
    BY <2>1, <2>4 DEF x
<1>16. QED
  BY <1>14, <1>15

LEMMA TimePointsGiveBack ==
  ASSUME RequestTyped, NEW c, LinksTyped(c), NEW r, NEW u \in DOMAIN request,
         FlexBandwidth(c, u) > 0, ats[c] \in Seq(Int)
  PROVE  \A i \in 0 .. Len(ats[c]) :
           /\ AtTimePoints(c, r, u)[i] \in Tried(c)
           /\ AtTimePoints(c, r, u)[i] = IF i = 0 THEN Untried(c)
                                      ELSE IF AtTimePoints(c, r, u)[i - 1].thrown THEN AtTimePoints(c, r, u)[i - 1]
                                      ELSE AtTimePoint(c, r, u, AtTimePoints(c, r, u)[i - 1], ats[c][i])
<1> DEFINE m == Len(ats[c])
           D == Tried(c)
           E(b, n) == IF b.thrown THEN b ELSE AtTimePoint(c, r, u, b, ats[c][n])
           step == [n \in 1 .. m |-> [b \in D |-> E(b, n)]]
           Body(f) == [n \in 0 .. m |-> IF n = 0 THEN [left |-> left[c], thrown |-> FALSE, free |-> free[c], series |-> series[c]] ELSE E(f[n - 1], n)]
           s == CHOOSE f : f = Body(f)
<1>1. m \in Nat
  OBVIOUS
<1>2. [left |-> left[c], thrown |-> FALSE, free |-> free[c], series |-> series[c]] \in D
  BY DEF Tried, LinksTyped
<1>3. ASSUME NEW b \in D, NEW n \in 1 .. m
      PROVE  E(b, n) \in D
  BY TimePointGivesBack
<1>4. AtTimePoints(c, r, u) = s
  BY DEF AtTimePoints
<1> HIDE DEF m, D, E
<1>5. step \in [1 .. m -> [D -> D]]
  BY <1>3
<1>6. \A n \in 1 .. m, b \in D : step[n][b] = E(b, n)
  OBVIOUS
<1> HIDE DEF step
<1>7. PICK f \in [0 .. m -> D] : Recurs(f, [left |-> left[c], thrown |-> FALSE, free |-> free[c], series |-> series[c]], step, m)
  BY <1>1, <1>2, <1>5, Recursion
<1>8. f = Body(f)
  <2>1. \A n \in 0 .. m : n # 0 => n \in 1 .. m /\ n - 1 \in 0 .. m
    BY <1>1
  <2>2. \A n \in 0 .. m : f[n] = IF n = 0 THEN [left |-> left[c], thrown |-> FALSE, free |-> free[c], series |-> series[c]] ELSE step[n][f[n - 1]]
    BY <1>7, Zenon DEF Recurs
  <2>3. \A n \in 0 .. m : n # 0 => step[n][f[n - 1]] = E(f[n - 1], n)
    BY <1>6, <1>7, <2>1
  <2>4. \A n \in 0 .. m : f[n] = Body(f)[n]
    BY <2>2, <2>3
  <2>5. QED
    BY <1>7, <2>4
<1> HIDE DEF Body
<1>9. s = Body(s)
  BY <1>8
<1> HIDE DEF s
<1>10. \A n \in 0 .. m : s[n] = IF n = 0 THEN [left |-> left[c], thrown |-> FALSE, free |-> free[c], series |-> series[c]] ELSE E(s[n - 1], n)
  BY <1>9, Zenon DEF Body
<1> DEFINE G == {n \in 0 .. m : s[n] \in D}
<1>11. 0 \in G /\ \A n \in 1 .. m : n - 1 \in G => n \in G
  <2>1. 0 \in 0 .. m /\ \A n \in 1 .. m : n \in 0 .. m /\ n # 0
    BY <1>1
  <2>2. QED
    BY <1>2, <1>3, <1>10, <2>1
<1> HIDE DEF G
<1>12. \A n \in 0 .. m : s[n] \in D
  <2>1. \A n \in 0 .. m : n \in G
    BY <1>1, <1>11, Climb
  <2>2. QED
    BY <2>1 DEF G
<1>13. QED
  BY <1>4, <1>10, <1>12 DEF m, D, E, Untried

-----------------------------------------------------------------------------
(* What is found.                                                          *)
Span == [s : Int, e : Int]
FoundPath == [route : Seq(Links), schedules : Seq(Span) \ {<<>>}]

LEMMA AddScheduleTyped ==
  ASSUME NEW paths \in Seq(FoundPath), NEW route \in Seq(Links), NEW schedule \in Span
  PROVE  /\ AddSchedule(paths, route, schedule) \in Seq(FoundPath)
         /\ AddSchedule(paths, route, schedule) # <<>>
<1> DEFINE same == {i \in DOMAIN paths : paths[i].route = route}
<1>1. CASE same = {}
  <2>1. <<schedule>> \in Seq(Span) \ {<<>>}
    OBVIOUS
  <2>2. [route |-> route, schedules |-> <<schedule>>] \in FoundPath
    BY <2>1 DEF FoundPath
  <2>3. QED
    BY <1>1, <2>2, AppendElements DEF AddSchedule
<1>2. CASE same # {}
  <2>1. same \in SUBSET Nat /\ same \subseteq 1 .. Len(paths)
    OBVIOUS
  <2> DEFINE k == Min(same)
             p == paths[k]
             q == [p EXCEPT !.schedules = Append(@, schedule)]
  <2>2. AddSchedule(paths, route, schedule) = [paths EXCEPT ![k] = q]
    BY <1>2 DEF AddSchedule
  <2> HIDE DEF same
  <2>3. k \in 1 .. Len(paths)
    BY <1>2, <2>1, LeastPlace
  <2> HIDE DEF k
  <2>4. p \in FoundPath
    BY <2>3
  <2> HIDE DEF p
  <2>5. p.schedules \in Seq(Span) /\ p.route \in Seq(Links)
    BY <2>4 DEF FoundPath
  <2>6. Append(p.schedules, schedule) \in Seq(Span) \ {<<>>}
    BY <2>5, AppendElements
  <2>7. q \in FoundPath
    BY <2>4, <2>6 DEF FoundPath
  <2> HIDE DEF q
  <2>8. [paths EXCEPT ![k] = q] = [i \in 1 .. Len(paths) |-> IF i = k THEN q ELSE paths[i]]
    OBVIOUS
  <2>9. \A i \in 1 .. Len(paths) : (IF i = k THEN q ELSE paths[i]) \in FoundPath
    BY <2>7
  <2>10. [paths EXCEPT ![k] = q] \in Seq(FoundPath) /\ [paths EXCEPT ![k] = q] # <<>>
    <3> DEFINE g == [paths EXCEPT ![k] = q]
    <3>1. g \in [1 .. Len(paths) -> FoundPath]
      BY <2>8, <2>9
    <3>2. Len(paths) \in Nat
      OBVIOUS
    <3> HIDE DEF g
    <3>3. g \in Seq(FoundPath)
      BY <3>1, <3>2, SeqDef
    <3>4. g # <<>>
      <4>1. k \in DOMAIN g
        BY <2>3, <3>1
      <4>2. QED
        BY <4>1
    <3>5. QED
      BY <3>3, <3>4 DEF g
  <2>11. QED
    BY <2>2, <2>10
<1>3. QED
  BY <1>1, <1>2

LEMMA AddSchedulesTyped ==
  ASSUME NEW paths \in Seq(FoundPath), NEW fit \in Seq(Seq(Links)), NEW schedule \in Span
  PROVE  /\ AddSchedules(paths, fit, schedule) \in Seq(FoundPath)
         /\ fit # <<>> => AddSchedules(paths, fit, schedule) # <<>>
<1> DEFINE m == Len(fit)
           D == Seq(FoundPath)
           E(b, n) == AddSchedule(b, fit[n], schedule)
           step == [n \in 1 .. m |-> [b \in D |-> E(b, n)]]
           Body(f) == [n \in 0 .. m |-> IF n = 0 THEN paths ELSE E(f[n - 1], n)]
           s == CHOOSE f : f = Body(f)
<1>1. m \in Nat /\ (fit # <<>> => m # 0)
  BY LenProperties, EmptySeq
<1>2. paths \in D
  OBVIOUS
<1>3. ASSUME NEW b \in D, NEW n \in 1 .. m
      PROVE  E(b, n) \in D /\ E(b, n) # <<>>
  <2>1. fit[n] \in Seq(Links)
    OBVIOUS
  <2>2. QED
    BY <2>1, AddScheduleTyped
<1>4. AddSchedules(paths, fit, schedule) = s[m]
  BY DEF AddSchedules
<1> HIDE DEF m, D, E
<1>5. step \in [1 .. m -> [D -> D]]
  BY <1>3
<1>6. \A n \in 1 .. m, b \in D : step[n][b] = E(b, n)
  OBVIOUS
<1> HIDE DEF step
<1>7. PICK f \in [0 .. m -> D] : Recurs(f, paths, step, m)
  BY <1>1, <1>2, <1>5, Recursion
<1>8. f = Body(f)
  <2>1. \A n \in 0 .. m : n # 0 => n \in 1 .. m /\ n - 1 \in 0 .. m
    BY <1>1
  <2>2. \A n \in 0 .. m : f[n] = IF n = 0 THEN paths ELSE step[n][f[n - 1]]
    BY <1>7, Zenon DEF Recurs
  <2>3. \A n \in 0 .. m : n # 0 => step[n][f[n - 1]] = E(f[n - 1], n)
    BY <1>6, <1>7, <2>1
  <2>4. \A n \in 0 .. m : f[n] = Body(f)[n]
    BY <2>2, <2>3
  <2>5. QED
    BY <1>7, <2>4
<1> HIDE DEF Body
<1>9. s = Body(s)
  BY <1>8
<1> HIDE DEF s
<1>10. \A n \in 0 .. m : s[n] = IF n = 0 THEN paths ELSE E(s[n - 1], n)
  BY <1>9, Zenon DEF Body
<1> DEFINE G == {n \in 0 .. m : s[n] \in D}
<1>11. 0 \in G /\ \A n \in 1 .. m : n - 1 \in G => n \in G
  <2>1. 0 \in 0 .. m /\ \A n \in 1 .. m : n \in 0 .. m /\ n # 0
    BY <1>1
  <2>2. QED
    BY <1>2, <1>3, <1>10, <2>1
<1> HIDE DEF G
<1>12. \A n \in 0 .. m : s[n] \in D
  <2>1. \A n \in 0 .. m : n \in G
    BY <1>1, <1>11, Climb
  <2>2. QED
    BY <2>1 DEF G
<1>13. m # 0 => s[m] # <<>>
  <2>1. m # 0 => m \in 1 .. m /\ m - 1 \in 0 .. m /\ m \in 0 .. m
    BY <1>1
  <2>2. QED
    BY <1>3, <1>10, <1>12, <2>1
<1>14. QED
  BY <1>1, <1>4, <1>12, <1>13 DEF D

LEMMA FeasibleTyped ==
  ASSUME RequestTyped, NEW c, NEW u \in DOMAIN request, NEW at, FlexBandwidth(c, u) > 0,
         ats[c] \in Seq(Int)
  PROVE  /\ FeasiblePaths(c, u, at) \in Seq(FoundPath)
         /\ Len(ats[c]) = 1 /\ ~ at[1].thrown /\ ComputeKShortestPaths(at[1].left, u) # <<>>
              => FeasiblePaths(c, u, at) # <<>>
<1> DEFINE m == Len(ats[c])
           D == Seq(FoundPath)
           E(b, n) == IF at[n].thrown THEN b
                      ELSE AddSchedules(b, ComputeKShortestPaths(at[n].left, u),
                                        [s |-> ats[c][n], e |-> ats[c][n] + Duration(c, u)])
           step == [n \in 1 .. m |-> [b \in D |-> E(b, n)]]
           Body(f) == [n \in 0 .. m |-> IF n = 0 THEN <<>> ELSE E(f[n - 1], n)]
           s == CHOOSE f : f = Body(f)
<1>1. m \in Nat
  OBVIOUS
<1>2. <<>> \in D
  OBVIOUS
<1>3. ASSUME NEW b \in D, NEW n \in 1 .. m
      PROVE  /\ E(b, n) \in D
             /\ ~ at[n].thrown /\ ComputeKShortestPaths(at[n].left, u) # <<>> => E(b, n) # <<>>
  <2>1. u \in DOMAIN Routes
    BY RequestFields
  <2>2. ComputeKShortestPaths(at[n].left, u) \in Seq(Seq(Links))
    BY <2>1, PathsTyped
  <2>3. ats[c][n] \in Int /\ Duration(c, u) \in Int
    <3>1. FlexBandwidth(c, u) # 0
      BY FlexTyped
    <3>2. QED
      BY <3>1, FlexTyped
  <2>4. [s |-> ats[c][n], e |-> ats[c][n] + Duration(c, u)] \in Span
    BY <2>3 DEF Span
  <2>5. QED
    BY <2>2, <2>4, AddSchedulesTyped
<1>4. FeasiblePaths(c, u, at) = s[m]
  BY DEF FeasiblePaths
<1> HIDE DEF m, D, E
<1>5. step \in [1 .. m -> [D -> D]]
  BY <1>3
<1>6. \A n \in 1 .. m, b \in D : step[n][b] = E(b, n)
  OBVIOUS
<1> HIDE DEF step
<1>7. PICK f \in [0 .. m -> D] : Recurs(f, <<>>, step, m)
  BY <1>1, <1>2, <1>5, Recursion
<1>8. f = Body(f)
  <2>1. \A n \in 0 .. m : n # 0 => n \in 1 .. m /\ n - 1 \in 0 .. m
    BY <1>1
  <2>2. \A n \in 0 .. m : f[n] = IF n = 0 THEN <<>> ELSE step[n][f[n - 1]]
    BY <1>7, Zenon DEF Recurs
  <2>3. \A n \in 0 .. m : n # 0 => step[n][f[n - 1]] = E(f[n - 1], n)
    BY <1>6, <1>7, <2>1
  <2>4. \A n \in 0 .. m : f[n] = Body(f)[n]
    BY <2>2, <2>3
  <2>5. QED
    BY <1>7, <2>4
<1> HIDE DEF Body
<1>9. s = Body(s)
  BY <1>8
<1> HIDE DEF s
<1>10. \A n \in 0 .. m : s[n] = IF n = 0 THEN <<>> ELSE E(s[n - 1], n)
  BY <1>9, Zenon DEF Body
<1> DEFINE G == {n \in 0 .. m : s[n] \in D}
<1>11. 0 \in G /\ \A n \in 1 .. m : n - 1 \in G => n \in G
  <2>1. 0 \in 0 .. m /\ \A n \in 1 .. m : n \in 0 .. m /\ n # 0
    BY <1>1
  <2>2. QED
    BY <1>2, <1>3, <1>10, <2>1
<1> HIDE DEF G
<1>12. \A n \in 0 .. m : s[n] \in D
  <2>1. \A n \in 0 .. m : n \in G
    BY <1>1, <1>11, Climb
  <2>2. QED
    BY <2>1 DEF G
<1>13. ASSUME m = 1, ~ at[1].thrown, ComputeKShortestPaths(at[1].left, u) # <<>>
       PROVE  s[m] # <<>>
  <2>1. 1 \in 1 .. m /\ 0 \in 0 .. m /\ 1 \in 0 .. m /\ 1 - 1 = 0
    BY <1>1, <1>13
  <2>2. s[1] = E(s[0], 1) /\ s[0] \in D
    BY <1>10, <1>12, <2>1
  <2>3. QED
    BY <1>3, <1>13, <2>1, <2>2
<1>14. QED
  BY <1>1, <1>4, <1>12, <1>13 DEF D, m

LEMMA PlacedTyped ==
  ASSUME NEW paths \in Seq(FoundPath), NEW p \in FoundPath
  PROVE  Placed(paths, p) \in Seq(FoundPath) /\ Placed(paths, p) # <<>>
<1> DEFINE longer == {i \in DOMAIN paths : Len(p.route) < Len(paths[i].route)}
<1>1. CASE longer = {}
  BY <1>1, AppendElements DEF Placed
<1>2. CASE longer # {}
  <2>1. longer \in SUBSET Nat /\ longer \subseteq 1 .. Len(paths) /\ Len(paths) \in Nat
    OBVIOUS
  <2> DEFINE k == Min(longer)
  <2>2. Placed(paths, p) = InsertAt(paths, k, p)
    BY <1>2 DEF Placed
  <2> HIDE DEF longer
  <2>3. k \in 1 .. Len(paths)
    BY <1>2, <2>1, LeastPlace
  <2> HIDE DEF k
  <2>4. k \in 1 .. Len(paths) + 1
    BY <2>1, <2>3
  <2>5. Placed(paths, p) \in Seq(FoundPath) /\ Len(Placed(paths, p)) = Len(paths) + 1
    BY <2>2, <2>4, InsertAtElements
  <2>6. QED
    BY <2>1, <2>5, EmptySeq
<1>3. QED
  BY <1>1, <1>2

LEMMA SortedTyped ==
  ASSUME NEW paths \in Seq(FoundPath)
  PROVE  Sorted(paths) \in Seq(FoundPath) /\ (paths # <<>> => Sorted(paths) # <<>>)
<1> DEFINE m == Len(paths)
           D == Seq(FoundPath)
           E(b, n) == Placed(b, paths[n])
           step == [n \in 1 .. m |-> [b \in D |-> E(b, n)]]
           Body(f) == [n \in 0 .. m |-> IF n = 0 THEN <<>> ELSE E(f[n - 1], n)]
           s == CHOOSE f : f = Body(f)
<1>1. m \in Nat /\ (paths # <<>> => m # 0)
  BY LenProperties, EmptySeq
<1>2. <<>> \in D
  OBVIOUS
<1>3. ASSUME NEW b \in D, NEW n \in 1 .. m
      PROVE  E(b, n) \in D /\ E(b, n) # <<>>
  <2>1. paths[n] \in FoundPath
    OBVIOUS
  <2>2. QED
    BY <2>1, PlacedTyped
<1>4. Sorted(paths) = s[m]
  BY DEF Sorted
<1> HIDE DEF m, D, E
<1>5. step \in [1 .. m -> [D -> D]]
  BY <1>3
<1>6. \A n \in 1 .. m, b \in D : step[n][b] = E(b, n)
  OBVIOUS
<1> HIDE DEF step
<1>7. PICK f \in [0 .. m -> D] : Recurs(f, <<>>, step, m)
  BY <1>1, <1>2, <1>5, Recursion
<1>8. f = Body(f)
  <2>1. \A n \in 0 .. m : n # 0 => n \in 1 .. m /\ n - 1 \in 0 .. m
    BY <1>1
  <2>2. \A n \in 0 .. m : f[n] = IF n = 0 THEN <<>> ELSE step[n][f[n - 1]]
    BY <1>7, Zenon DEF Recurs
  <2>3. \A n \in 0 .. m : n # 0 => step[n][f[n - 1]] = E(f[n - 1], n)
    BY <1>6, <1>7, <2>1
  <2>4. \A n \in 0 .. m : f[n] = Body(f)[n]
    BY <2>2, <2>3
  <2>5. QED
    BY <1>7, <2>4
<1> HIDE DEF Body
<1>9. s = Body(s)
  BY <1>8
<1> HIDE DEF s
<1>10. \A n \in 0 .. m : s[n] = IF n = 0 THEN <<>> ELSE E(s[n - 1], n)
  BY <1>9, Zenon DEF Body
<1> DEFINE G == {n \in 0 .. m : s[n] \in D}
<1>11. 0 \in G /\ \A n \in 1 .. m : n - 1 \in G => n \in G
  <2>1. 0 \in 0 .. m /\ \A n \in 1 .. m : n \in 0 .. m /\ n # 0
    BY <1>1
  <2>2. QED
    BY <1>2, <1>3, <1>10, <2>1
<1> HIDE DEF G
<1>12. \A n \in 0 .. m : s[n] \in D
  <2>1. \A n \in 0 .. m : n \in G
    BY <1>1, <1>11, Climb
  <2>2. QED
    BY <2>1 DEF G
<1>13. m # 0 => s[m] # <<>>
  <2>1. m # 0 => m \in 1 .. m /\ m - 1 \in 0 .. m /\ m \in 0 .. m
    BY <1>1
  <2>2. QED
    BY <1>3, <1>10, <1>12, <2>1
<1>14. QED
  BY <1>1, <1>4, <1>12, <1>13 DEF D

-----------------------------------------------------------------------------
(* What is held.                                                           *)
Resv == [gri : Nat, links : SUBSET Links, context : Contexts, path : Nat, made : Nat,
         s : Int, e : Int, bw : Nat]

LEMMA ReservationTyped ==
  ASSUME RequestTyped, NEW c \in Contexts, NEW u \in DOMAIN request, clock \in Nat,
         FlexBandwidth(c, u) > 0, NEW paths \in Seq(FoundPath), paths # <<>>
  PROVE  Reservation(c, u, paths) \in Resv
<1> DEFINE best == Head(paths)
           first == best.schedules[1]
<1>1. best \in FoundPath
  BY HeadTailProperties
<1>2. Reservation(c, u, paths) =
        [gri |-> Gri(u), links |-> Range(best.route), context |-> c, path |-> u, made |-> clock,
         s |-> first.s, e |-> first.s + Duration(c, u), bw |-> FlexBandwidth(c, u)]
  BY DEF Reservation
<1> HIDE DEF best
<1>3. best.route \in Seq(Links) /\ best.schedules \in Seq(Span) /\ best.schedules # <<>>
  BY <1>1 DEF FoundPath
<1>4. first \in Span
  <2>1. 1 \in 1 .. Len(best.schedules)
    BY <1>3, LenProperties, EmptySeq
  <2>2. QED
    BY <1>3, <2>1
<1>5. first.s \in Int
  BY <1>4 DEF Span
<1>6. Range(best.route) \subseteq Links
  BY <1>3 DEF Range
<1>7. Gri(u) \in Nat /\ u \in Nat
  BY RequestFields DEF Gri
<1>8. FlexBandwidth(c, u) \in Nat /\ Duration(c, u) \in Int
  <2>1. FlexBandwidth(c, u) # 0
    BY FlexTyped
  <2>2. QED
    BY <2>1, FlexTyped
<1>9. first.s + Duration(c, u) \in Int
  BY <1>5, <1>8
<1> HIDE DEF first
<1>10. QED
  BY <1>2, <1>5, <1>6, <1>7, <1>8, <1>9 DEF Resv

LEMMA ResvFields ==
  ASSUME NEW r \in Resv
  PROVE  r.s \in Int /\ r.e \in Int /\ r.bw \in Nat /\ r.gri \in Nat
BY DEF Resv

\* A list of deltas is never cut, and none of its deltas is another one after that.
Longer(ds) == {b \in Seq(LinkDelta) : Len(ds) <= Len(b) /\ \A i \in 1 .. Len(ds) : b[i] = ds[i]}

LEMMA ResvDeltasTyped ==
  ASSUME clock \in Nat, NEW ds \in Seq(LinkDelta), NEW l, NEW resvs \in Seq(Resv)
  PROVE  AddResvDeltas(ds, l, resvs) \in Longer(ds)
<1> DEFINE m == Len(resvs)
           D == Longer(ds)
           E(b, n) == IF l \in resvs[n].links
                        /\ (Named(b, resvs[n].gri) = {} \/ b[Max(Named(b, resvs[n].gri))].made < resvs[n].made)
                      THEN Append(b, [s |-> resvs[n].s, e |-> resvs[n].e, bw |-> resvs[n].bw,
                                      gri |-> resvs[n].gri, made |-> clock + 1, applied |-> FALSE])
                      ELSE b
           step == [n \in 1 .. m |-> [b \in D |-> E(b, n)]]
           Body(f) == [n \in 0 .. m |-> IF n = 0 THEN ds ELSE E(f[n - 1], n)]
           s == CHOOSE f : f = Body(f)
<1>1. m \in Nat
  OBVIOUS
<1>2. ds \in D
  BY DEF Longer
<1>3. ASSUME NEW b \in D, NEW n \in 1 .. m
      PROVE  E(b, n) \in D
  <2>1. resvs[n] \in Resv
    OBVIOUS
  <2> DEFINE d == [s |-> resvs[n].s, e |-> resvs[n].e, bw |-> resvs[n].bw,
                   gri |-> resvs[n].gri, made |-> clock + 1, applied |-> FALSE]
  <2>2. d \in LinkDelta
    <3>1. /\ resvs[n].s \in Int /\ resvs[n].e \in Int /\ resvs[n].bw \in Nat
          /\ resvs[n].gri \in Nat /\ clock + 1 \in Int
      BY <2>1, ResvFields
    <3>2. QED
      BY <3>1 DEF LinkDelta
  <2> HIDE DEF d
  <2>3. Append(b, d) \in Longer(ds)
    <3>1. b \in Seq(LinkDelta) /\ Len(ds) <= Len(b) /\ Len(b) \in Nat /\ Len(ds) \in Nat
          /\ \A i \in 1 .. Len(ds) : b[i] = ds[i]
      BY DEF Longer
    <3> DEFINE x == Append(b, d)
    <3>2. /\ x \in Seq(LinkDelta) /\ Len(x) = Len(b) + 1
          /\ \A i \in 1 .. Len(b) : x[i] = b[i]
      BY <2>2, <3>1, AppendProperties
    <3> HIDE DEF x
    <3>3. Len(ds) <= Len(x) /\ \A i \in 1 .. Len(ds) : i \in 1 .. Len(b) /\ x[i] = ds[i]
      BY <3>1, <3>2
    <3>4. x \in Longer(ds)
      BY <3>2, <3>3 DEF Longer
    <3>5. QED
      BY <3>4 DEF x
  <2>4. QED
    BY <2>3 DEF d
<1>4. AddResvDeltas(ds, l, resvs) = s[m]
  BY DEF AddResvDeltas
<1> HIDE DEF m, D, E
<1>5. step \in [1 .. m -> [D -> D]]
  BY <1>3
<1>6. \A n \in 1 .. m, b \in D : step[n][b] = E(b, n)
  OBVIOUS
<1> HIDE DEF step
<1>7. PICK f \in [0 .. m -> D] : Recurs(f, ds, step, m)
  BY <1>1, <1>2, <1>5, Recursion
<1>8. f = Body(f)
  <2>1. \A n \in 0 .. m : n # 0 => n \in 1 .. m /\ n - 1 \in 0 .. m
    BY <1>1
  <2>2. \A n \in 0 .. m : f[n] = IF n = 0 THEN ds ELSE step[n][f[n - 1]]
    BY <1>7, Zenon DEF Recurs
  <2>3. \A n \in 0 .. m : n # 0 => step[n][f[n - 1]] = E(f[n - 1], n)
    BY <1>6, <1>7, <2>1
  <2>4. \A n \in 0 .. m : f[n] = Body(f)[n]
    BY <2>2, <2>3
  <2>5. QED
    BY <1>7, <2>4
<1> HIDE DEF Body
<1>9. s = Body(s)
  BY <1>8
<1> HIDE DEF s
<1>10. \A n \in 0 .. m : s[n] = IF n = 0 THEN ds ELSE E(s[n - 1], n)
  BY <1>9, Zenon DEF Body
<1> DEFINE G == {n \in 0 .. m : s[n] \in D}
<1>11. 0 \in G /\ \A n \in 1 .. m : n - 1 \in G => n \in G
  <2>1. 0 \in 0 .. m /\ \A n \in 1 .. m : n \in 0 .. m /\ n # 0
    BY <1>1
  <2>2. QED
    BY <1>2, <1>3, <1>10, <2>1
<1> HIDE DEF G
<1>12. \A n \in 0 .. m : s[n] \in D
  <2>1. \A n \in 0 .. m : n \in G
    BY <1>1, <1>11, Climb
  <2>2. QED
    BY <2>1 DEF G
<1>13. QED
  BY <1>1, <1>4, <1>12 DEF D

LEMMA RevokeTyped ==
  ASSUME NEW max \in Nat, NEW have \in 0 .. max, NEW ds \in Seq(LinkDelta), NEW gri
  PROVE  RevokeResvDeltas(have, ds, gri, max) \in 0 .. max
<1> DEFINE m == Len(ds)
           D == 0 .. max
           E(b, n) == IF ds[n].gri = gri /\ ds[n].applied THEN Revoked(b, ds[n].bw, max) ELSE b
           step == [n \in 1 .. m |-> [b \in D |-> E(b, n)]]
           Body(f) == [n \in 0 .. m |-> IF n = 0 THEN have ELSE E(f[n - 1], n)]
           s == CHOOSE f : f = Body(f)
<1>1. m \in Nat
  OBVIOUS
<1>2. have \in D
  OBVIOUS
<1>3. ASSUME NEW b \in D, NEW n \in 1 .. m
      PROVE  E(b, n) \in D
  <2>1. ds[n] \in LinkDelta
    OBVIOUS
  <2>2. ds[n].bw \in Nat
    BY <2>1 DEF LinkDelta
  <2>3. Revoked(b, ds[n].bw, max) \in 0 .. max
    <3>1. b \in Nat
      OBVIOUS
    <3>2. Revoked(b, ds[n].bw, max) \in Nat /\ Revoked(b, ds[n].bw, max) <= max
      BY <2>2, <3>1, RevokedLeaves
    <3>3. QED
      BY <3>2
  <2>4. QED
    BY <2>3
<1>4. RevokeResvDeltas(have, ds, gri, max) = s[m]
  BY DEF RevokeResvDeltas
<1> HIDE DEF m, D, E
<1>5. step \in [1 .. m -> [D -> D]]
  BY <1>3
<1>6. \A n \in 1 .. m, b \in D : step[n][b] = E(b, n)
  OBVIOUS
<1> HIDE DEF step
<1>7. PICK f \in [0 .. m -> D] : Recurs(f, have, step, m)
  BY <1>1, <1>2, <1>5, Recursion
<1>8. f = Body(f)
  <2>1. \A n \in 0 .. m : n # 0 => n \in 1 .. m /\ n - 1 \in 0 .. m
    BY <1>1
  <2>2. \A n \in 0 .. m : f[n] = IF n = 0 THEN have ELSE step[n][f[n - 1]]
    BY <1>7, Zenon DEF Recurs
  <2>3. \A n \in 0 .. m : n # 0 => step[n][f[n - 1]] = E(f[n - 1], n)
    BY <1>6, <1>7, <2>1
  <2>4. \A n \in 0 .. m : f[n] = Body(f)[n]
    BY <2>2, <2>3
  <2>5. QED
    BY <1>7, <2>4
<1> HIDE DEF Body
<1>9. s = Body(s)
  BY <1>8
<1> HIDE DEF s
<1>10. \A n \in 0 .. m : s[n] = IF n = 0 THEN have ELSE E(s[n - 1], n)
  BY <1>9, Zenon DEF Body
<1> DEFINE G == {n \in 0 .. m : s[n] \in D}
<1>11. 0 \in G /\ \A n \in 1 .. m : n - 1 \in G => n \in G
  <2>1. 0 \in 0 .. m /\ \A n \in 1 .. m : n \in 0 .. m /\ n # 0
    BY <1>1
  <2>2. QED
    BY <1>2, <1>3, <1>10, <2>1
<1> HIDE DEF G
<1>12. \A n \in 0 .. m : s[n] \in D
  <2>1. \A n \in 0 .. m : n \in G
    BY <1>1, <1>11, Climb
  <2>2. QED
    BY <2>1 DEF G
<1>13. QED
  BY <1>1, <1>4, <1>12 DEF D

LEMMA ApplyTyped ==
  ASSUME NEW max \in Nat, NEW have \in 0 .. max, NEW ds \in Seq(LinkDelta), NEW gri
  PROVE  ApplyResvDeltas(have, ds, gri) \in 0 .. max
<1> DEFINE m == Len(ds)
           D == 0 .. max
           E(b, n) == IF ds[n].gri = gri THEN Applied(b, ds[n].bw) ELSE b
           step == [n \in 1 .. m |-> [b \in D |-> E(b, n)]]
           Body(f) == [n \in 0 .. m |-> IF n = 0 THEN have ELSE E(f[n - 1], n)]
           s == CHOOSE f : f = Body(f)
<1>1. m \in Nat
  OBVIOUS
<1>2. have \in D
  OBVIOUS
<1>3. ASSUME NEW b \in D, NEW n \in 1 .. m
      PROVE  E(b, n) \in D
  <2>1. ds[n] \in LinkDelta
    OBVIOUS
  <2>2. ds[n].bw \in Nat /\ b \in Nat
    BY <2>1, SMTT(30) DEF LinkDelta
  <2>3. Applied(b, ds[n].bw) \in Nat /\ Applied(b, ds[n].bw) <= b
    BY <2>2, AppliedLeaves
  <2>4. Applied(b, ds[n].bw) \in 0 .. max
    BY <2>2, <2>3
  <2>5. QED
    BY <2>4
<1>4. ApplyResvDeltas(have, ds, gri) = s[m]
  BY DEF ApplyResvDeltas
<1> HIDE DEF m, D, E
<1>5. step \in [1 .. m -> [D -> D]]
  BY <1>3
<1>6. \A n \in 1 .. m, b \in D : step[n][b] = E(b, n)
  OBVIOUS
<1> HIDE DEF step
<1>7. PICK f \in [0 .. m -> D] : Recurs(f, have, step, m)
  BY <1>1, <1>2, <1>5, Recursion
<1>8. f = Body(f)
  <2>1. \A n \in 0 .. m : n # 0 => n \in 1 .. m /\ n - 1 \in 0 .. m
    BY <1>1
  <2>2. \A n \in 0 .. m : f[n] = IF n = 0 THEN have ELSE step[n][f[n - 1]]
    BY <1>7, Zenon DEF Recurs
  <2>3. \A n \in 0 .. m : n # 0 => step[n][f[n - 1]] = E(f[n - 1], n)
    BY <1>6, <1>7, <2>1
  <2>4. \A n \in 0 .. m : f[n] = Body(f)[n]
    BY <2>2, <2>3
  <2>5. QED
    BY <1>7, <2>4
<1> HIDE DEF Body
<1>9. s = Body(s)
  BY <1>8
<1> HIDE DEF s
<1>10. \A n \in 0 .. m : s[n] = IF n = 0 THEN have ELSE E(s[n - 1], n)
  BY <1>9, Zenon DEF Body
<1> DEFINE G == {n \in 0 .. m : s[n] \in D}
<1>11. 0 \in G /\ \A n \in 1 .. m : n - 1 \in G => n \in G
  <2>1. 0 \in 0 .. m /\ \A n \in 1 .. m : n \in 0 .. m /\ n # 0
    BY <1>1
  <2>2. QED
    BY <1>2, <1>3, <1>10, <2>1
<1> HIDE DEF G
<1>12. \A n \in 0 .. m : s[n] \in D
  <2>1. \A n \in 0 .. m : n \in G
    BY <1>1, <1>11, Climb
  <2>2. QED
    BY <2>1 DEF G
<1>13. QED
  BY <1>1, <1>4, <1>12 DEF D

-----------------------------------------------------------------------------
(* The invariant: what the actions may run on, and that the last action of *)
(* a context is never a search.                                            *)
Searching == {"ksp", "ats", "round1", "round2"}
Steps(c) == {x \in [action : Searching \cup {"reorder", "finalize"}, path : Nat] :
               x.action \in Searching =>
                 x.path \in DOMAIN request /\ FlexBandwidth(c, x.path) > 0}
Ends(q) == q # <<>> => Last(q).action \notin Searching

SchedulesInv ==
  /\ request \in Requests /\ booked \in Bookings
  /\ DOMAIN todo = Contexts
  /\ \A c \in Contexts : todo[c] \in Seq(Steps(c)) /\ Ends(todo[c])
  /\ left \in [Contexts -> SUBSET Links]
  /\ free \in [Contexts -> [Links -> Nat]]
  /\ \A c \in Contexts : \A l \in Links : free[c][l] <= Capacity[l]
  /\ deltas \in [Contexts -> [Links -> Seq(LinkDelta)]]
  /\ series \in [Contexts -> [Links -> Seq(Held)]]
  /\ ats \in [Contexts -> Seq(Int)]
  /\ committed \in Seq(Resv) /\ clock \in Nat

LEMMA RequestsTyped ==
  ASSUME request \in Requests
  PROVE  RequestTyped
BY SchedulesAssumption DEF RequestTyped

LEMMA TailEnds ==
  ASSUME NEW S, NEW q \in Seq(S), q # <<>>, Ends(q)
  PROVE  /\ Tail(q) \in Seq(S) /\ Ends(Tail(q)) /\ Head(q) \in S
         /\ Head(q).action \in Searching => Tail(q) # <<>>
<1>1. /\ Tail(q) \in Seq(S) /\ Head(q) \in S /\ Head(q) = q[1] /\ Len(q) \in Nat
      /\ Len(q) > 0 /\ Len(Tail(q)) = Len(q) - 1
      /\ \A i \in 1 .. Len(q) - 1 : Tail(q)[i] = q[i + 1]
  BY HeadTailProperties, LenProperties, EmptySeq
<1>2. CASE Len(q) = 1
  <2>1. Tail(q) = <<>>
    <3> DEFINE t == Tail(q)
    <3>1. t \in Seq(S) /\ Len(t) = 0
      BY <1>1, <1>2
    <3> HIDE DEF t
    <3>2. t = <<>>
      BY <3>1, EmptySeq
    <3>3. QED
      BY <3>2 DEF t
  <2>2. Last(q) = Head(q)
    BY <1>1, <1>2 DEF Last
  <2>3. Head(q).action \notin Searching
    BY <2>2 DEF Ends
  <2>4. QED
    BY <1>1, <2>1, <2>3 DEF Ends
<1>3. CASE Len(q) # 1
  <2>1. Len(q) - 1 \in 1 .. Len(q) - 1 /\ (Len(q) - 1) + 1 = Len(q)
    BY <1>1, <1>3
  <2>2. Tail(q)[Len(q) - 1] = q[Len(q)]
    BY <1>1, <2>1
  <2>3. Last(Tail(q)) = Last(q)
    BY <1>1, <2>2 DEF Last
  <2>4. Len(Tail(q)) # 0
    BY <1>1, <2>1
  <2>5. Tail(q) # <<>>
    <3> DEFINE t == Tail(q)
    <3>1. Len(t) # 0
      BY <2>4
    <3> HIDE DEF t
    <3>2. t # <<>>
      BY <3>1
    <3>3. QED
      BY <3>2 DEF t
  <2>6. QED
    BY <1>1, <2>3, <2>5 DEF Ends
<1>4. QED
  BY <1>2, <1>3

LEMMA FirstRoundTyped ==
  ASSUME RequestTyped, NEW c
  PROVE  FirstRound(c) \in Seq(Steps(c)) /\ Ends(FirstRound(c))
<1> DEFINE m == Len(request)
           F == Steps(c)
           D == Seq(F)
           E(b, n) == b \o IF FlexBandwidth(c, n) = 0 THEN <<>>
                           ELSE <<Step("ksp", n), Step("ats", n), Step("round1", n)>>
           step == [n \in 1 .. m |-> [b \in D |-> E(b, n)]]
           Body(f) == [n \in 0 .. m |-> IF n = 0 THEN <<>> ELSE E(f[n - 1], n)]
           s == CHOOSE f : f = Body(f)
<1>1. m \in Nat
  BY DEF RequestTyped
<1>2. <<>> \in D
  OBVIOUS
<1>3. ASSUME NEW b \in D, NEW n \in 1 .. m
      PROVE  E(b, n) \in D
  <2>1. n \in DOMAIN request /\ n \in Nat
    BY DEF RequestTyped
  <2>2. FlexBandwidth(c, n) \in Nat
    BY <2>1, FlexTyped
  <2>3. CASE FlexBandwidth(c, n) = 0
    <3>1. E(b, n) = b \o <<>>
      BY <2>3
    <3>2. QED
      BY <3>1, JoinElements
  <2>4. CASE FlexBandwidth(c, n) # 0
    <3>1. \A a \in {"ksp", "ats", "round1"} : Step(a, n) \in F
      BY <2>1, <2>2, <2>4 DEF Steps, Step, Searching
    <3>2. <<Step("ksp", n), Step("ats", n), Step("round1", n)>> \in Seq(F)
      BY <3>1
    <3>3. QED
      BY <2>4, <3>2, JoinElements
  <2>5. QED
    BY <2>3, <2>4
<1>4. FirstRound(c) = IF FlexBandwidth(c, 1) = 0 THEN <<>> ELSE Append(s[m], Step("reorder", 0))
  BY DEF FirstRound
<1> HIDE DEF m, D, E
<1>5. step \in [1 .. m -> [D -> D]]
  BY <1>3
<1>6. \A n \in 1 .. m, b \in D : step[n][b] = E(b, n)
  OBVIOUS
<1> HIDE DEF step
<1>7. PICK f \in [0 .. m -> D] : Recurs(f, <<>>, step, m)
  BY <1>1, <1>2, <1>5, Recursion
<1>8. f = Body(f)
  <2>1. \A n \in 0 .. m : n # 0 => n \in 1 .. m /\ n - 1 \in 0 .. m
    BY <1>1
  <2>2. \A n \in 0 .. m : f[n] = IF n = 0 THEN <<>> ELSE step[n][f[n - 1]]
    BY <1>7, Zenon DEF Recurs
  <2>3. \A n \in 0 .. m : n # 0 => step[n][f[n - 1]] = E(f[n - 1], n)
    BY <1>6, <1>7, <2>1
  <2>4. \A n \in 0 .. m : f[n] = Body(f)[n]
    BY <2>2, <2>3
  <2>5. QED
    BY <1>7, <2>4
<1> HIDE DEF Body
<1>9. s = Body(s)
  BY <1>8
<1> HIDE DEF s
<1>10. \A n \in 0 .. m : s[n] = IF n = 0 THEN <<>> ELSE E(s[n - 1], n)
  BY <1>9, Zenon DEF Body
<1> DEFINE G == {n \in 0 .. m : s[n] \in D}
<1>11. 0 \in G /\ \A n \in 1 .. m : n - 1 \in G => n \in G
  <2>1. 0 \in 0 .. m /\ \A n \in 1 .. m : n \in 0 .. m /\ n # 0
    BY <1>1
  <2>2. QED
    BY <1>2, <1>3, <1>10, <2>1
<1> HIDE DEF G
<1>12. \A n \in 0 .. m : s[n] \in D
  <2>1. \A n \in 0 .. m : n \in G
    BY <1>1, <1>11, Climb
  <2>2. QED
    BY <2>1 DEF G
<1>13. s[m] \in Seq(F)
  BY <1>1, <1>12 DEF D
<1>14. Step("reorder", 0) \in F /\ Step("reorder", 0).action \notin Searching
  BY DEF Steps, Step, Searching
<1>15. FirstRound(c) \in Seq(F) /\ Ends(FirstRound(c))
  <2>1. CASE FlexBandwidth(c, 1) = 0
    BY <1>4, <2>1 DEF Ends
  <2>2. CASE FlexBandwidth(c, 1) # 0
    <3>1. FirstRound(c) = Append(s[m], Step("reorder", 0))
      BY <1>4, <2>2
    <3>2. FirstRound(c) \in Seq(F) /\ Last(FirstRound(c)) = Step("reorder", 0)
      BY <1>13, <1>14, <3>1, AppendProperties DEF Last
    <3>3. QED
      BY <1>14, <3>2 DEF Ends
  <2>3. QED
    BY <2>1, <2>2
<1>16. QED
  BY <1>15

LEMMA SchedulesInitOK ==
  ASSUME RoundsInit
  PROVE  SchedulesInv
<1>1. request \in Requests /\ booked \in Bookings /\ RequestTyped
  BY RequestsTyped DEF RoundsInit
<1>2. DOMAIN todo = Contexts /\ \A c \in Contexts : todo[c] \in Seq(Steps(c)) /\ Ends(todo[c])
  <2>1. todo = [c \in Contexts |-> FirstRound(c)]
    BY DEF RoundsInit
  <2>2. QED
    BY <1>1, <2>1, FirstRoundTyped
<1>3. /\ left \in [Contexts -> SUBSET Links]
      /\ free \in [Contexts -> [Links -> Nat]]
      /\ \A c \in Contexts : \A l \in Links : free[c][l] <= Capacity[l]
  <2>1. Capacity \in [Links -> Nat]
    BY SchedulesAssumption
  <2>2. left = [c \in Contexts |-> Links] /\ free = [c \in Contexts |-> Capacity]
    BY DEF RoundsInit
  <2>3. QED
    BY <2>1, <2>2
<1>4. deltas \in [Contexts -> [Links -> Seq(LinkDelta)]]
  <2> DEFINE E(l) == [i \in DOMAIN booked[l] |->
                        [s |-> booked[l][i].s, e |-> booked[l][i].e, bw |-> booked[l][i].bw,
                         gri |-> 0, made |-> 0, applied |-> FALSE]]
  <2>1. deltas = [c \in Contexts |-> [l \in Links |-> E(l)]]
    BY DEF RoundsInit
  <2>2. ASSUME NEW l \in Links
        PROVE  E(l) \in Seq(LinkDelta)
    <3>1. booked[l] \in Seq(Booking)
      BY <1>1, SchedulesAssumption
    <3>2. ASSUME NEW i \in 1 .. Len(booked[l])
          PROVE  [s |-> booked[l][i].s, e |-> booked[l][i].e, bw |-> booked[l][i].bw,
                  gri |-> 0, made |-> 0, applied |-> FALSE] \in LinkDelta
      <4>1. booked[l][i] \in Booking
        BY <3>1
      <4>2. booked[l][i].s \in Times /\ booked[l][i].e \in Times /\ booked[l][i].bw \in Nat
        BY <4>1 DEF Booking
      <4>3. \A t \in Times : t \in Int
        BY SchedulesAssumption DEF Times
      <4>4. QED
        BY <4>2, <4>3 DEF LinkDelta
    <3>3. DOMAIN booked[l] = 1 .. Len(booked[l]) /\ Len(booked[l]) \in Nat
      BY <3>1
    <3> DEFINE g == E(l)
    <3>4. g \in [1 .. Len(booked[l]) -> LinkDelta]
      BY <3>2, <3>3
    <3> HIDE DEF g
    <3>5. g \in Seq(LinkDelta)
      BY <3>3, <3>4, SeqDef
    <3>6. QED
      BY <3>5 DEF g
  <2> HIDE DEF E
  <2>3. QED
    BY <2>1, <2>2
<1>5. series \in [Contexts -> [Links -> Seq(Held)]]
  <2>1. NoSeries \in Seq(Held)
    BY DEF NoSeries, NoDelta, Delta, Held
  <2>2. series = [c \in Contexts |-> [l \in Links |-> NoSeries]]
    BY DEF RoundsInit
  <2>3. QED
    BY <2>1, <2>2
<1>6. ats \in [Contexts -> Seq(Int)] /\ committed \in Seq(Resv) /\ clock \in Nat
  BY DEF RoundsInit
<1>7. QED
  BY <1>1, <1>2, <1>3, <1>4, <1>5, <1>6 DEF SchedulesInv

-----------------------------------------------------------------------------
(* The actions keep it.                                                    *)
LEMMA SameSteps ==
  ASSUME request' = request, NEW c
  PROVE  Steps(c)' = Steps(c)
BY DEF Steps, FlexBandwidth

TodoTyped == DOMAIN todo = Contexts /\ \A c \in Contexts : todo[c] \in Seq(Steps(c)) /\ Ends(todo[c])

LEMMA TodoOf ==
  ASSUME TodoTyped, request' = request, NEW c \in Contexts, NEW q \in Seq(Steps(c)), Ends(q),
         todo' = [todo EXCEPT ![c] = q]
  PROVE  TodoTyped'
<1>1. DOMAIN todo' = Contexts
  BY DEF TodoTyped
<1>2. ASSUME NEW d \in Contexts
      PROVE  todo'[d] \in Seq(Steps(d)') /\ Ends(todo'[d])
  <2>1. todo'[d] = IF d = c THEN q ELSE todo[d]
    BY DEF TodoTyped
  <2>2. todo'[d] \in Seq(Steps(d)) /\ Ends(todo'[d])
    BY <2>1 DEF TodoTyped
  <2>3. Steps(d)' = Steps(d)
    BY SameSteps
  <2>4. QED
    BY <2>2, <2>3
<1>3. QED
  BY <1>1, <1>2 DEF TodoTyped, Ends

\* What an action of a context finds.
LEMMA RunningStep ==
  ASSUME SchedulesInv, NEW c \in Contexts, NEW a, NEW u, Running(c, a, u)
  PROVE  /\ RequestTyped /\ TodoTyped /\ LinksTyped(c)
         /\ todo[c] # <<>> /\ Head(todo[c]) = Step(a, u) /\ Head(todo[c]).action = a
         /\ Tail(todo[c]) \in Seq(Steps(c)) /\ Ends(Tail(todo[c]))
         /\ a \in Searching => /\ u \in DOMAIN request /\ FlexBandwidth(c, u) > 0
                               /\ Tail(todo[c]) # <<>>
<1>1. RequestTyped /\ TodoTyped
  BY RequestsTyped DEF SchedulesInv, TodoTyped
<1>2. LinksTyped(c)
  <2>1. /\ left \in [Contexts -> SUBSET Links]
        /\ free \in [Contexts -> [Links -> Nat]]
        /\ \A l \in Links : free[c][l] <= Capacity[l]
        /\ series \in [Contexts -> [Links -> Seq(Held)]]
        /\ deltas \in [Contexts -> [Links -> Seq(LinkDelta)]]
    BY DEF SchedulesInv
  <2>2. QED
    BY <2>1 DEF LinksTyped
<1>3. todo[c] # <<>> /\ Head(todo[c]) = Step(a, u)
  BY DEF Running
<1>4. Head(todo[c]).action = a /\ Head(todo[c]).path = u
  BY <1>3 DEF Step
<1>5. todo[c] \in Seq(Steps(c)) /\ Ends(todo[c])
  BY <1>1 DEF TodoTyped
<1>6. /\ Tail(todo[c]) \in Seq(Steps(c)) /\ Ends(Tail(todo[c])) /\ Head(todo[c]) \in Steps(c)
      /\ a \in Searching => Tail(todo[c]) # <<>>
  BY <1>3, <1>4, <1>5, TailEnds
<1>7. a \in Searching => u \in DOMAIN request /\ FlexBandwidth(c, u) > 0
  BY <1>4, <1>6 DEF Steps
<1>8. QED
  BY <1>1, <1>2, <1>3, <1>4, <1>6, <1>7

\* Whether an action fails or goes on, the rest of its context is one.
LEMMA GoesOrFails ==
  ASSUME SchedulesInv, NEW c \in Contexts, NEW a, NEW u, Running(c, a, u), request' = request,
         Goes(c) \/ Fails(c)
  PROVE  TodoTyped'
<1>1. /\ TodoTyped /\ Tail(todo[c]) \in Seq(Steps(c)) /\ Ends(Tail(todo[c]))
  BY RunningStep
<1>2. CASE Goes(c)
  <2>1. todo' = [todo EXCEPT ![c] = Tail(todo[c])]
    BY <1>1, <1>2 DEF Goes, TodoTyped
  <2>2. QED
    BY <1>1, <2>1, TodoOf
<1>3. CASE Fails(c)
  <2>1. todo' = [todo EXCEPT ![c] = <<>>] /\ <<>> \in Seq(Steps(c)) /\ Ends(<<>>)
    BY <1>3 DEF Fails, Ends
  <2>2. QED
    BY <1>1, <2>1, TodoOf
<1>4. QED
  BY <1>2, <1>3

LEMMA ComputeKSPStep ==
  ASSUME SchedulesInv, NEW c \in Contexts, NEW u \in DOMAIN request, ComputeKSP(c, u)
  PROVE  SchedulesInv'
<1> DEFINE kept == PruneByExclusionUrn(left[c], 1)
           windowed == request[1].window
           ads == [l \in Links |-> IF windowed /\ l \in kept THEN SeriesOf(deltas[c][l])
                                   ELSE series[c][l]]
           w == request[1].flex[1]
           net == [l \in Links |-> IF windowed /\ l \in kept
                                   THEN Applied(free[c][l], JoinADSInWindow(ads[l], w.s, w.e).bw)
                                   ELSE free[c][l]]
           L == PruneByBandwidth(kept, net, FlexBandwidth(c, u))
<1>1. /\ Running(c, "ksp", u)
      /\ left' = [left EXCEPT ![c] = L]
      /\ free' = [free EXCEPT ![c] = net]
      /\ series' = [series EXCEPT ![c] = ads]
      /\ Goes(c) \/ Fails(c)
      /\ UNCHANGED <<input, deltas, ats, shared>>
  BY Zenon DEF ComputeKSP
<1>2. /\ left \in [Contexts -> SUBSET Links]
      /\ free \in [Contexts -> [Links -> Nat]]
      /\ \A d \in Contexts : \A l \in Links : free[d][l] <= Capacity[l]
      /\ deltas \in [Contexts -> [Links -> Seq(LinkDelta)]]
      /\ series \in [Contexts -> [Links -> Seq(Held)]]
  BY DEF SchedulesInv
<1>3. L \subseteq Links
  BY <1>2 DEF PruneByBandwidth, PruneByExclusionUrn
<1> HIDE DEF kept, windowed, w, L
<1>4. ads \in [Links -> Seq(Held)]
  <2>1. \A l \in Links : SeriesOf(deltas[c][l]) \in Seq(Held) /\ series[c][l] \in Seq(Held)
    BY <1>2, LinkSeriesTyped
  <2>2. QED
    BY <2>1
<1> HIDE DEF ads
<1>5. \A l \in Links : net[l] \in Nat /\ net[l] <= Capacity[l]
  <2> TAKE l \in Links
  <2>1. free[c][l] \in Nat /\ free[c][l] <= Capacity[l] /\ Capacity[l] \in Nat
    BY <1>2, SchedulesAssumption
  <2> DEFINE bw == JoinADSInWindow(ads[l], w.s, w.e).bw
  <2>2. bw \in Nat
    BY <1>4, JoinTyped
  <2>3. net[l] = IF windowed /\ l \in kept THEN Applied(free[c][l], bw) ELSE free[c][l]
    OBVIOUS
  <2> HIDE DEF bw, net
  <2>4. Applied(free[c][l], bw) \in Nat /\ Applied(free[c][l], bw) <= free[c][l]
    BY <2>1, <2>2, AppliedLeaves
  <2>5. QED
    BY <2>1, <2>3, <2>4
<1>6. net \in [Links -> Nat]
  <2>1. net = [l \in Links |-> net[l]]
    OBVIOUS
  <2> HIDE DEF net
  <2>2. QED
    BY <1>5, <2>1
<1> HIDE DEF net
<1>7. request' = request /\ booked' = booked
  BY <1>1 DEF input
<1>8. TodoTyped'
  BY <1>1, <1>7, GoesOrFails
<1>9. /\ left' \in [Contexts -> SUBSET Links]
      /\ free' \in [Contexts -> [Links -> Nat]]
      /\ series' \in [Contexts -> [Links -> Seq(Held)]]
  BY <1>1, <1>2, <1>3, <1>4, <1>6
<1>10. \A d \in Contexts : \A l \in Links : free'[d][l] <= Capacity[l]
  <2> TAKE d \in Contexts
  <2> TAKE l \in Links
  <2>1. free'[d] = IF d = c THEN net ELSE free[d]
    BY <1>1, <1>2
  <2>2. QED
    BY <1>2, <1>5, <2>1
<1>11. deltas' = deltas /\ ats' = ats /\ committed' = committed /\ clock' = clock
  BY <1>1 DEF shared
<1>12. QED
  BY <1>7, <1>8, <1>9, <1>10, <1>11 DEF SchedulesInv, TodoTyped

LEMMA CreateOrderedATSStep ==
  ASSUME SchedulesInv, NEW c \in Contexts, NEW u \in DOMAIN request, CreateOrderedATS(c, u)
  PROVE  SchedulesInv'
<1> DEFINE a == Aggregated(c, u)
           ads == [l \in Links |-> IF l \in a.links THEN SeriesOf(deltas[c][l]) ELSE series[c][l]]
           times == IF u = 1 THEN OrderedATS(c, u, a.points) ELSE ats[c]
<1>1. /\ left \in [Contexts -> SUBSET Links]
      /\ free \in [Contexts -> [Links -> Nat]]
      /\ \A d \in Contexts : \A l \in Links : free[d][l] <= Capacity[l]
      /\ deltas \in [Contexts -> [Links -> Seq(LinkDelta)]]
      /\ series \in [Contexts -> [Links -> Seq(Held)]]
      /\ ats \in [Contexts -> Seq(Int)]
  BY DEF SchedulesInv
<1>2. /\ Running(c, "ats", u)
      /\ series' = [series EXCEPT ![c] = ads]
      /\ ats' = [ats EXCEPT ![c] = times]
      /\ Goes(c)
      /\ UNCHANGED <<input, left, free, deltas, shared>>
  BY <1>1 DEF CreateOrderedATS
<1>3. RequestTyped
  BY <1>2, RunningStep
<1>4. a.points \in Seq(Int)
  BY <1>1, AggregatedTyped
<1> HIDE DEF a
<1>5. times \in Seq(Int)
  BY <1>1, <1>3, <1>4, ATSTyped
<1>6. ads \in [Links -> Seq(Held)]
  <2>1. \A l \in Links : SeriesOf(deltas[c][l]) \in Seq(Held) /\ series[c][l] \in Seq(Held)
    BY <1>1, LinkSeriesTyped
  <2>2. QED
    BY <2>1
<1> HIDE DEF ads, times
<1>7. request' = request /\ booked' = booked
  BY <1>2 DEF input
<1>8. TodoTyped'
  BY <1>2, <1>7, GoesOrFails
<1>9. series' \in [Contexts -> [Links -> Seq(Held)]] /\ ats' \in [Contexts -> Seq(Int)]
  BY <1>1, <1>2, <1>5, <1>6
<1>10. left' = left /\ free' = free /\ deltas' = deltas /\ committed' = committed /\ clock' = clock
  BY <1>2 DEF shared
<1>11. QED
  BY <1>7, <1>8, <1>9, <1>10 DEF SchedulesInv, TodoTyped

LEMMA FinalizeStep ==
  ASSUME SchedulesInv, NEW c \in Contexts, FinalizeServiceTopology(c)
  PROVE  SchedulesInv'
<1>1. /\ Running(c, "finalize", 0) /\ Goes(c)
      /\ UNCHANGED <<input, tewg, ats, shared>>
  BY DEF FinalizeServiceTopology
<1>2. request' = request /\ booked' = booked
  BY <1>1 DEF input
<1>3. TodoTyped'
  BY <1>1, <1>2, GoesOrFails
<1>4. /\ left' = left /\ free' = free /\ deltas' = deltas /\ series' = series
      /\ ats' = ats /\ committed' = committed /\ clock' = clock
  BY <1>1 DEF shared, tewg
<1>5. QED
  BY <1>2, <1>3, <1>4 DEF SchedulesInv, TodoTyped

LEMMA ReorderStep ==
  ASSUME SchedulesInv, NEW c \in Contexts, ReorderPaths(c)
  PROVE  SchedulesInv'
<1>1. Running(c, "reorder", 0) /\ UNCHANGED <<input, tewg, ats, shared>>
  BY DEF ReorderPaths
<1>2. request' = request /\ booked' = booked
  BY <1>1 DEF input
<1>3. RequestTyped /\ TodoTyped
  BY <1>1, RunningStep
<1>4. CASE \A u \in DOMAIN request : FlexBandwidth(c, u) # 0
  <2> DEFINE last == Step("finalize", 0)
             q == Append(SecondRound, last)
  <2>1. todo' = [todo EXCEPT ![c] = q]
    BY <1>4 DEF ReorderPaths
  <2>2. ASSUME NEW u \in DOMAIN request
        PROVE  Step("round2", u) \in Steps(c)
    <3>1. FlexBandwidth(c, u) \in Nat /\ FlexBandwidth(c, u) # 0 /\ u \in Nat
      BY <1>3, <1>4, FlexTyped, RequestFields
    <3>2. QED
      BY <3>1 DEF Steps, Step, Searching
  <2>3. SecondRound \in Seq(Steps(c))
    <3>1. Len(request) \in Nat /\ DOMAIN request = 1 .. Len(request)
      BY <1>3 DEF RequestTyped
    <3>2. SecondRound \in [1 .. Len(request) -> Steps(c)]
      BY <2>2, <3>1 DEF SecondRound
    <3>3. QED
      BY <3>1, <3>2, SeqDef
  <2>4. last \in Steps(c) /\ last.action \notin Searching
    BY DEF Steps, Step, Searching
  <2> HIDE DEF last
  <2>5. q \in Seq(Steps(c)) /\ Last(q) = last
    BY <2>3, <2>4, AppendProperties DEF Last
  <2>6. Ends(q)
    BY <2>4, <2>5 DEF Ends
  <2> HIDE DEF q
  <2>7. QED
    <3>1. TodoTyped'
      BY <1>2, <1>3, <2>1, <2>5, <2>6, TodoOf
    <3>2. /\ left' = left /\ free' = free /\ deltas' = deltas /\ series' = series
          /\ ats' = ats /\ committed' = committed /\ clock' = clock
      BY <1>1 DEF shared, tewg
    <3>3. QED
      BY <1>2, <3>1, <3>2 DEF SchedulesInv, TodoTyped
<1>5. CASE ~ \A u \in DOMAIN request : FlexBandwidth(c, u) # 0
  <2>1. todo' = todo
    BY <1>5 DEF ReorderPaths
  <2>2. TodoTyped'
    <3>1. \A d \in Contexts : Steps(d)' = Steps(d)
      BY <1>2, SameSteps
    <3>2. QED
      BY <1>3, <2>1, <3>1 DEF TodoTyped, Ends
  <2>3. /\ left' = left /\ free' = free /\ deltas' = deltas /\ series' = series
        /\ ats' = ats /\ committed' = committed /\ clock' = clock
    BY <1>1 DEF shared, tewg
  <2>4. QED
    BY <1>2, <2>2, <2>3 DEF SchedulesInv, TodoTyped
<1>6. QED
  BY <1>4, <1>5

\* The three ways a schedule computation ends; the first two leave what is held alone.
AfterAll(c, r, u) == AtTimePoints(c, r, u)[Len(ats[c])]
Found(c, r, u) == Sorted(FeasiblePaths(c, u, AtTimePoints(c, r, u)))
GivesUp(c, r, u) == /\ Fails(c) /\ (AfterAll(c, r, u).thrown \/ Found(c, r, u) = <<>>)
                 /\ free' = [free EXCEPT ![c] = AfterAll(c, r, u).free]
                 /\ UNCHANGED <<deltas, shared>>
FindsOnly(c, r, u) == /\ Goes(c) /\ ~ AfterAll(c, r, u).thrown
                   /\ free' = [free EXCEPT ![c] = AfterAll(c, r, u).free]
                   /\ UNCHANGED <<deltas, shared>>
FindsAndHolds(c, r, u) == /\ Goes(c) /\ ~ AfterAll(c, r, u).thrown /\ Found(c, r, u) # <<>>
                       /\ Commit(c, u, Found(c, r, u), AfterAll(c, r, u).left, AfterAll(c, r, u).free)

LEMMA ScheduleOutcomes ==
  ASSUME NEW c, NEW r, NEW u, ComputeSchedulesWithKSP(c, r, u)
  PROVE  /\ Running(c, IF r = 1 THEN "round1" ELSE "round2", u)
         /\ left' = [left EXCEPT ![c] = AfterAll(c, r, u).left]
         /\ series' = [series EXCEPT ![c] = AfterAll(c, r, u).series]
         /\ UNCHANGED <<input, ats>>
         /\ GivesUp(c, r, u) \/ FindsOnly(c, r, u) \/ (r = 2 /\ FindsAndHolds(c, r, u))
<1> DEFINE end == AfterAll(c, r, u)
           paths == Found(c, r, u)
           fails == end.thrown \/ paths = <<>>
<1>1. /\ Running(c, IF r = 1 THEN "round1" ELSE "round2", u)
      /\ left' = [left EXCEPT ![c] = end.left]
      /\ series' = [series EXCEPT ![c] = end.series]
      /\ IF fails THEN Fails(c) ELSE Goes(c)
      /\ IF Holds(r) /\ ~ fails
         THEN Commit(c, u, paths, end.left, end.free)
         ELSE free' = [free EXCEPT ![c] = end.free] /\ UNCHANGED <<deltas, shared>>
      /\ UNCHANGED <<input, ats>>
  BY Zenon DEF ComputeSchedulesWithKSP, AfterAll, Found
<1> HIDE DEF end, paths
<1>2. CASE fails
  <2>1. Fails(c) /\ free' = [free EXCEPT ![c] = end.free] /\ UNCHANGED <<deltas, shared>>
    BY <1>1, <1>2, Zenon
  <2>2. GivesUp(c, r, u)
    BY <1>2, <2>1 DEF GivesUp, end, paths
  <2>3. QED
    BY <1>1, <2>2 DEF end
<1>3. CASE ~ fails /\ Holds(r)
  <2>1. Goes(c) /\ Commit(c, u, paths, end.left, end.free) /\ ~ end.thrown /\ paths # <<>>
    BY <1>1, <1>3, Zenon
  <2>2. FindsAndHolds(c, r, u)
    BY <2>1 DEF FindsAndHolds, end, paths
  <2>3. r = 2
    BY <1>3 DEF Holds
  <2>4. QED
    BY <1>1, <2>2, <2>3 DEF end
<1>4. CASE ~ fails /\ ~ Holds(r)
  <2>1. /\ Goes(c) /\ free' = [free EXCEPT ![c] = end.free] /\ UNCHANGED <<deltas, shared>>
        /\ ~ end.thrown
    BY <1>1, <1>4, Zenon
  <2>2. FindsOnly(c, r, u)
    BY <2>1 DEF FindsOnly, end
  <2>3. QED
    BY <1>1, <2>2 DEF end
<1>5. QED
  BY <1>2, <1>3, <1>4

\* A delta may be applied later, but what it holds stays.
Alike(x, y) == x.s = y.s /\ x.e = y.e /\ x.bw = y.bw
Grows(c, l) == /\ Len(deltas[c][l]) <= Len(deltas'[c][l])
               /\ \A i \in 1 .. Len(deltas[c][l]) : Alike(deltas'[c][l][i], deltas[c][l][i])

\* A reservation that is held, as the links see it.
LEMMA CommitTyped ==
  ASSUME SchedulesInv, RequestTyped, NEW c \in Contexts, NEW u \in DOMAIN request,
         FlexBandwidth(c, u) > 0, NEW paths \in Seq(FoundPath), paths # <<>>,
         NEW L, NEW have \in [Links -> Nat], \A l \in Links : have[l] <= Capacity[l],
         Commit(c, u, paths, L, have)
  PROVE  /\ committed' \in Seq(Resv) /\ committed' # committed /\ clock' \in Nat
         /\ free' \in [Contexts -> [Links -> Nat]]
         /\ \A d \in Contexts : \A l \in Links : free'[d][l] <= Capacity[l]
         /\ deltas' \in [Contexts -> [Links -> Seq(LinkDelta)]]
         /\ \A d \in Contexts : \A l \in Links : Grows(d, l)
<1> DEFINE held == Reservation(c, u, paths)
           resvs == Append(committed, held)
           gri == Gri(u)
           on == [l \in Links |-> IF l \in L THEN AddResvDeltas(deltas[c][l], l, resvs)
                                  ELSE deltas[c][l]]
           now == [l \in Links |-> IF l \in L
                     THEN ApplyResvDeltas(RevokeResvDeltas(have[l], on[l], gri, Capacity[l]), on[l], gri)
                     ELSE have[l]]
           marked == [l \in Links |-> [i \in DOMAIN on[l] |->
                        IF on[l][i].gri = gri THEN [on[l][i] EXCEPT !.applied = TRUE] ELSE on[l][i]]]
<1>1. /\ committed' = resvs /\ clock' = clock + 2
      /\ free' = [free EXCEPT ![c] = now]
      /\ deltas' = [deltas EXCEPT ![c] = marked]
  BY Zenon DEF Commit
<1>2. /\ committed \in Seq(Resv) /\ clock \in Nat
      /\ free \in [Contexts -> [Links -> Nat]]
      /\ \A d \in Contexts : \A l \in Links : free[d][l] <= Capacity[l]
      /\ deltas \in [Contexts -> [Links -> Seq(LinkDelta)]]
  BY DEF SchedulesInv
<1>3. held \in Resv
  BY <1>2, ReservationTyped
<1> HIDE DEF held, gri
<1>4. resvs \in Seq(Resv) /\ resvs # committed
  <2>1. resvs \in Seq(Resv) /\ Len(resvs) = Len(committed) + 1 /\ Len(committed) \in Nat
    BY <1>2, <1>3, AppendProperties, LenProperties
  <2>2. QED
    BY <2>1
<1> HIDE DEF resvs
<1>5. \A l \in Links : on[l] \in Seq(LinkDelta) /\ on[l] \in Longer(deltas[c][l])
  <2> TAKE l \in Links
  <2>1. deltas[c][l] \in Seq(LinkDelta)
    BY <1>2
  <2>2. AddResvDeltas(deltas[c][l], l, resvs) \in Longer(deltas[c][l])
    BY <1>2, <1>4, <2>1, ResvDeltasTyped
  <2>3. deltas[c][l] \in Longer(deltas[c][l])
    BY <2>1 DEF Longer
  <2>4. on[l] \in Longer(deltas[c][l])
    BY <2>2, <2>3
  <2> HIDE DEF on
  <2>5. QED
    BY <2>4 DEF Longer
<1> HIDE DEF on
<1>6. \A l \in Links : now[l] \in 0 .. Capacity[l]
  <2> TAKE l \in Links
  <2> DEFINE max == Capacity[l]
             back == RevokeResvDeltas(have[l], on[l], gri, max)
             out == ApplyResvDeltas(back, on[l], gri)
  <2>1. now[l] = IF l \in L THEN out ELSE have[l]
    OBVIOUS
  <2>2. max \in Nat /\ have[l] \in 0 .. max
    BY SchedulesAssumption
  <2> HIDE DEF max
  <2>3. back \in 0 .. max
    BY <1>5, <2>2, RevokeTyped
  <2> HIDE DEF back
  <2>4. out \in 0 .. max
    BY <1>5, <2>2, <2>3, ApplyTyped
  <2> HIDE DEF out, now
  <2>5. now[l] \in 0 .. max
    BY <2>1, <2>2, <2>4
  <2>6. QED
    BY <2>5 DEF max
<1>7. now = [l \in Links |-> now[l]]
  OBVIOUS
<1> HIDE DEF now
<1>8. /\ now \in [Links -> Nat] /\ \A l \in Links : now[l] <= Capacity[l]
  <2>1. \A l \in Links : now[l] \in Nat /\ now[l] <= Capacity[l]
    <3> TAKE l \in Links
    <3>1. now[l] \in 0 .. Capacity[l] /\ Capacity[l] \in Nat
      BY <1>6, SchedulesAssumption
    <3>2. QED
      BY <3>1
  <2>2. QED
    BY <1>7, <2>1
<1>9. \A l \in Links : /\ marked[l] \in Seq(LinkDelta) /\ Len(marked[l]) = Len(on[l])
                       /\ \A i \in 1 .. Len(on[l]) : Alike(marked[l][i], on[l][i])
  <2> TAKE l \in Links
  <2> DEFINE q == on[l]
             New(d) == IF d.gri = gri THEN [d EXCEPT !.applied = TRUE] ELSE d
             g == [i \in DOMAIN q |-> New(q[i])]
  <2>1. marked[l] = g
    OBVIOUS
  <2>2. q \in Seq(LinkDelta) /\ DOMAIN q = 1 .. Len(q) /\ Len(q) \in Nat
    BY <1>5
  <2>3. \A d \in LinkDelta : New(d) \in LinkDelta /\ Alike(New(d), d)
    BY DEF LinkDelta, Alike
  <2> HIDE DEF q, New, marked
  <2>4. g \in [1 .. Len(q) -> LinkDelta] /\ \A i \in 1 .. Len(q) : Alike(g[i], q[i])
    BY <2>2, <2>3
  <2> HIDE DEF g
  <2>5. g \in Seq(LinkDelta) /\ Len(g) = Len(q)
    <3>1. g \in Seq(LinkDelta) /\ DOMAIN g = 1 .. Len(q)
      BY <2>2, <2>4, SeqDef
    <3>2. Len(g) \in Nat /\ DOMAIN g = 1 .. Len(g)
      BY <3>1
    <3>3. QED
      BY <2>2, <3>1, <3>2
  <2>6. QED
    BY <2>1, <2>4, <2>5 DEF q
<1>10. marked = [l \in Links |-> marked[l]]
  OBVIOUS
<1> HIDE DEF marked
<1>11. marked \in [Links -> Seq(LinkDelta)]
  BY <1>9, <1>10
<1>12. free' \in [Contexts -> [Links -> Nat]] /\ deltas' \in [Contexts -> [Links -> Seq(LinkDelta)]]
  BY <1>1, <1>2, <1>8, <1>11
<1>13. \A d \in Contexts : \A l \in Links : free'[d][l] <= Capacity[l]
  <2> TAKE d \in Contexts
  <2> TAKE l \in Links
  <2>1. free'[d] = IF d = c THEN now ELSE free[d]
    BY <1>1, <1>2
  <2>2. QED
    BY <1>2, <1>8, <2>1
<1>14. clock' \in Nat
  BY <1>1, <1>2
<1>15. \A d \in Contexts : \A l \in Links : Grows(d, l)
  <2> TAKE d \in Contexts
  <2> TAKE l \in Links
  <2> DEFINE was == deltas[d][l]
  <2>1. was \in Seq(LinkDelta) /\ Len(was) \in Nat
    BY <1>2
  <2>2. CASE d = c
    <3>1. deltas'[d][l] = marked[l]
      BY <1>1, <1>2, <2>2
    <3>2. /\ Len(was) <= Len(on[l]) /\ Len(on[l]) \in Nat
          /\ \A i \in 1 .. Len(was) : on[l][i] = was[i]
      BY <1>5, <2>2 DEF Longer
    <3>3. Len(was) <= Len(marked[l]) /\ \A i \in 1 .. Len(was) : Alike(marked[l][i], was[i])
      <4>1. \A i \in 1 .. Len(was) : i \in 1 .. Len(on[l])
        BY <2>1, <3>2
      <4>2. QED
        BY <1>9, <3>2, <4>1
    <3> HIDE DEF was
    <3>4. QED
      BY <3>1, <3>3 DEF Grows, was
  <2>3. CASE d # c
    <3>1. deltas'[d] = deltas[d]
      BY <1>1, <1>2, <2>3
    <3>2. QED
      BY <2>1, <3>1 DEF Grows, Alike
  <2>4. QED
    BY <2>2, <2>3
<1>16. QED
  BY <1>1, <1>4, <1>12, <1>13, <1>14, <1>15

\* What the time points leave, and whether a link has what it had.
LEMMA AfterAllTyped ==
  ASSUME SchedulesInv, NEW c \in Contexts, NEW a \in Searching, NEW r, NEW u, Running(c, a, u)
  PROVE  /\ AfterAll(c, r, u).left \subseteq Links
         /\ AfterAll(c, r, u).series \in [Links -> Seq(Held)]
         /\ \A l \in Links :
              AfterAll(c, r, u).series[l] \in {series[c][l], SeriesOf(deltas[c][l])}
         /\ AfterAll(c, r, u).free \in [Links -> Nat]
         /\ \A l \in Links : AfterAll(c, r, u).free[l] <= Capacity[l]
         /\ ~ AfterAll(c, r, u).thrown =>
              \A l \in AfterAll(c, r, u).left : AfterAll(c, r, u).free[l] = free[c][l]
<1>1. RequestTyped /\ LinksTyped(c) /\ u \in DOMAIN request /\ FlexBandwidth(c, u) > 0
  BY RunningStep
<1>2. ats[c] \in Seq(Int) /\ Len(ats[c]) \in 0 .. Len(ats[c])
  BY DEF SchedulesInv
<1>3. AfterAll(c, r, u) \in Tried(c)
  BY <1>1, <1>2, TimePointsGiveBack DEF AfterAll
<1>4. QED
  BY <1>3 DEF Tried

LEMMA ComputeSchedulesStep ==
  ASSUME SchedulesInv, NEW c \in Contexts, NEW r, NEW u, ComputeSchedulesWithKSP(c, r, u)
  PROVE  SchedulesInv'
<1> DEFINE a == IF r = 1 THEN "round1" ELSE "round2"
           end == AfterAll(c, r, u)
<1>1. /\ Running(c, a, u)
      /\ left' = [left EXCEPT ![c] = end.left]
      /\ series' = [series EXCEPT ![c] = end.series]
      /\ UNCHANGED <<input, ats>>
      /\ GivesUp(c, r, u) \/ FindsOnly(c, r, u) \/ FindsAndHolds(c, r, u)
  BY ScheduleOutcomes
<1>2. a \in Searching
  BY DEF Searching
<1> HIDE DEF a
<1>3. /\ RequestTyped /\ TodoTyped /\ u \in DOMAIN request /\ FlexBandwidth(c, u) > 0
  BY <1>1, <1>2, RunningStep
<1>4. /\ left \in [Contexts -> SUBSET Links]
      /\ free \in [Contexts -> [Links -> Nat]]
      /\ \A d \in Contexts : \A l \in Links : free[d][l] <= Capacity[l]
      /\ deltas \in [Contexts -> [Links -> Seq(LinkDelta)]]
      /\ committed \in Seq(Resv) /\ clock \in Nat /\ ats[c] \in Seq(Int)
  BY DEF SchedulesInv
<1>5. /\ end.left \subseteq Links /\ end.free \in [Links -> Nat]
      /\ end.series \in [Links -> Seq(Held)]
      /\ \A l \in Links : end.free[l] <= Capacity[l]
  BY <1>1, <1>2, AfterAllTyped
<1>6. request' = request /\ booked' = booked /\ ats' = ats
  BY <1>1 DEF input
<1>7. TodoTyped'
  <2>1. Goes(c) \/ Fails(c)
    BY <1>1 DEF GivesUp, FindsOnly, FindsAndHolds
  <2>2. QED
    BY <1>1, <1>6, <2>1, GoesOrFails
<1>8. /\ committed' \in Seq(Resv) /\ clock' \in Nat
      /\ free' \in [Contexts -> [Links -> Nat]]
      /\ \A d \in Contexts : \A l \in Links : free'[d][l] <= Capacity[l]
      /\ deltas' \in [Contexts -> [Links -> Seq(LinkDelta)]]
  <2>1. CASE GivesUp(c, r, u) \/ FindsOnly(c, r, u)
    <3>1. free' = [free EXCEPT ![c] = end.free] /\ UNCHANGED <<deltas, shared>>
      BY <2>1 DEF GivesUp, FindsOnly
    <3>2. free' \in [Contexts -> [Links -> Nat]]
      BY <1>4, <1>5, <3>1
    <3>3. \A d \in Contexts : \A l \in Links : free'[d][l] <= Capacity[l]
      <4> TAKE d \in Contexts
      <4> TAKE l \in Links
      <4>1. free'[d] = IF d = c THEN end.free ELSE free[d]
        BY <1>4, <3>1
      <4>2. QED
        BY <1>4, <1>5, <4>1
    <3>4. QED
      BY <1>4, <3>1, <3>2, <3>3 DEF shared
  <2>2. CASE FindsAndHolds(c, r, u)
    <3>1. Found(c, r, u) \in Seq(FoundPath)
      BY <1>3, <1>4, FeasibleTyped, SortedTyped DEF Found
    <3>2. Found(c, r, u) # <<>> /\ Commit(c, u, Found(c, r, u), end.left, end.free)
      BY <2>2 DEF FindsAndHolds
    <3> HIDE DEF end
    <3>3. QED
      BY <1>3, <1>5, <3>1, <3>2, CommitTyped
  <2>3. QED
    BY <1>1, <2>1, <2>2
<1>9. left' \in [Contexts -> SUBSET Links]
  BY <1>1, <1>4, <1>5
<1>10. QED
  <2>1. series' \in [Contexts -> [Links -> Seq(Held)]] /\ ats' \in [Contexts -> Seq(Int)]
    BY <1>1, <1>5, <1>6 DEF SchedulesInv
  <2>2. request' \in Requests /\ booked' \in Bookings
    BY <1>6 DEF SchedulesInv
  <2>3. QED
    BY <1>7, <1>8, <1>9, <2>1, <2>2 DEF SchedulesInv, TodoTyped

LEMMA SameState ==
  ASSUME SchedulesInv,
         UNCHANGED <<request, booked, todo, left, free, deltas, series, ats, committed, clock>>
  PROVE  SchedulesInv'
<1>1. /\ request' = request /\ booked' = booked /\ todo' = todo /\ left' = left /\ free' = free
      /\ deltas' = deltas /\ series' = series /\ ats' = ats /\ committed' = committed
      /\ clock' = clock
  OBVIOUS
<1>2. TodoTyped'
  <2>1. \A d \in Contexts : Steps(d)' = Steps(d)
    BY <1>1, SameSteps
  <2>2. TodoTyped
    BY DEF SchedulesInv, TodoTyped
  <2>3. QED
    BY <1>1, <2>1, <2>2 DEF TodoTyped, Ends
<1>3. QED
  BY <1>1, <1>2 DEF SchedulesInv, TodoTyped

LEMMA SchedulesStep ==
  ASSUME SchedulesInv, [RoundsNext]_roundsVars
  PROVE  SchedulesInv'
<1>1. CASE UNCHANGED roundsVars
  <2>1. UNCHANGED <<request, booked, todo, left, free, deltas, series, ats, committed, clock>>
    BY <1>1 DEF roundsVars, input, tewg, shared
  <2>2. QED
    BY <2>1, SameState
<1>2. ASSUME NEW c \in Contexts, NEW u \in DOMAIN request, ComputeKSP(c, u)
      PROVE  SchedulesInv'
  BY <1>2, ComputeKSPStep
<1>3. ASSUME NEW c \in Contexts, NEW u \in DOMAIN request, CreateOrderedATS(c, u)
      PROVE  SchedulesInv'
  BY <1>3, CreateOrderedATSStep
<1>4. ASSUME NEW c \in Contexts, NEW u \in DOMAIN request, CountOfPrunedLink(c, u)
      PROVE  SchedulesInv'
  <2>1. UNCHANGED <<request, booked, todo, left, free, deltas, series, ats, committed, clock>>
    BY <1>4 DEF CountOfPrunedLink, input, tewg, shared
  <2>2. QED
    BY <2>1, SameState
<1>5. ASSUME NEW c \in Contexts, NEW u \in DOMAIN request, NEW r \in 1..2,
             ComputeSchedulesWithKSP(c, r, u)
      PROVE  SchedulesInv'
  BY <1>5, ComputeSchedulesStep
<1>6. ASSUME NEW c \in Contexts, ReorderPaths(c)
      PROVE  SchedulesInv'
  BY <1>6, ReorderStep
<1>7. ASSUME NEW c \in Contexts, FinalizeServiceTopology(c)
      PROVE  SchedulesInv'
  BY <1>7, FinalizeStep
<1>8. QED
  BY <1>1, <1>2, <1>3, <1>4, <1>5, <1>6, <1>7, Zenon DEF RoundsNext

\* The two rounds keep to the types of what they work on, no link has more than it can carry,
\* and the last action of a context is never a search (compute_actions.cc:1448, 1780).
THEOREM SchedulesKeepTypes == RoundsSpec => []SchedulesInv
<1>1. RoundsInit => SchedulesInv
  BY SchedulesInitOK
<1>2. SchedulesInv /\ [RoundsNext]_roundsVars => SchedulesInv'
  BY SchedulesStep
<1>3. QED
  BY <1>1, <1>2, PTL DEF RoundsSpec

\* Each action gives back, or is none that GivesBack speaks of.
LEMMA GivesBackStep ==
  ASSUME SchedulesInv, [RoundsNext]_roundsVars, NEW c \in Contexts, NEW l \in Links,
         todo[c] # <<>>, todo'[c] = Tail(todo[c]), Head(todo[c]).action \in {"round1", "round2"},
         committed' = committed, l \in left'[c]
  PROVE  free'[c][l] = free[c][l]
<1>1. /\ free \in [Contexts -> [Links -> Nat]]
      /\ left \in [Contexts -> SUBSET Links]
      /\ todo[c] \in Seq(Steps(c)) /\ Ends(todo[c]) /\ DOMAIN todo = Contexts
  BY DEF SchedulesInv
<1>2. CASE free' = free
  BY <1>2
<1>3. ASSUME NEW d \in Contexts, NEW u, ComputeKSP(d, u)
      PROVE  free'[c][l] = free[c][l]
  <2>1. Running(d, "ksp", u)
    BY <1>3, Zenon DEF ComputeKSP
  <2>2. d # c
    BY <2>1 DEF Running, Step
  <2>3. \E x : free' = [free EXCEPT ![d] = x]
    BY <1>3, Zenon DEF ComputeKSP
  <2>4. QED
    BY <1>1, <2>2, <2>3
<1>4. ASSUME NEW d \in Contexts, NEW u, NEW r \in 1..2, ComputeSchedulesWithKSP(d, r, u)
      PROVE  free'[c][l] = free[c][l]
  <2> DEFINE a == IF r = 1 THEN "round1" ELSE "round2"
  <2>1. /\ Running(d, a, u)
        /\ left' = [left EXCEPT ![d] = AfterAll(d, r, u).left]
        /\ GivesUp(d, r, u) \/ FindsOnly(d, r, u) \/ FindsAndHolds(d, r, u)
    BY <1>4, ScheduleOutcomes
  <2>2. a \in Searching
    BY DEF Searching
  <2> HIDE DEF a
  <2>3. CASE d # c
    <3>1. \E x : free' = [free EXCEPT ![d] = x]
      <4>1. CASE GivesUp(d, r, u) \/ FindsOnly(d, r, u)
        BY <4>1 DEF GivesUp, FindsOnly
      <4>2. CASE FindsAndHolds(d, r, u)
        BY <4>2, Zenon DEF FindsAndHolds, Commit
      <4>3. QED
        BY <2>1, <4>1, <4>2
    <3>2. QED
      BY <1>1, <2>3, <3>1
  <2>4. CASE d = c
    <3>1. CASE GivesUp(c, r, u)
      <4>1. todo'[c] = <<>>
        BY <1>1, <3>1 DEF GivesUp, Fails
      <4>2. Tail(todo[c]) # <<>>
        BY <1>1, TailEnds DEF Searching
      <4>3. QED
        BY <4>1, <4>2
    <3>2. CASE FindsOnly(c, r, u)
      <4>1. free' = [free EXCEPT ![c] = AfterAll(c, r, u).free] /\ ~ AfterAll(c, r, u).thrown
        BY <3>2 DEF FindsOnly
      <4>2. l \in AfterAll(c, r, u).left
        BY <1>1, <2>1, <2>4
      <4>3. AfterAll(c, r, u).free[l] = free[c][l]
        BY <2>1, <2>2, <2>4, <4>1, <4>2, AfterAllTyped
      <4>4. QED
        BY <1>1, <4>1, <4>3
    <3>3. CASE FindsAndHolds(c, r, u)
      <4>1. committed' = Append(committed, Reservation(c, u, Found(c, r, u)))
        BY <3>3, Zenon DEF FindsAndHolds, Commit
      <4>2. committed \in Seq(Resv) /\ Len(committed) \in Nat
        BY DEF SchedulesInv
      <4>3. Len(committed') = Len(committed) + 1
        BY <4>1, <4>2
      <4>4. QED
        BY <4>2, <4>3
    <3>4. QED
      BY <2>1, <2>4, <3>1, <3>2, <3>3
  <2>5. QED
    BY <2>3, <2>4
<1>5. CASE UNCHANGED roundsVars
  BY <1>2, <1>5 DEF roundsVars, tewg
<1>6. ASSUME NEW d \in Contexts, NEW u,
             CreateOrderedATS(d, u) \/ CountOfPrunedLink(d, u) \/ ReorderPaths(d)
               \/ FinalizeServiceTopology(d)
      PROVE  free'[c][l] = free[c][l]
  <2>1. free' = free
    BY <1>6, Zenon DEF CreateOrderedATS, CountOfPrunedLink, ReorderPaths, FinalizeServiceTopology, tewg
  <2>2. QED
    BY <2>1
<1>7. QED
  BY <1>3, <1>4, <1>5, <1>6, Zenon DEF RoundsNext

\* A schedule computation that holds nothing leaves every link that it does not prune with
\* the bandwidth it had: what a time point takes is given back (compute_actions.cc:1324).
THEOREM TimePointsAreTried == RoundsSpec => GivesBack
<1>1. SchedulesInv /\ [RoundsNext]_roundsVars =>
        [\A c \in Contexts, l \in Links :
           (/\ todo[c] # <<>> /\ todo'[c] = Tail(todo[c])
            /\ Head(todo[c]).action \in {"round1", "round2"}
            /\ committed' = committed /\ l \in left'[c])
               => free'[c][l] = free[c][l]]_roundsVars
  BY GivesBackStep
<1>2. QED
  BY <1>1, SchedulesKeepTypes, PTL DEF RoundsSpec, GivesBack

-----------------------------------------------------------------------------
(* What a series says of a time: the deltas of an ordered one lie apart.   *)
Proper == {x \in Held : x.s < x.e}
Covers(x, t) == x.s <= t /\ t < x.e
Apart(x, y) == x.e <= y.s \/ y.e <= x.s
Ordered(q) == \A i, j \in DOMAIN q : i < j => q[i].e <= q[j].s
LoadOf(S, t, b) == \/ \E x \in S : Covers(x, t) /\ b = x.bw
                   \/ b = 0 /\ \A x \in S : ~ Covers(x, t)
Also(d, t) == IF Covers(d, t) THEN d.bw ELSE 0

LEMMA ProperFields ==
  ASSUME NEW x \in Proper
  PROVE  x.s \in Int /\ x.e \in Int /\ x.bw \in Nat /\ x.s < x.e /\ x \in Held
BY DEF Proper, Held

LEMMA OrderedApart ==
  ASSUME NEW q \in Seq(Proper), Ordered(q), NEW x \in ToSet(q), NEW y \in ToSet(q)
  PROVE  /\ x \in Proper /\ y \in Proper
         /\ x = y \/ Apart(x, y)
<1>1. PICK i \in 1 .. Len(q), j \in 1 .. Len(q) : x = q[i] /\ y = q[j]
  BY DEF ToSet
<1>2. DOMAIN q = 1 .. Len(q) /\ i \in Int /\ j \in Int
  OBVIOUS
<1>3. i < j => x.e <= y.s
  BY <1>1, <1>2 DEF Ordered
<1>4. j < i => y.e <= x.s
  BY <1>1, <1>2 DEF Ordered
<1>5. i = j \/ i < j \/ j < i
  BY <1>2
<1>6. x \in Proper /\ y \in Proper
  BY <1>1
<1>7. QED
  BY <1>1, <1>3, <1>4, <1>5, <1>6 DEF Apart

\* Elements are put between those that end before them and those that begin after.
LEMMA InsertOrdered ==
  ASSUME NEW q \in Seq(Proper), Ordered(q), NEW d \in Proper,
         \A x \in ToSet(q) : Apart(x, d)
  PROVE  /\ Insert(q, d) \in Seq(Proper) /\ Ordered(Insert(q, d))
         /\ ToSet(Insert(q, d)) = ToSet(q) \cup {d}
<1> DEFINE later == {i \in DOMAIN q : q[i].s >= d.e}
           n == Len(q)
           s == Insert(q, d)
<1>1. /\ n \in Nat /\ DOMAIN q = 1 .. n
      /\ \A i \in 1 .. n : /\ q[i] \in Proper /\ q[i].s \in Int /\ q[i].e \in Int /\ q[i].s < q[i].e
                           /\ Apart(q[i], d)
      /\ d.s \in Int /\ d.e \in Int /\ d.s < d.e
  <2>1. n \in Nat /\ DOMAIN q = 1 .. n /\ \A i \in 1 .. n : q[i] \in Proper /\ q[i] \in ToSet(q)
    BY DEF ToSet
  <2>2. QED
    BY <2>1, ProperFields
<1>2. \A i, j \in 1 .. n : i < j => q[i].e <= q[j].s
  BY <1>1 DEF Ordered
<1>3. PICK k \in 1 .. n + 1 :
        /\ \A i \in 1 .. n : i < k => q[i].e <= d.s
        /\ \A i \in 1 .. n : i >= k => d.e <= q[i].s
        /\ s \in Seq(Proper) /\ Len(s) = n + 1
        /\ \A i \in 1 .. n + 1 : s[i] = IF i < k THEN q[i] ELSE IF i = k THEN d ELSE q[i - 1]
  <2>1. CASE later = {}
    <3>1. s = Append(q, d)
      BY <2>1 DEF Insert
    <3>2. /\ s \in Seq(Proper) /\ Len(s) = n + 1 /\ s[n + 1] = d
          /\ \A i \in 1 .. n : s[i] = q[i]
      BY <3>1, AppendProperties
    <3>3. \A i \in 1 .. n : q[i].e <= d.s
      <4> TAKE i \in 1 .. n
      <4>1. ~ (q[i].s >= d.e)
        BY <1>1, <2>1
      <4>2. QED
        BY <1>1, <4>1 DEF Apart
    <3> HIDE DEF s, n
    <3>4. \A i \in 1 .. n + 1 : (i < n + 1 => i \in 1 .. n) /\ (~ (i < n + 1) => i = n + 1)
      BY <1>1
    <3>5. n + 1 \in 1 .. n + 1 /\ \A i \in 1 .. n : ~ (i >= n + 1)
      BY <1>1
    <3>6. \A i \in 1 .. n + 1 : s[i] = IF i < n + 1 THEN q[i] ELSE IF i = n + 1 THEN d ELSE q[i - 1]
      BY <3>2, <3>4
    <3>7. QED
      BY <3>2, <3>3, <3>5, <3>6
  <2>2. CASE later # {}
    <3> DEFINE k == Min(later)
    <3>1. later \in SUBSET Nat /\ \A i \in later : i \in 1 .. n /\ q[i].s >= d.e
      BY <1>1
    <3>2. k \in later /\ \A i \in later : k <= i
      BY <2>2, <3>1, LeastPlace
    <3>3. s = InsertAt(q, k, d)
      BY <2>2 DEF Insert
    <3>4. \A i \in 1 .. n : i \notin later => ~ (q[i].s >= d.e)
      BY <1>1
    <3> HIDE DEF later, k
    <3>5. k \in 1 .. n /\ k \in 1 .. n + 1 /\ q[k].s >= d.e
      BY <1>1, <3>1, <3>2
    <3>6. \A i \in 1 .. n : i < k => q[i].e <= d.s
      <4> TAKE i \in 1 .. n
      <4> HAVE i < k
      <4>1. i \notin later
        BY <3>2, <3>5
      <4>2. ~ (q[i].s >= d.e)
        BY <3>4, <4>1
      <4>3. QED
        BY <1>1, <4>2 DEF Apart
    <3>7. \A i \in 1 .. n : i >= k => d.e <= q[i].s
      <4> TAKE i \in 1 .. n
      <4> HAVE i >= k
      <4>1. CASE i = k
        BY <1>1, <3>5, <4>1
      <4>2. CASE i # k
        <5>1. k < i
          BY <3>5, <4>2
        <5>2. q[k].e <= q[i].s
          BY <1>2, <3>5, <5>1
        <5>3. QED
          BY <1>1, <3>5, <5>2
      <4>3. QED
        BY <4>1, <4>2
    <3>8. /\ s \in Seq(Proper) /\ Len(s) = n + 1
          /\ \A i \in 1 .. n + 1 : s[i] = IF i < k THEN q[i] ELSE IF i = k THEN d ELSE q[i - 1]
      <4>1. k \in 1 .. Len(q) + 1
        BY <3>5
      <4>2. /\ InsertAt(q, k, d) \in Seq(Proper) /\ Len(InsertAt(q, k, d)) = Len(q) + 1
            /\ \A i \in 1 .. Len(q) + 1 :
                  InsertAt(q, k, d)[i] = IF i < k THEN q[i] ELSE IF i = k THEN d ELSE q[i - 1]
        BY <4>1, InsertAtElements
      <4> HIDE DEF s
      <4>3. QED
        BY <3>3, <4>2
    <3>9. QED
      BY <3>5, <3>6, <3>7, <3>8
  <2>3. QED
    BY <2>1, <2>2
<1> HIDE DEF s, n
<1>4. DOMAIN s = 1 .. n + 1
  BY <1>1, <1>3
<1>5. \A i \in 1 .. n + 1 : \/ i < k /\ i \in 1 .. n /\ s[i] = q[i]
                            \/ i = k /\ s[i] = d
                            \/ i > k /\ i - 1 \in 1 .. n /\ i - 1 >= k /\ s[i] = q[i - 1]
  <2> TAKE i \in 1 .. n + 1
  <2>1. CASE i < k
    BY <1>1, <1>3, <2>1
  <2>2. CASE i = k
    BY <1>3, <2>2
  <2>3. CASE i > k
    <3>1. i - 1 \in 1 .. n /\ i - 1 >= k /\ ~ (i < k) /\ i # k
      BY <1>1, <2>3
    <3>2. QED
      BY <1>3, <2>3, <3>1
  <2>4. QED
    BY <1>1, <2>1, <2>2, <2>3
<1>6. Ordered(s)
  <2> SUFFICES ASSUME NEW i \in 1 .. n + 1, NEW j \in 1 .. n + 1, i < j
               PROVE  s[i].e <= s[j].s
    BY <1>4 DEF Ordered
  <2>1. CASE i < k /\ j < k
    <3>1. s[i] = q[i] /\ s[j] = q[j] /\ i \in 1 .. n /\ j \in 1 .. n
      BY <1>3, <1>5, <2>1
    <3>2. QED
      BY <1>2, <3>1
  <2>2. CASE i < k /\ j = k
    <3>1. s[i] = q[i] /\ s[j] = d /\ i \in 1 .. n
      BY <1>3, <1>5, <2>2
    <3>2. QED
      BY <1>3, <2>2, <3>1
  <2>3. CASE i < k /\ j > k
    <3>1. s[i] = q[i] /\ s[j] = q[j - 1] /\ i \in 1 .. n /\ j - 1 \in 1 .. n /\ i < j - 1
      BY <1>3, <1>5, <2>3
    <3>2. QED
      BY <1>2, <3>1
  <2>4. CASE i = k /\ j > k
    <3>1. s[i] = d /\ s[j] = q[j - 1] /\ j - 1 \in 1 .. n /\ j - 1 >= k
      BY <1>3, <1>5, <2>4
    <3>2. QED
      BY <1>3, <3>1
  <2>5. CASE i > k /\ j > k
    <3>1. s[i] = q[i - 1] /\ s[j] = q[j - 1] /\ i - 1 \in 1 .. n /\ j - 1 \in 1 .. n /\ i - 1 < j - 1
      BY <1>3, <1>5, <2>5
    <3>2. QED
      BY <1>2, <3>1
  <2>6. QED
    BY <1>3, <2>1, <2>2, <2>3, <2>4, <2>5
<1>7. ToSet(s) = ToSet(q) \cup {d}
  <2>1. \A y \in ToSet(s) : y \in ToSet(q) \cup {d}
    <3> SUFFICES ASSUME NEW i \in 1 .. n + 1
                 PROVE  s[i] \in ToSet(q) \cup {d}
      BY <1>4 DEF ToSet
    <3>1. \A j \in 1 .. n : q[j] \in ToSet(q)
      BY <1>1 DEF ToSet
    <3>2. QED
      BY <1>5, <3>1
  <2>2. d \in ToSet(s)
    <3>1. s[k] = d
      BY <1>3
    <3>2. QED
      BY <1>3, <1>4, <3>1 DEF ToSet
  <2>3. \A y \in ToSet(q) : y \in ToSet(s)
    <3> SUFFICES ASSUME NEW i \in 1 .. n
                 PROVE  q[i] \in ToSet(s)
      BY <1>1 DEF ToSet
    <3>1. CASE i < k
      <4>1. i \in 1 .. n + 1 /\ s[i] = q[i]
        BY <1>1, <1>3, <3>1
      <4>2. QED
        BY <1>4, <4>1 DEF ToSet
    <3>2. CASE ~ (i < k)
      <4>1. i + 1 \in 1 .. n + 1 /\ ~ (i + 1 < k) /\ i + 1 # k /\ (i + 1) - 1 = i
        BY <1>1, <1>3, <3>2
      <4>2. s[i + 1] = q[i]
        BY <1>3, <4>1
      <4>3. QED
        BY <1>4, <4>1, <4>2 DEF ToSet
    <3>3. QED
      BY <3>1, <3>2
  <2>4. QED
    BY <2>1, <2>2, <2>3
<1>8. QED
  BY <1>3, <1>6, <1>7 DEF s

\* A delta that takes the place of one may be shorter.
LEMMA ReplacedOrdered ==
  ASSUME NEW q \in Seq(Proper), Ordered(q), NEW a \in ToSet(q), NEW b \in Proper,
         a.s <= b.s, b.e <= a.e
  PROVE  /\ Replaced(q, a, b) \in Seq(Proper) /\ Ordered(Replaced(q, a, b))
         /\ ToSet(Replaced(q, a, b)) = (ToSet(q) \ {a}) \cup {b}
<1> DEFINE n == Len(q)
           s == Replaced(q, a, b)
<1>1. n \in Nat /\ DOMAIN q = 1 .. n /\ \A i \in 1 .. n : q[i] \in Proper
  OBVIOUS
<1>2. DOMAIN s = 1 .. n /\ \A i \in 1 .. n : s[i] = IF q[i] = a THEN b ELSE q[i]
  BY <1>1 DEF Replaced
<1>3. s = [i \in 1 .. n |-> IF q[i] = a THEN b ELSE q[i]]
  BY <1>1 DEF Replaced
<1> HIDE DEF s, n
<1>4. s \in Seq(Proper)
  <2>1. s \in [1 .. n -> Proper]
    BY <1>1, <1>3
  <2>2. QED
    BY <1>1, <2>1, SeqDef
<1>5. Ordered(s)
  <2> SUFFICES ASSUME NEW i \in 1 .. n, NEW j \in 1 .. n, i < j
               PROVE  s[i].e <= s[j].s
    BY <1>2 DEF Ordered
  <2>1. q[i].e <= q[j].s
    BY <1>1 DEF Ordered
  <2>2. /\ q[i].e \in Int /\ q[j].s \in Int /\ b.s \in Int /\ b.e \in Int
        /\ s[i].e \in Int /\ s[j].s \in Int
    BY <1>1, <1>4, <1>2, ProperFields
  <2>3. s[i].e <= q[i].e
    BY <1>2, <2>2
  <2>4. q[j].s <= s[j].s
    BY <1>2, <2>2
  <2>5. QED
    BY <2>1, <2>2, <2>3, <2>4
<1>6. ToSet(s) = (ToSet(q) \ {a}) \cup {b}
  <2>1. PICK k \in 1 .. n : q[k] = a
    BY <1>1 DEF ToSet
  <2>2. s[k] = b
    BY <1>2, <2>1
  <2>3. b \in ToSet(s)
    BY <1>2, <2>2 DEF ToSet
  <2>4. \A y \in ToSet(q) : y # a => y \in ToSet(s)
    BY <1>1, <1>2 DEF ToSet
  <2>5. \A y \in ToSet(s) : y = b \/ (y \in ToSet(q) /\ y # a)
    BY <1>1, <1>2 DEF ToSet
  <2>6. QED
    BY <2>3, <2>4, <2>5
<1>7. QED
  BY <1>4, <1>5, <1>6 DEF s

\* What is kept of an ordered series is ordered.
LEMMA KeepOrdered ==
  ASSUME NEW q \in Seq(Proper), Ordered(q), NEW I
  PROVE  Ordered(Keep(q, I))
<1> DEFINE n == Len(q)
           s == Kept(q, I)
           P(k) == /\ s[k] \in Seq(Proper) /\ Ordered(s[k])
                   /\ \A i \in DOMAIN s[k] : \E j \in 1 .. k : s[k][i] = q[j]
           G == {k \in 0 .. n : P(k)}
<1>1. n \in Nat /\ DOMAIN q = 1 .. n /\ \A i \in 1 .. n : q[i] \in Proper
  OBVIOUS
<1>2. KeepsOn(s, q, I)
  BY KeptSteps
<1> HIDE DEF s
<1>3. \A k \in 0 .. n : s[k] = IF k = 0 THEN <<>>
                              ELSE IF k \in I THEN Append(s[k - 1], q[k]) ELSE s[k - 1]
  BY <1>2, Zenon DEF KeepsOn
<1>4. P(0)
  <2>1. s[0] = <<>>
    BY <1>1, <1>3
  <2>2. QED
    BY <2>1 DEF Ordered
<1>5. ASSUME NEW k \in 1 .. n, P(k - 1)
      PROVE  P(k)
  <2>1. k \in 0 .. n /\ k # 0 /\ \A j \in 1 .. k - 1 : j \in 1 .. k /\ j \in 1 .. n /\ j < k
    BY <1>1
  <2> DEFINE o == s[k - 1]
             m == Len(o)
  <2>2. /\ o \in Seq(Proper) /\ Ordered(o) /\ m \in Nat /\ DOMAIN o = 1 .. m
        /\ \A i \in 1 .. m : \E j \in 1 .. k - 1 : o[i] = q[j]
    BY <1>5
  <2> HIDE DEF o, m
  <2>3. CASE k \notin I
    <3>1. s[k] = o
      BY <1>3, <2>1, <2>3 DEF o
    <3>2. QED
      BY <2>1, <2>2, <3>1
  <2>4. CASE k \in I
    <3>1. s[k] = Append(o, q[k])
      BY <1>3, <2>1, <2>4 DEF o
    <3> DEFINE z == s[k]
    <3>2. /\ z \in Seq(Proper) /\ DOMAIN z = 1 .. m + 1
          /\ z[m + 1] = q[k] /\ \A i \in 1 .. m : z[i] = o[i]
      BY <1>1, <2>2, <3>1, AppendProperties, LenProperties DEF m
    <3> HIDE DEF z
    <3>3. Ordered(z)
      <4> SUFFICES ASSUME NEW i \in 1 .. m + 1, NEW j \in 1 .. m + 1, i < j
                   PROVE  z[i].e <= z[j].s
        BY <3>2 DEF Ordered
      <4>1. i \in 1 .. m /\ z[i] = o[i]
        BY <2>2, <3>2
      <4>2. CASE j \in 1 .. m
        BY <2>2, <3>2, <4>1, <4>2 DEF Ordered
      <4>3. CASE j = m + 1
        <5>1. PICK x \in 1 .. k - 1 : o[i] = q[x]
          BY <2>2, <4>1
        <5>2. q[x].e <= q[k].s
          BY <1>1, <2>1, <5>1 DEF Ordered
        <5>3. QED
          BY <3>2, <4>1, <4>3, <5>1, <5>2
      <4>4. QED
        BY <2>2, <4>2, <4>3
    <3>4. \A i \in 1 .. m + 1 : \E j \in 1 .. k : z[i] = q[j]
      <4> TAKE i \in 1 .. m + 1
      <4>1. CASE i \in 1 .. m
        BY <2>1, <2>2, <3>2, <4>1
      <4>2. CASE i = m + 1
        <5>1. k \in 1 .. k
          BY <1>1
        <5>2. QED
          BY <3>2, <4>2, <5>1
      <4>3. QED
        BY <2>2, <4>1, <4>2
    <3>5. QED
      BY <3>2, <3>3, <3>4 DEF z
  <2>5. QED
    BY <2>3, <2>4
<1> HIDE DEF P
<1>6. 0 \in G /\ \A k \in 1 .. n : k - 1 \in G => k \in G
  BY <1>1, <1>4, <1>5
<1> HIDE DEF G
<1>7. \A k \in 0 .. n : k \in G
  BY <1>1, <1>6, Climb
<1>8. P(n)
  BY <1>1, <1>7 DEF G
<1>9. QED
  BY <1>8 DEF P, Keep, s

\* A delta meets one of the series: the series is ordered still, and holds the delta, too,
\* up to where the one it meets ends.
LEMMA MeetAdds ==
  ASSUME NEW q \in Seq(Proper), Ordered(q), NEW a \in ToSet(q), NEW d \in Proper, ~ Apart(a, d),
         \A x \in ToSet(q) : x = a \/ Apart(x, d) \/ a.e <= x.s
  PROVE  /\ Meet(q, d, a, FALSE).ads \in Seq(Proper) /\ Ordered(Meet(q, d, a, FALSE).ads)
         /\ Meet(q, d, a, FALSE).left = IF a.e > d.e THEN NoDelta ELSE [d EXCEPT !.s = a.e]
         /\ \A x \in ToSet(q) : x # a => x \in ToSet(Meet(q, d, a, FALSE).ads)
         /\ \A x \in ToSet(Meet(q, d, a, FALSE).ads) : (x \in ToSet(q) /\ x # a) \/ x.e <= a.e
         /\ \A t \in Int, b \in Nat : LoadOf(ToSet(q), t, b) =>
               LoadOf(ToSet(Meet(q, d, a, FALSE).ads), t,
                      b + IF Covers(d, t) /\ t < a.e THEN d.bw ELSE 0)
<1> DEFINE own == IF a.s < d.s THEN [a EXCEPT !.s = d.s] ELSE a
           rest == IF a.s > d.s THEN [d EXCEPT !.s = a.s] ELSE d
           tail == own.e > rest.e
           base == IF tail THEN [own EXCEPT !.e = rest.e] ELSE own
           met == Merge(base, rest, FALSE)
           cut == [a EXCEPT !.e = d.s]
           front == [d EXCEPT !.e = a.s]
           split == CASE a.s < d.s -> Insert(Replaced(q, a, cut), own)
                      [] a.s > d.s -> Insert(q, front)
                      [] OTHER -> q
           merged == Replaced(split, own, met)
           after == [own EXCEPT !.s = rest.e]
           goesOn == [rest EXCEPT !.s = own.e]
           R == ToSet(q) \ {a}
           S == ToSet(q)
<1>1. Meet(q, d, a, FALSE) = IF tail THEN [ads |-> Insert(merged, after), left |-> NoDelta]
                             ELSE [ads |-> merged, left |-> goesOn]
  BY DEF Meet
<1>2. /\ a.s \in Int /\ a.e \in Int /\ a.bw \in Nat /\ a.s < a.e /\ a \in Held
      /\ d.s \in Int /\ d.e \in Int /\ d.bw \in Nat /\ d.s < d.e /\ d \in Held
      /\ a.s < d.e /\ d.s < a.e
  <2>1. a \in Proper
    BY OrderedApart
  <2>2. /\ a.s \in Int /\ a.e \in Int /\ a.bw \in Nat /\ a.s < a.e /\ a \in Held
        /\ d.s \in Int /\ d.e \in Int /\ d.bw \in Nat /\ d.s < d.e /\ d \in Held
    BY <2>1, ProperFields
  <2>3. QED
    BY <2>2 DEF Apart
<1>3. /\ own \in Held /\ own.e = a.e /\ own.bw = a.bw
      /\ own.s = IF a.s < d.s THEN d.s ELSE a.s
  BY <1>2 DEF Held
<1>4. /\ rest \in Held /\ rest.e = d.e /\ rest.bw = d.bw
      /\ rest.s = IF a.s > d.s THEN a.s ELSE d.s
  BY <1>2 DEF Held
<1>5. cut \in Held /\ cut.s = a.s /\ cut.e = d.s /\ cut.bw = a.bw
  BY <1>2 DEF Held
<1>6. front \in Held /\ front.s = d.s /\ front.e = a.s /\ front.bw = d.bw
  BY <1>2 DEF Held
<1>7. goesOn = [d EXCEPT !.s = a.e]
  <2>1. CASE a.s > d.s
    <3>1. rest = [d EXCEPT !.s = a.s]
      BY <2>1
    <3>2. [[d EXCEPT !.s = a.s] EXCEPT !.s = a.e] = [d EXCEPT !.s = a.e]
      BY <1>2 DEF Held
    <3> HIDE DEF own, rest
    <3>3. QED
      BY <1>3, <3>1, <3>2
  <2>2. CASE ~ (a.s > d.s)
    <3>1. rest = d
      BY <2>2
    <3> HIDE DEF own, rest
    <3>2. QED
      BY <1>3, <3>1
  <2>3. QED
    BY <2>1, <2>2
<1>8. a.s < d.s \/ own = a
  OBVIOUS
<1> HIDE DEF own, rest, cut, front
<1>9. after \in Held /\ after.s = d.e /\ after.e = a.e /\ after.bw = a.bw
  BY <1>3, <1>4 DEF Held
<1>10. /\ base \in Held /\ base.s = own.s /\ base.bw = a.bw
       /\ base.e = IF a.e > d.e THEN d.e ELSE a.e
  BY <1>2, <1>3, <1>4 DEF Held
<1>11. tail <=> a.e > d.e
  BY <1>3, <1>4
<1> HIDE DEF base, tail, after, goesOn
<1>12. met \in Held /\ met.s = own.s /\ met.e = base.e /\ met.bw = a.bw + d.bw
  <2>1. met = [base EXCEPT !.bw = @ + rest.bw]
    BY DEF Merge, Combine
  <2>2. base.bw + rest.bw = a.bw + d.bw /\ a.bw + d.bw \in Nat
    BY <1>2, <1>4, <1>10
  <2> HIDE DEF met
  <2>3. QED
    BY <1>10, <2>1, <2>2 DEF Held
<1> HIDE DEF met
<1>13. own \in Proper /\ met \in Proper
  BY <1>2, <1>3, <1>10, <1>12 DEF Proper
<1>14. /\ a.s < d.s => cut \in Proper
       /\ a.s > d.s => front \in Proper
       /\ tail => after \in Proper
  BY <1>2, <1>5, <1>6, <1>9, <1>11 DEF Proper
<1>15. \A x \in R : /\ x \in Proper /\ x.s \in Int /\ x.e \in Int /\ x.s < x.e
                    /\ x.e <= a.s \/ a.e <= x.s
                    /\ x.e <= d.s \/ d.e <= x.s \/ a.e <= x.s
  <2> TAKE x \in R
  <2>1. x \in ToSet(q) /\ x # a
    OBVIOUS
  <2>2. x \in Proper /\ Apart(x, a)
    BY <2>1, OrderedApart
  <2>3. Apart(x, d) \/ a.e <= x.s
    BY <2>1
  <2>4. x.s \in Int /\ x.e \in Int /\ x.s < x.e
    BY <2>2, ProperFields
  <2>5. QED
    BY <2>2, <2>3, <2>4 DEF Apart
<1>16. S = R \cup {a} /\ a \notin R
  OBVIOUS
<1> DEFINE Before0 == IF a.s < d.s THEN {cut} ELSE IF a.s > d.s THEN {front} ELSE {}
<1>17. /\ merged \in Seq(Proper) /\ Ordered(merged)
       /\ ToSet(merged) = R \cup Before0 \cup {met}
  <2> HIDE DEF R
  <2>1. own.s <= met.s /\ met.e <= own.e
    BY <1>2, <1>3, <1>10, <1>12
  <2>2. CASE a.s < d.s
    <3> DEFINE one == Replaced(q, a, cut)
    <3>1. one \in Seq(Proper) /\ Ordered(one) /\ ToSet(one) = R \cup {cut}
      <4>1. a.s <= cut.s /\ cut.e <= a.e /\ cut \in Proper
        BY <1>2, <1>5, <1>14, <2>2
      <4>2. QED
        BY <4>1, ReplacedOrdered DEF R
    <3>2. split = Insert(one, own)
      BY <1>2, <2>2
    <3> HIDE DEF one
    <3>3. \A x \in ToSet(one) : Apart(x, own)
      BY <1>2, <1>3, <1>5, <1>15, <2>2, <3>1 DEF Apart
    <3>4. split \in Seq(Proper) /\ Ordered(split) /\ ToSet(split) = R \cup {cut} \cup {own}
      BY <1>13, <3>1, <3>2, <3>3, InsertOrdered
    <3>5. own \notin R /\ own # cut
      BY <1>2, <1>3, <1>5, <1>15, <2>2
    <3> HIDE DEF split
    <3>6. /\ merged \in Seq(Proper) /\ Ordered(merged)
          /\ ToSet(merged) = (ToSet(split) \ {own}) \cup {met}
      BY <1>13, <2>1, <3>4, ReplacedOrdered
    <3> HIDE DEF merged
    <3>7. ToSet(merged) = R \cup {cut} \cup {met}
      BY <3>4, <3>5, <3>6
    <3>8. QED
      BY <2>2, <3>6, <3>7
  <2>3. CASE a.s > d.s
    <3>1. split = Insert(q, front)
      BY <1>2, <2>3
    <3>2. \A x \in ToSet(q) : Apart(x, front)
      BY <1>2, <1>6, <1>15, <1>16, <2>3 DEF Apart
    <3>3. split \in Seq(Proper) /\ Ordered(split) /\ ToSet(split) = ToSet(q) \cup {front}
      BY <1>14, <2>3, <3>1, <3>2, InsertOrdered
    <3>4. own = a /\ front # a
      BY <1>2, <1>6, <1>8, <2>3
    <3> HIDE DEF split
    <3>5. own \in ToSet(split)
      BY <3>3, <3>4
    <3>6. /\ merged \in Seq(Proper) /\ Ordered(merged)
          /\ ToSet(merged) = (ToSet(split) \ {own}) \cup {met}
      BY <1>13, <2>1, <3>3, <3>5, ReplacedOrdered
    <3> HIDE DEF merged
    <3>7. ToSet(merged) = R \cup {front} \cup {met}
      BY <1>16, <3>3, <3>4, <3>6
    <3>8. ~ (a.s < d.s)
      BY <1>2, <2>3
    <3>9. QED
      BY <2>3, <3>6, <3>7, <3>8
  <2>4. CASE a.s = d.s
    <3>1. split = q /\ own = a
      BY <1>2, <1>8, <2>4
    <3> HIDE DEF split
    <3>2. /\ merged \in Seq(Proper) /\ Ordered(merged)
          /\ ToSet(merged) = (ToSet(q) \ {a}) \cup {met}
      BY <1>13, <2>1, <3>1, ReplacedOrdered
    <3> HIDE DEF merged
    <3>3. QED
      BY <1>2, <1>16, <2>4, <3>2
  <2>5. QED
    BY <1>2, <2>2, <2>3, <2>4
<1> HIDE DEF merged
<1> DEFINE M == Meet(q, d, a, FALSE)
           After0 == IF a.e > d.e THEN {after} ELSE {}
<1>18. /\ M.ads \in Seq(Proper) /\ Ordered(M.ads)
       /\ M.left = IF a.e > d.e THEN NoDelta ELSE [d EXCEPT !.s = a.e]
       /\ ToSet(M.ads) = R \cup Before0 \cup {met} \cup After0
  <2>1. CASE tail
    <3>1. M.ads = Insert(merged, after) /\ M.left = NoDelta /\ a.e > d.e
      <4>1. M = [ads |-> Insert(merged, after), left |-> NoDelta]
        BY <1>1, <2>1
      <4> HIDE DEF M
      <4>2. QED
        BY <1>11, <2>1, <4>1
    <3> DEFINE Q == Before0 \cup {met}
    <3>2. \A x \in Q : x.e <= d.e /\ x.e \in Int
      <4>1. \A x \in Before0 : x.e <= d.e /\ x.e \in Int
        BY <1>2, <1>5, <1>6
      <4>2. met.e <= d.e /\ met.e \in Int
        BY <1>2, <1>10, <1>12
      <4>3. QED
        BY <4>1, <4>2
    <3>3. ToSet(merged) = R \cup Q
      BY <1>17
    <3> HIDE DEF Q, R
    <3>4. \A x \in ToSet(merged) : Apart(x, after)
      <4>1. \A x \in R : Apart(x, after)
        BY <1>2, <1>9, <1>15, <3>1 DEF Apart
      <4>2. \A x \in Q : Apart(x, after)
        BY <1>2, <1>9, <3>2 DEF Apart
      <4>3. QED
        BY <3>3, <4>1, <4>2
    <3>5. /\ Insert(merged, after) \in Seq(Proper) /\ Ordered(Insert(merged, after))
          /\ ToSet(Insert(merged, after)) = ToSet(merged) \cup {after}
      BY <1>14, <1>17, <2>1, <3>4, InsertOrdered
    <3> HIDE DEF M
    <3>6. QED
      BY <3>1, <3>3, <3>5 DEF Q
  <2>2. CASE ~ tail
    <3>1. M.ads = merged /\ M.left = [d EXCEPT !.s = a.e] /\ ~ (a.e > d.e)
      <4>1. M = [ads |-> merged, left |-> goesOn]
        BY <1>1, <2>2
      <4> HIDE DEF M
      <4>2. QED
        BY <1>7, <1>11, <2>2, <4>1
    <3> HIDE DEF M, R
    <3>2. QED
      BY <1>17, <3>1
  <2>3. QED
    BY <2>1, <2>2
<1> HIDE DEF M
<1> DEFINE P == Before0 \cup {met} \cup After0
           T == ToSet(M.ads)
<1>19. \A x \in P : x.e <= a.e
  <2>1. \A x \in Before0 : x.e <= a.e
    BY <1>2, <1>5, <1>6
  <2>2. met.e <= a.e
    BY <1>2, <1>10, <1>12
  <2>3. \A x \in After0 : x.e <= a.e
    BY <1>2, <1>9
  <2>4. QED
    BY <2>1, <2>2, <2>3
<1>20. T = R \cup P
  BY <1>18
<1>21. ASSUME NEW t \in Int, NEW b \in Nat, LoadOf(S, t, b)
       PROVE  LoadOf(T, t, b + IF Covers(d, t) /\ t < a.e THEN d.bw ELSE 0)
  <2> HIDE DEF R, S, T
  <2>1. CASE \E x \in R : Covers(x, t) /\ b = x.bw
    <3>1. PICK x \in R : Covers(x, t) /\ b = x.bw
      BY <2>1
    <3>2. ~ (Covers(d, t) /\ t < a.e)
      BY <1>2, <1>15, <3>1, SMTT(30) DEF Covers
    <3>3. x \in T /\ b + 0 = b
      BY <1>20, <3>1
    <3>4. QED
      BY <3>1, <3>2, <3>3 DEF LoadOf
  <2>2. CASE Covers(a, t) /\ b = a.bw
    <3>1. CASE Covers(d, t)
      <4>1. Covers(met, t) /\ met.bw = b + d.bw /\ t < a.e
        BY <1>2, <1>3, <1>10, <1>12, <2>2, <3>1 DEF Covers
      <4>2. met \in T
        BY <1>20
      <4>3. QED
        BY <3>1, <4>1, <4>2 DEF LoadOf
    <3>2. CASE t < d.s
      <4>1. a.s < d.s /\ Covers(cut, t) /\ cut.bw = b /\ ~ Covers(d, t) /\ b + 0 = b
        BY <1>2, <1>5, <2>2, <3>2 DEF Covers
      <4>2. cut \in T
        BY <1>20, <4>1
      <4>3. QED
        BY <4>1, <4>2 DEF LoadOf
    <3>3. CASE d.e <= t
      <4>1. a.e > d.e /\ Covers(after, t) /\ after.bw = b /\ ~ Covers(d, t) /\ b + 0 = b
        BY <1>2, <1>9, <2>2, <3>3 DEF Covers
      <4>2. after \in T
        BY <1>20, <4>1
      <4>3. QED
        BY <4>1, <4>2 DEF LoadOf
    <3>4. QED
      BY <1>2, <3>1, <3>2, <3>3 DEF Covers
  <2>3. CASE b = 0 /\ \A x \in S : ~ Covers(x, t)
    <3>1. ~ Covers(a, t) /\ \A x \in R : ~ Covers(x, t)
      BY <1>16, <2>3
    <3>2. CASE Covers(d, t) /\ t < a.e
      <4>1. a.s > d.s /\ ~ (a.s < d.s) /\ Covers(front, t) /\ front.bw = d.bw /\ b + d.bw = d.bw
        BY <1>2, <1>6, <2>3, <3>1, <3>2 DEF Covers
      <4>2. front \in T
        BY <1>20, <4>1
      <4>3. QED
        BY <3>2, <4>1, <4>2 DEF LoadOf
    <3>3. CASE ~ (Covers(d, t) /\ t < a.e)
      <4>1. \A x \in Before0 : ~ Covers(x, t)
        <5>1. CASE a.s < d.s
          BY <1>2, <1>5, <3>1, <3>3, <5>1 DEF Covers
        <5>2. CASE a.s > d.s
          BY <1>2, <1>6, <3>1, <3>3, <5>2 DEF Covers
        <5>3. CASE ~ (a.s < d.s) /\ ~ (a.s > d.s)
          BY <5>3
        <5>4. QED
          BY <5>1, <5>2, <5>3
      <4>2. ~ Covers(met, t)
        BY <1>2, <1>3, <1>10, <1>12, <3>1 DEF Covers
      <4>3. \A x \in After0 : ~ Covers(x, t)
        BY <1>2, <1>9, <3>1 DEF Covers
      <4>4. \A x \in T : ~ Covers(x, t)
        BY <1>20, <3>1, <4>1, <4>2, <4>3
      <4>5. b + 0 = 0
        BY <2>3
      <4>6. QED
        BY <3>3, <4>4, <4>5 DEF LoadOf
    <3>4. QED
      BY <3>2, <3>3
  <2>4. QED
    BY <1>16, <1>21, <2>1, <2>2, <2>3 DEF LoadOf
<1>22. \A x \in T : (x \in S /\ x # a) \/ x.e <= a.e
  <2> HIDE DEF P, T
  <2>1. QED
    BY <1>19, <1>20
<1>23. \A x \in S : x # a => x \in T
  <2> HIDE DEF P, T
  <2>1. QED
    BY <1>20
<1> HIDE DEF P
<1>24. QED
  BY <1>18, <1>21, <1>22, <1>23 DEF M

\* A delta that lies apart from the rest adds what it holds.
LEMMA LoadOfMore ==
  ASSUME NEW S, NEW d \in Proper, \A x \in S : x \in Proper /\ Apart(x, d),
         NEW t \in Int, NEW b \in Nat, LoadOf(S, t, b)
  PROVE  LoadOf(S \cup {d}, t, b + Also(d, t))
<1>1. d.s \in Int /\ d.e \in Int /\ d.bw \in Nat
  BY ProperFields
<1>2. \A x \in S : x.s \in Int /\ x.e \in Int /\ x.bw \in Nat
  BY ProperFields
<1>3. CASE Covers(d, t)
  <2>1. \A x \in S : ~ Covers(x, t)
    BY <1>1, <1>2, <1>3 DEF Covers, Apart
  <2>2. b = 0
    BY <2>1 DEF LoadOf
  <2>3. b + Also(d, t) = d.bw
    BY <1>1, <1>3, <2>2 DEF Also
  <2>4. QED
    BY <1>3, <2>3 DEF LoadOf
<1>4. CASE ~ Covers(d, t)
  <2>1. b + Also(d, t) = b
    BY <1>4 DEF Also
  <2>2. LoadOf(S \cup {d}, t, b)
    BY <1>4 DEF LoadOf
  <2>3. QED
    BY <2>1, <2>2
<1>5. QED
  BY <1>3, <1>4

\* The deltas of a series that one meets.
AreContacts(q, w, d) ==
  /\ w \in Seq(Proper) /\ Ordered(w)
  /\ \A x \in ToSet(w) : x \in ToSet(q) /\ ~ Apart(x, d)
  /\ \A x \in ToSet(q) : x \in ToSet(w) \/ Apart(x, d)

LEMMA WindowMeets ==
  ASSUME NEW q \in Seq(Proper), Ordered(q), NEW d \in Proper
  PROVE  AreContacts(q, GetADSInWindow(q, d.s, d.e), d)
<1> DEFINE I == {i \in DOMAIN q : InWindow(q[i], d.s, d.e)}
           w == Keep(q, I)
<1>1. w = GetADSInWindow(q, d.s, d.e)
  BY DEF GetADSInWindow
<1>2. \A x \in ToSet(q) : x \in Proper
  BY OrderedApart
<1>3. \A x \in ToSet(q) : InWindow(x, d.s, d.e) <=> ~ Apart(x, d)
  <2> TAKE x \in ToSet(q)
  <2>1. x.s \in Int /\ x.e \in Int /\ x.s < x.e /\ d.s \in Int /\ d.e \in Int /\ d.s < d.e
    BY <1>2, ProperFields
  <2>2. QED
    BY <2>1 DEF InWindow, Apart
<1>4. \A x : x \in ToSet(w) <=> x \in ToSet(q) /\ InWindow(x, d.s, d.e)
  <2>1. ToSet(w) = {q[i] : i \in DOMAIN q \cap I}
    BY KeepElements
  <2>2. ToSet(q) = {q[i] : i \in DOMAIN q}
    BY DEF ToSet
  <2> HIDE DEF w
  <2>3. QED
    BY <2>1, <2>2
<1>5. w \in Seq(Proper)
  BY KeepElements
<1>6. Ordered(w)
  BY KeepOrdered
<1> HIDE DEF w
<1>7. QED
  BY <1>1, <1>3, <1>4, <1>5, <1>6 DEF AreContacts

\* What there is when a delta d has met the first n of its contacts w in a series q: what
\* is left of d, what still lies ahead, and what is held.
LeftOf(d, w, n) ==
  IF n = 0 THEN d ELSE IF w[n].e > d.e THEN NoDelta ELSE [d EXCEPT !.s = w[n].e]
Taken(d, w, n, t) == IF n > 0 /\ Covers(d, t) /\ t < w[n].e THEN d.bw ELSE 0
AfterContacts(q, w, d, n, b) ==
  /\ b.ads \in Seq(Proper) /\ Ordered(b.ads) /\ b.left = LeftOf(d, w, n)
  /\ \A j \in n + 1 .. Len(w) : w[j] \in ToSet(b.ads)
  /\ \A x \in ToSet(b.ads) : \/ \E j \in n + 1 .. Len(w) : x = w[j]
                             \/ Apart(x, d)
                             \/ n > 0 /\ x.e <= w[n].e
  /\ \A t \in Int, k \in Nat : LoadOf(ToSet(q), t, k) =>
        LoadOf(ToSet(b.ads), t, k + Taken(d, w, n, t))

LEMMA NextContact ==
  ASSUME NEW q \in Seq(Proper), NEW d \in Proper, NEW w, AreContacts(q, w, d),
         NEW n \in 1 .. Len(w), NEW b, AfterContacts(q, w, d, n - 1, b)
  PROVE  AfterContacts(q, w, d, n, Meet(b.ads, b.left, w[n], FALSE))
<1> DEFINE m == Len(w)
           a == w[n]
           p == w[n - 1]
           f == b.left
           o == b.ads
           M == Meet(o, f, a, FALSE)
<1>1. /\ m \in Nat /\ DOMAIN w = 1 .. m /\ n \in 1 .. m /\ n \in Int
      /\ \A j \in 1 .. m : w[j] \in ToSet(w) /\ w[j] \in Proper /\ ~ Apart(w[j], d)
  BY DEF AreContacts, ToSet
<1>2. \A j \in 1 .. m : w[j].s \in Int /\ w[j].e \in Int /\ w[j].s < w[j].e
  BY <1>1, ProperFields
<1>3. \A i, j \in 1 .. m : i < j => w[i].e <= w[j].s
  BY <1>1 DEF AreContacts, Ordered
<1>4. d.s \in Int /\ d.e \in Int /\ d.bw \in Nat /\ d.s < d.e /\ d \in Held
  BY ProperFields
<1> HIDE DEF m
<1>5. /\ a \in Proper /\ a.s \in Int /\ a.e \in Int /\ a.s < a.e
      /\ a.s < d.e /\ d.s < a.e
  BY <1>1, <1>2, <1>4 DEF Apart
<1>6. n # 1 => /\ n - 1 \in 1 .. m /\ p.s \in Int /\ p.e \in Int /\ p.s < p.e
               /\ d.s < p.e /\ p.e <= a.s
  <2> SUFFICES ASSUME n # 1
               PROVE  /\ n - 1 \in 1 .. m /\ p.s \in Int /\ p.e \in Int /\ p.s < p.e
                      /\ d.s < p.e /\ p.e <= a.s
    OBVIOUS
  <2>1. n - 1 \in 1 .. m /\ n - 1 < n
    BY <1>1
  <2>2. p.e <= a.s /\ p.s \in Int /\ p.e \in Int /\ p.s < p.e /\ ~ Apart(p, d)
    BY <1>1, <1>2, <1>3, <2>1
  <2>3. QED
    BY <1>4, <1>5, <2>1, <2>2 DEF Apart
<1>7. f = IF n = 1 THEN d ELSE [d EXCEPT !.s = p.e]
  <2>1. f = LeftOf(d, w, n - 1)
    BY DEF AfterContacts
  <2>2. n - 1 = 0 <=> n = 1
    BY <1>1
  <2>3. n # 1 => ~ (p.e > d.e)
    BY <1>4, <1>5, <1>6
  <2>4. QED
    BY <2>1, <2>2, <2>3 DEF LeftOf
<1> HIDE DEF p, f, o, a
<1>8. /\ f \in Held /\ f.e = d.e /\ f.bw = d.bw /\ f.s = IF n = 1 THEN d.s ELSE p.e
  BY <1>4, <1>6, <1>7 DEF Held
<1>9. f \in Proper /\ ~ Apart(a, f) /\ d.s <= f.s /\ f.s \in Int
  BY <1>4, <1>5, <1>6, <1>8 DEF Proper, Apart
<1>10. o \in Seq(Proper) /\ Ordered(o) /\ a \in ToSet(o)
  <2>1. n \in (n - 1) + 1 .. Len(w)
    BY <1>1 DEF m
  <2>2. QED
    BY <2>1 DEF AfterContacts, o, a
<1>11. \A x \in ToSet(o) : /\ x \in Proper /\ x.s \in Int /\ x.e \in Int /\ x.s < x.e
                           /\ \/ x = a
                              \/ \E j \in n + 1 .. m : x = w[j] /\ a.e <= x.s
                              \/ Apart(x, d)
                              \/ n # 1 /\ x.e <= p.e
  <2> TAKE x \in ToSet(o)
  <2>1. x \in Proper /\ x.s \in Int /\ x.e \in Int /\ x.s < x.e
    BY <1>10, OrderedApart, ProperFields
  <2>2. \/ \E j \in (n - 1) + 1 .. m : x = w[j]
        \/ Apart(x, d)
        \/ n - 1 > 0 /\ x.e <= p.e
    BY DEF AfterContacts, o, p, m
  <2>3. ASSUME NEW j \in (n - 1) + 1 .. m, x = w[j]
        PROVE  x = a \/ \E i \in n + 1 .. m : x = w[i] /\ a.e <= x.s
    <3>1. CASE j = n
      BY <2>3, <3>1 DEF a
    <3>2. CASE j # n
      <4>1. j \in n + 1 .. m /\ j \in 1 .. m /\ n < j
        BY <1>1, <3>2
      <4>2. a.e <= x.s
        BY <1>1, <1>3, <2>3, <4>1 DEF a
      <4>3. QED
        BY <2>3, <4>1, <4>2
    <3>3. QED
      BY <3>1, <3>2
  <2>4. n - 1 > 0 => n # 1
    BY <1>1
  <2>5. QED
    BY <2>1, <2>2, <2>3, <2>4
<1>12. \A x \in ToSet(o) : x = a \/ Apart(x, f) \/ a.e <= x.s
  <2> TAKE x \in ToSet(o)
  <2>1. x \in Proper /\ x.s \in Int /\ x.e \in Int
    BY <1>11
  <2>2. Apart(x, d) => Apart(x, f)
    BY <1>4, <1>8, <1>9, <2>1 DEF Apart
  <2>3. n # 1 /\ x.e <= p.e => Apart(x, f)
    BY <1>8 DEF Apart
  <2>4. QED
    BY <1>11, <2>2, <2>3
<1>13. /\ M.ads \in Seq(Proper) /\ Ordered(M.ads)
       /\ M.left = IF a.e > f.e THEN NoDelta ELSE [f EXCEPT !.s = a.e]
       /\ \A x \in ToSet(o) : x # a => x \in ToSet(M.ads)
       /\ \A x \in ToSet(M.ads) : (x \in ToSet(o) /\ x # a) \/ x.e <= a.e
       /\ \A t \in Int, k \in Nat : LoadOf(ToSet(o), t, k) =>
             LoadOf(ToSet(M.ads), t, k + IF Covers(f, t) /\ t < a.e THEN f.bw ELSE 0)
  BY <1>9, <1>10, <1>12, MeetAdds
<1> HIDE DEF M
<1>14. M.left = LeftOf(d, w, n)
  <2>1. n # 0
    BY <1>1
  <2>2. [f EXCEPT !.s = a.e] = [d EXCEPT !.s = a.e]
    <3>1. CASE n = 1
      BY <1>7, <3>1
    <3>2. CASE n # 1
      <4>1. [[d EXCEPT !.s = p.e] EXCEPT !.s = a.e] = [d EXCEPT !.s = a.e]
        BY <1>4 DEF Held
      <4>2. QED
        BY <1>7, <3>2, <4>1
    <3>3. QED
      BY <3>1, <3>2
  <2>3. M.left = IF a.e > d.e THEN NoDelta ELSE [d EXCEPT !.s = a.e]
    BY <1>8, <1>13, <2>2
  <2>4. QED
    BY <2>1, <2>3 DEF LeftOf, a
<1>15. \A j \in n + 1 .. m : w[j] \in ToSet(M.ads)
  <2> TAKE j \in n + 1 .. m
  <2>1. j \in (n - 1) + 1 .. m /\ j \in 1 .. m /\ n < j
    BY <1>1
  <2>2. w[j] \in ToSet(o)
    BY <2>1 DEF AfterContacts, o, m
  <2>3. w[j] # a
    <3>1. a.e <= w[j].s /\ w[j].s < w[j].e /\ w[j].s \in Int /\ w[j].e \in Int
      BY <1>1, <1>2, <1>3, <2>1 DEF a
    <3>2. QED
      BY <1>5, <3>1
  <2>4. QED
    BY <1>13, <2>2, <2>3
<1>16. \A x \in ToSet(M.ads) : \/ \E j \in n + 1 .. m : x = w[j]
                               \/ Apart(x, d)
                               \/ n > 0 /\ x.e <= a.e
  <2> TAKE x \in ToSet(M.ads)
  <2>0. n > 0
    BY <1>1
  <2>1. CASE x.e <= a.e
    BY <2>0, <2>1
  <2>2. CASE x \in ToSet(o) /\ x # a
    <3>1. n # 1 /\ x.e <= p.e => x.e <= a.e
      BY <1>5, <1>6, <1>11, <2>2
    <3>2. QED
      BY <1>11, <2>0, <2>2, <3>1
  <2>3. QED
    BY <1>13, <2>1, <2>2
<1>17. ASSUME NEW t \in Int, NEW k \in Nat, LoadOf(ToSet(q), t, k)
       PROVE  LoadOf(ToSet(M.ads), t, k + Taken(d, w, n, t))
  <2> DEFINE c == Taken(d, w, n - 1, t)
             e == IF Covers(f, t) /\ t < a.e THEN f.bw ELSE 0
  <2>1. c \in Nat /\ e \in Nat
    BY <1>4, <1>8 DEF Taken
  <2>2. LoadOf(ToSet(o), t, k + c)
    BY <1>17 DEF AfterContacts, o
  <2>3. LoadOf(ToSet(M.ads), t, (k + c) + e)
    <3>1. k + c \in Nat
      BY <2>1
    <3> HIDE DEF c
    <3>2. QED
      BY <1>13, <2>2, <3>1
  <2>4. Taken(d, w, n, t) = IF Covers(d, t) /\ t < a.e THEN d.bw ELSE 0
    <3>1. n > 0
      BY <1>1
    <3>2. QED
      BY <3>1 DEF Taken, a
  <2>5. c = IF n # 1 /\ Covers(d, t) /\ t < p.e THEN d.bw ELSE 0
    <3>1. n - 1 > 0 <=> n # 1
      BY <1>1
    <3>2. QED
      BY <3>1 DEF Taken, p
  <2>6. c + e = Taken(d, w, n, t)
    <3> HIDE DEF c
    <3>1. CASE n = 1
      <4>1. f = d /\ c = 0
        BY <1>7, <2>5, <3>1
      <4>2. QED
        BY <2>1, <2>4, <4>1
    <3>2. CASE n # 1
      <4>1. f.s = p.e /\ p.e <= a.s /\ d.s < p.e /\ p.e \in Int
        BY <1>6, <1>8, <3>2
      <4>2. CASE t < p.e
        <5>1. e = 0 /\ t < a.e
          BY <1>5, <4>1, <4>2 DEF Covers
        <5>2. c = IF Covers(d, t) THEN d.bw ELSE 0
          BY <2>5, <3>2, <4>2
        <5> HIDE DEF e
        <5>3. QED
          BY <2>1, <2>4, <5>1, <5>2
      <4>3. CASE ~ (t < p.e)
        <5>1. c = 0
          BY <2>5, <4>3
        <5>2. Covers(f, t) <=> Covers(d, t)
          BY <1>4, <1>8, <4>1, <4>3 DEF Covers
        <5>3. e = IF Covers(d, t) /\ t < a.e THEN d.bw ELSE 0
          BY <1>8, <5>2
        <5> HIDE DEF e
        <5>4. QED
          BY <2>1, <2>4, <5>1, <5>3
      <4>4. QED
        BY <4>2, <4>3
    <3>3. QED
      BY <3>1, <3>2
  <2> HIDE DEF c, e
  <2>7. (k + c) + e = k + Taken(d, w, n, t)
    BY <2>1, <2>6
  <2>8. QED
    BY <2>3, <2>7
<1>18. QED
  BY <1>13, <1>14, <1>15, <1>16, <1>17 DEF AfterContacts, M, m, o, f, a

\* A delta is added to a series: it is ordered still, and holds the delta, too.
LEMMA AddDeltaAdds ==
  ASSUME NEW q \in Seq(Proper), Ordered(q), NEW d \in Proper
  PROVE  /\ AddDelta(q, d, FALSE) \in Seq(Proper) /\ Ordered(AddDelta(q, d, FALSE))
         /\ \A t \in Int, k \in Nat : LoadOf(ToSet(q), t, k) =>
               LoadOf(ToSet(AddDelta(q, d, FALSE)), t, k + Also(d, t))
<1> DEFINE w == GetADSInWindow(q, d.s, d.e)
           m == Len(w)
           r == AddDelta(q, d, FALSE)
<1>1. AreContacts(q, w, d)
  BY WindowMeets
<1>2. q \in Seq(Held) /\ d \in Held
  BY DEF Proper
<1> HIDE DEF w
<1>3. /\ m \in Nat /\ DOMAIN w = 1 .. m
      /\ \A j \in 1 .. m : w[j] \in ToSet(w) /\ w[j] \in Proper /\ ~ Apart(w[j], d)
  BY <1>1 DEF AreContacts, ToSet
<1>4. \E s : GoesThrough(s, q, d, w, FALSE)
  <2>1. w = GetADSInWindow(q, d.s, d.e)
    BY DEF w
  <2>2. QED
    BY <1>2, <2>1, AddDeltaSteps
<1>5. PICK s : /\ s[0] = [ads |-> q, left |-> d]
               /\ \A n \in 1 .. m : s[n] = Meet(s[n - 1].ads, s[n - 1].left, w[n], FALSE)
               /\ r = IF s[m].left.s = s[m].left.e THEN s[m].ads ELSE Insert(s[m].ads, s[m].left)
  BY <1>4, Zenon DEF GoesThrough
<1>6. AfterContacts(q, w, d, 0, s[0])
  <2>1. s[0].ads = q /\ s[0].left = d
    BY <1>5
  <2>2. \A x \in ToSet(q) : (\E j \in 1 .. m : x = w[j]) \/ Apart(x, d)
    <3> TAKE x \in ToSet(q)
    <3>1. x \in ToSet(w) \/ Apart(x, d)
      BY <1>1 DEF AreContacts
    <3>2. QED
      BY <1>3, <3>1 DEF ToSet
  <2>3. \A j \in 1 .. m : w[j] \in ToSet(q)
    BY <1>1, <1>3 DEF AreContacts
  <2>4. \A t \in Int : Taken(d, w, 0, t) = 0
    BY DEF Taken
  <2>5. \A k \in Nat : k + 0 = k
    OBVIOUS
  <2>6. \A j : j \in 0 + 1 .. m <=> j \in 1 .. m
    OBVIOUS
  <2> HIDE DEF m
  <2>7. QED
    BY <2>1, <2>2, <2>3, <2>4, <2>5, <2>6 DEF AfterContacts, LeftOf, m
<1>7. \A n \in 1 .. m : AfterContacts(q, w, d, n - 1, s[n - 1]) => AfterContacts(q, w, d, n, s[n])
  <2> TAKE n \in 1 .. m
  <2> HAVE AfterContacts(q, w, d, n - 1, s[n - 1])
  <2> DEFINE b == s[n - 1]
  <2>1. s[n] = Meet(b.ads, b.left, w[n], FALSE) /\ AfterContacts(q, w, d, n - 1, b)
    BY <1>5
  <2> HIDE DEF b
  <2>2. QED
    BY <1>1, <2>1, NextContact
<1> DEFINE G == {n \in 0 .. m : AfterContacts(q, w, d, n, s[n])}
<1>8. 0 \in G /\ \A n \in 1 .. m : n - 1 \in G => n \in G
  <2>1. 0 \in 0 .. m /\ \A n \in 1 .. m : n \in 0 .. m
    BY <1>3
  <2>2. QED
    BY <1>6, <1>7, <2>1
<1> HIDE DEF G
<1>9. \A n \in 0 .. m : n \in G
  BY <1>3, <1>8, Climb
<1> DEFINE o == s[m].ads
           f == s[m].left
<1>10. AfterContacts(q, w, d, m, s[m])
  <2>1. m \in 0 .. m
    BY <1>3
  <2>2. QED
    BY <1>9, <2>1 DEF G
<1>11. /\ o \in Seq(Proper) /\ Ordered(o) /\ f = LeftOf(d, w, m)
       /\ \A x \in ToSet(o) : Apart(x, d) \/ (m > 0 /\ x.e <= w[m].e)
       /\ \A t \in Int, k \in Nat : LoadOf(ToSet(q), t, k) =>
             LoadOf(ToSet(o), t, k + Taken(d, w, m, t))
  <2>1. \A j \in m + 1 .. m : FALSE
    BY <1>3
  <2>2. QED
    BY <1>10, <2>1 DEF AfterContacts
<1>12. r = IF f.s = f.e THEN o ELSE Insert(o, f)
  BY <1>5
<1>13. d.s \in Int /\ d.e \in Int /\ d.bw \in Nat /\ d.s < d.e
  BY ProperFields
<1> HIDE DEF o, f, r
<1>14. m > 0 => /\ w[m].s \in Int /\ w[m].e \in Int /\ w[m].s < w[m].e /\ d.s < w[m].e
  <2> SUFFICES ASSUME m > 0
               PROVE  /\ w[m].s \in Int /\ w[m].e \in Int /\ w[m].s < w[m].e /\ d.s < w[m].e
    OBVIOUS
  <2>1. m \in 1 .. m
    BY <1>3
  <2>2. w[m] \in Proper /\ ~ Apart(w[m], d)
    BY <1>3, <2>1
  <2>3. QED
    BY <1>13, <2>2, ProperFields DEF Apart
<1>15. CASE m > 0 /\ w[m].e >= d.e
  <2>1. f.s = f.e
    <3>1. CASE w[m].e > d.e
      <4>1. f = NoDelta
        BY <1>3, <1>11, <1>15, <3>1 DEF LeftOf
      <4>2. QED
        BY <4>1 DEF NoDelta, Delta
    <3>2. CASE ~ (w[m].e > d.e)
      <4>1. f = [d EXCEPT !.s = w[m].e] /\ w[m].e = d.e
        BY <1>3, <1>11, <1>13, <1>14, <1>15, <3>2 DEF LeftOf
      <4>2. QED
        BY <1>2, <4>1 DEF Held
    <3>3. QED
      BY <3>1, <3>2
  <2>2. r = o
    BY <1>12, <2>1
  <2>3. \A t \in Int : Taken(d, w, m, t) = Also(d, t)
    <3> TAKE t \in Int
    <3>1. Covers(d, t) => t < w[m].e
      BY <1>13, <1>14, <1>15 DEF Covers
    <3>2. QED
      BY <1>15, <3>1 DEF Taken, Also
  <2>4. QED
    BY <1>11, <2>2, <2>3 DEF r
<1>16. CASE ~ (m > 0 /\ w[m].e >= d.e)
  <2>1. /\ f \in Held /\ f.e = d.e /\ f.bw = d.bw
        /\ f.s = IF m = 0 THEN d.s ELSE w[m].e
    <3>1. CASE m = 0
      BY <1>2, <1>11, <3>1 DEF LeftOf
    <3>2. CASE m # 0
      <4>1. f = [d EXCEPT !.s = w[m].e]
        BY <1>3, <1>11, <1>13, <1>14, <1>16, <3>2 DEF LeftOf
      <4>2. w[m].e \in Int
        BY <1>3, <1>14, <3>2
      <4>3. QED
        BY <1>2, <3>2, <4>1, <4>2 DEF Held
    <3>3. QED
      BY <3>1, <3>2
  <2>2. f \in Proper /\ f.s < f.e /\ f.s \in Int /\ d.s <= f.s
    BY <1>3, <1>13, <1>14, <1>16, <2>1 DEF Proper
  <2>3. \A x \in ToSet(o) : x \in Proper /\ Apart(x, f)
    <3> TAKE x \in ToSet(o)
    <3>1. x \in Proper /\ x.s \in Int /\ x.e \in Int
      BY <1>11, OrderedApart, ProperFields
    <3>2. Apart(x, d) => Apart(x, f)
      BY <1>13, <2>1, <2>2, <3>1 DEF Apart
    <3>3. m > 0 /\ x.e <= w[m].e => Apart(x, f)
      BY <1>3, <2>1 DEF Apart
    <3>4. QED
      BY <1>11, <3>1, <3>2, <3>3
  <2>4. r = Insert(o, f)
    BY <1>12, <2>2
  <2>5. /\ r \in Seq(Proper) /\ Ordered(r) /\ ToSet(r) = ToSet(o) \cup {f}
    BY <1>11, <2>2, <2>3, <2>4, InsertOrdered
  <2>6. ASSUME NEW t \in Int, NEW k \in Nat, LoadOf(ToSet(q), t, k)
        PROVE  LoadOf(ToSet(r), t, k + Also(d, t))
    <3> DEFINE c == Taken(d, w, m, t)
               e == Also(f, t)
    <3>1. c \in Nat /\ e \in Nat
      BY <1>13, <2>1 DEF Taken, Also
    <3>2. LoadOf(ToSet(o), t, k + c) /\ k + c \in Nat
      BY <1>11, <2>6, <3>1
    <3>3. LoadOf(ToSet(r), t, (k + c) + e)
      <4> HIDE DEF c
      <4>1. LoadOf(ToSet(o) \cup {f}, t, (k + c) + e)
        BY <2>2, <2>3, <3>2, LoadOfMore
      <4>2. QED
        BY <2>5, <4>1
    <3>4. c + e = Also(d, t)
      <4>1. CASE m = 0
        <5>1. f.s = d.s /\ c = 0
          BY <2>1, <4>1 DEF Taken
        <5>2. e = Also(d, t)
          BY <2>1, <5>1 DEF Also, Covers
        <5> HIDE DEF c, e
        <5>3. QED
          BY <3>1, <5>1, <5>2
      <4>2. CASE m # 0
        <5>1. f.s = w[m].e /\ m > 0
          BY <1>3, <2>1, <4>2
        <5>2. c = IF Covers(d, t) /\ t < f.s THEN d.bw ELSE 0
          BY <5>1 DEF Taken
        <5>3. CASE t < f.s
          <6>1. e = 0
            BY <2>2, <5>3 DEF Also, Covers
          <6>2. c = Also(d, t)
            BY <5>2, <5>3 DEF Also
          <6> HIDE DEF c, e
          <6>3. QED
            BY <3>1, <6>1, <6>2
        <5>4. CASE ~ (t < f.s)
          <6>1. c = 0
            BY <5>2, <5>4
          <6>2. Covers(f, t) <=> Covers(d, t)
            BY <1>13, <2>1, <2>2, <5>4 DEF Covers
          <6>3. e = Also(d, t)
            BY <2>1, <6>2 DEF Also
          <6> HIDE DEF c, e
          <6>4. QED
            BY <3>1, <6>1, <6>3
        <5>5. QED
          BY <5>3, <5>4
      <4>3. QED
        BY <4>1, <4>2
    <3> HIDE DEF c, e
    <3>5. (k + c) + e = k + Also(d, t)
      BY <3>1, <3>4
    <3>6. QED
      BY <3>3, <3>5
  <2>7. QED
    BY <2>5, <2>6 DEF r
<1>17. QED
  BY <1>15, <1>16

\* What a list of deltas holds at a time, delta by delta.
Adds(h, ds, t) ==
  /\ h \in [0 .. Len(ds) -> Nat] /\ h[0] = 0
  /\ \A n \in 1 .. Len(ds) : h[n] = h[n - 1] + Also(ds[n], t)
  /\ HeldAt(ds, t) = h[Len(ds)]

LEMMA HeldSteps ==
  ASSUME NEW ds, Len(ds) \in Nat, \A i \in 1 .. Len(ds) : ds[i].bw \in Nat, NEW t
  PROVE  \E h : Adds(h, ds, t)
<1> DEFINE m == Len(ds)
           D == Nat
           E(b, n) == b + IF ds[n].s <= t /\ t < ds[n].e THEN ds[n].bw ELSE 0
           step == [n \in 1 .. m |-> [b \in D |-> E(b, n)]]
           Body(f) == [n \in 0 .. m |-> IF n = 0 THEN 0 ELSE E(f[n - 1], n)]
           s == CHOOSE f : f = Body(f)
<1>1. m \in Nat
  OBVIOUS
<1>2. 0 \in D
  OBVIOUS
<1>3. ASSUME NEW b \in D, NEW n \in 1 .. m
      PROVE  E(b, n) \in D
  OBVIOUS
<1>4. HeldAt(ds, t) = s[m]
  BY DEF HeldAt
<1> HIDE DEF m, D, E
<1>5. step \in [1 .. m -> [D -> D]]
  BY <1>3
<1>6. \A n \in 1 .. m, b \in D : step[n][b] = E(b, n)
  OBVIOUS
<1> HIDE DEF step
<1>7. PICK f \in [0 .. m -> D] : Recurs(f, 0, step, m)
  BY <1>1, <1>2, <1>5, Recursion
<1>8. f = Body(f)
  <2>1. \A n \in 0 .. m : n # 0 => n \in 1 .. m /\ n - 1 \in 0 .. m
    BY <1>1
  <2>2. \A n \in 0 .. m : f[n] = IF n = 0 THEN 0 ELSE step[n][f[n - 1]]
    BY <1>7, Zenon DEF Recurs
  <2>3. \A n \in 0 .. m : n # 0 => step[n][f[n - 1]] = E(f[n - 1], n)
    BY <1>6, <1>7, <2>1
  <2>4. \A n \in 0 .. m : f[n] = Body(f)[n]
    BY <2>2, <2>3
  <2>5. QED
    BY <1>7, <2>4
<1> HIDE DEF Body
<1>9. s = Body(s)
  BY <1>8
<1> HIDE DEF s
<1>10. \A n \in 0 .. m : s[n] = IF n = 0 THEN 0 ELSE E(s[n - 1], n)
  BY <1>9, Zenon DEF Body
<1> DEFINE G == {n \in 0 .. m : s[n] \in D}
<1>11. 0 \in G /\ \A n \in 1 .. m : n - 1 \in G => n \in G
  <2>1. 0 \in 0 .. m /\ \A n \in 1 .. m : n \in 0 .. m /\ n # 0
    BY <1>1
  <2>2. QED
    BY <1>2, <1>3, <1>10, <2>1
<1> HIDE DEF G
<1>12. \A n \in 0 .. m : s[n] \in D
  <2>1. \A n \in 0 .. m : n \in G
    BY <1>1, <1>11, Climb
  <2>2. QED
    BY <2>1 DEF G
<1>13. 0 \in 0 .. m /\ \A n \in 1 .. m : n \in 0 .. m /\ n # 0
  BY <1>1
<1>14. s[0] = 0
  BY <1>10, <1>13
<1>15. \A n \in 1 .. m : s[n] = s[n - 1] + Also(ds[n], t)
  BY <1>10, <1>13 DEF E, Also, Covers
<1>16. s \in [0 .. m -> Nat]
  <2>1. s = [n \in 0 .. m |-> s[n]]
    BY <1>9 DEF Body
  <2>2. QED
    BY <1>12, <2>1 DEF D
<1>17. QED
  BY <1>4, <1>14, <1>15, <1>16 DEF Adds, m

\* The series of some deltas holds at every time what they hold together; bs says them again.
LEMMA SeriesHolds ==
  ASSUME NEW ds, NEW bs, NEW k \in Nat, Len(ds) = k, Len(bs) = k,
         \A i \in 1 .. k : /\ Delta(ds[i].s, ds[i].e, ds[i].bw) \in Proper
                           /\ ds[i].s = bs[i].s /\ ds[i].e = bs[i].e /\ ds[i].bw = bs[i].bw,
         NEW t \in Int
  PROVE  /\ SeriesOf(ds) \in Seq(Proper) /\ Ordered(SeriesOf(ds))
         /\ HeldAt(bs, t) \in Nat /\ LoadOf(ToSet(SeriesOf(ds)), t, HeldAt(bs, t))
<1> DEFINE d(n) == Delta(ds[n].s, ds[n].e, ds[n].bw)
<1>1. \A n \in 1 .. k : /\ d(n) \in Proper /\ d(n) \in Held /\ bs[n].bw \in Nat
                        /\ Also(d(n), t) = Also(bs[n], t)
  <2> TAKE n \in 1 .. k
  <2>1. d(n) \in Proper
    OBVIOUS
  <2>2. d(n).s = bs[n].s /\ d(n).e = bs[n].e /\ d(n).bw = bs[n].bw
    BY DEF Delta
  <2> HIDE DEF d
  <2>3. d(n) \in Held /\ d(n).bw \in Nat
    BY <2>1, ProperFields
  <2>4. QED
    BY <2>1, <2>2, <2>3 DEF Also, Covers
<1>2. \A i \in 1 .. k : Delta(ds[i].s, ds[i].e, ds[i].bw) \in Held
  BY <1>1
<1> HIDE DEF d
<1>3. PICK s : Sums(s, ds)
  BY <1>2, SeriesSteps DEF AreHeld
<1>4. /\ s[0] = <<>> /\ SeriesOf(ds) = s[k]
       /\ \A n \in 1 .. k : s[n] = AddDelta(s[n - 1], d(n), FALSE)
  BY <1>3 DEF Sums, d
<1>5. PICK h : Adds(h, bs, t)
  BY <1>1, HeldSteps
<1>6. /\ h \in [0 .. k -> Nat] /\ h[0] = 0 /\ HeldAt(bs, t) = h[k]
      /\ \A n \in 1 .. k : h[n] = h[n - 1] + Also(bs[n], t)
  BY <1>5 DEF Adds
<1> DEFINE P(n) == s[n] \in Seq(Proper) /\ Ordered(s[n]) /\ LoadOf(ToSet(s[n]), t, h[n])
           G == {n \in 0 .. k : P(n)}
<1>7. P(0)
  <2>1. s[0] = <<>> /\ ToSet(<<>>) = {}
    BY <1>4 DEF ToSet
  <2>2. Ordered(<<>>)
    BY DEF Ordered
  <2>3. LoadOf({}, t, 0)
    BY DEF LoadOf
  <2>4. s[0] \in Seq(Proper) /\ Ordered(s[0]) /\ ToSet(s[0]) = {}
    BY <2>1, <2>2
  <2>5. LoadOf(ToSet(s[0]), t, h[0])
    BY <1>6, <2>3, <2>4, Zenon
  <2>6. QED
    BY <2>4, <2>5
<1>8. ASSUME NEW n \in 1 .. k, P(n - 1)
      PROVE  P(n)
  <2> DEFINE q == s[n - 1]
             b == h[n - 1]
  <2>1. q \in Seq(Proper) /\ Ordered(q) /\ LoadOf(ToSet(q), t, b)
    BY <1>8
  <2>2. b \in Nat /\ s[n] = AddDelta(q, d(n), FALSE) /\ h[n] = b + Also(d(n), t)
    <3>1. n - 1 \in 0 .. k
      OBVIOUS
    <3>2. QED
      BY <1>1, <1>6, <1>4, <3>1
  <2> HIDE DEF q, b
  <2>3. QED
    BY <1>1, <2>1, <2>2, AddDeltaAdds
<1> HIDE DEF P
<1>9. 0 \in G /\ \A n \in 1 .. k : n - 1 \in G => n \in G
  <2>1. 0 \in 0 .. k /\ \A n \in 1 .. k : n \in 0 .. k
    OBVIOUS
  <2>2. QED
    BY <1>7, <1>8, <2>1
<1> HIDE DEF G
<1>10. \A n \in 0 .. k : n \in G
  BY <1>9, Climb
<1>11. k \in 0 .. k
  OBVIOUS
<1>12. P(k)
  BY <1>10, <1>11 DEF G
<1>13. QED
  BY <1>6, <1>11, <1>12, <1>4 DEF P

\* An ordered series holds at a time what its delta of that time does, and nothing else.
LEMMA OrderedHolds ==
  ASSUME NEW q \in Seq(Proper), Ordered(q), NEW t \in Int
  PROVE  HeldAt(q, t) \in Nat /\ LoadOf(ToSet(q), t, HeldAt(q, t))
<1> DEFINE k == Len(q)
           S(n) == {q[i] : i \in 1 .. n}
<1>1. k \in Nat /\ DOMAIN q = 1 .. k /\ \A i \in 1 .. k : q[i] \in Proper /\ q[i].bw \in Nat
  <2>1. k \in Nat /\ DOMAIN q = 1 .. k /\ \A i \in 1 .. k : q[i] \in Proper
    OBVIOUS
  <2>2. QED
    BY <2>1, ProperFields
<1>2. PICK h : Adds(h, q, t)
  BY <1>1, HeldSteps
<1>3. /\ h \in [0 .. k -> Nat] /\ h[0] = 0 /\ HeldAt(q, t) = h[k]
      /\ \A n \in 1 .. k : h[n] = h[n - 1] + Also(q[n], t)
  BY <1>2 DEF Adds
<1> HIDE DEF k
<1> DEFINE G == {n \in 0 .. k : LoadOf(S(n), t, h[n])}
<1>4. LoadOf(S(0), t, h[0])
  <2>1. S(0) = {}
    OBVIOUS
  <2> HIDE DEF S
  <2>2. QED
    BY <1>3, <2>1 DEF LoadOf
<1>5. ASSUME NEW n \in 1 .. k, LoadOf(S(n - 1), t, h[n - 1])
      PROVE  LoadOf(S(n), t, h[n])
  <2>1. S(n) = S(n - 1) \cup {q[n]}
    <3>1. \A i : i \in 1 .. n <=> i \in 1 .. (n - 1) \/ i = n
      BY <1>1
    <3>2. QED
      BY <3>1
  <2>2. \A x \in S(n - 1) : x \in Proper /\ Apart(x, q[n])
    <3> SUFFICES ASSUME NEW i \in 1 .. (n - 1)
                 PROVE  q[i] \in Proper /\ Apart(q[i], q[n])
      OBVIOUS
    <3>1. i \in 1 .. k /\ i < n
      BY <1>1
    <3>2. q[i].e <= q[n].s
      BY <1>1, <3>1 DEF Ordered
    <3>3. QED
      BY <1>1, <3>1, <3>2 DEF Apart
  <2>3. h[n - 1] \in Nat /\ q[n] \in Proper
    <3>1. n - 1 \in 0 .. k
      BY <1>1
    <3>2. QED
      BY <1>1, <1>3, <3>1
  <2> DEFINE T == S(n - 1)
             b == h[n - 1]
             x == q[n]
  <2>4. /\ \A y \in T : y \in Proper /\ Apart(y, x)
        /\ b \in Nat /\ x \in Proper /\ LoadOf(T, t, b)
    BY <1>5, <2>2, <2>3
  <2> HIDE DEF T, b, x, S
  <2>5. LoadOf(T \cup {x}, t, b + Also(x, t))
    BY <2>4, LoadOfMore
  <2>6. QED
    BY <1>3, <2>1, <2>5 DEF T, b, x
<1> HIDE DEF S
<1>6. 0 \in G /\ \A n \in 1 .. k : n - 1 \in G => n \in G
  <2>1. 0 \in 0 .. k /\ \A n \in 1 .. k : n \in 0 .. k
    BY <1>1
  <2>2. QED
    BY <1>4, <1>5, <2>1
<1> HIDE DEF G
<1>7. \A n \in 0 .. k : n \in G
  BY <1>1, <1>6, Climb
<1>8. k \in 0 .. k
  BY <1>1
<1>9. S(k) = ToSet(q)
  BY <1>1 DEF S, ToSet
<1>10. QED
  BY <1>3, <1>7, <1>8, <1>9 DEF G

\* There is one such number.
LEMMA LoadUnique ==
  ASSUME NEW q \in Seq(Proper), Ordered(q), NEW t \in Int, NEW b \in Nat, NEW k \in Nat,
         LoadOf(ToSet(q), t, b), LoadOf(ToSet(q), t, k)
  PROVE  b = k
<1>1. ASSUME NEW x \in ToSet(q), NEW y \in ToSet(q), Covers(x, t), Covers(y, t)
      PROVE  x = y
  <2>1. x \in Proper /\ y \in Proper /\ (x = y \/ Apart(x, y))
    BY OrderedApart
  <2>2. x.s \in Int /\ x.e \in Int /\ y.s \in Int /\ y.e \in Int
    BY <2>1, ProperFields
  <2>3. QED
    BY <1>1, <2>1, <2>2 DEF Apart, Covers
<1>2. QED
  BY <1>1 DEF LoadOf

\* The latest of some times.
LEMMA MostBelow ==
  ASSUME NEW X \in SUBSET Int, NEW t \in Int, X # {}, \A x \in X : x <= t
  PROVE  Max(X) \in X /\ \A y \in X : y <= Max(X)
<1> DEFINE T == {n \in Nat : t - n \in X}
<1>1. T \in SUBSET Nat /\ T # {}
  <2>1. PICK x \in X : TRUE
    OBVIOUS
  <2>2. t - x \in Nat /\ t - (t - x) = x
    OBVIOUS
  <2>3. t - x \in T
    BY <2>2
  <2>4. QED
    BY <2>3
<1>2. PICK n \in T : \A y \in T : n <= y
  BY <1>1, LeastNumber
<1>3. t - n \in X /\ n \in Nat
  OBVIOUS
<1>4. \A y \in X : t - n >= y
  <2> TAKE y \in X
  <2>1. t - y \in Nat /\ t - (t - y) = y
    OBVIOUS
  <2>2. t - y \in T
    BY <2>1
  <2>3. n <= t - y
    BY <1>2, <2>2
  <2>4. QED
    BY <1>3, <2>3
<1>5. \E x \in X : \A y \in X : x >= y
  BY <1>3, <1>4
<1> DEFINE z == CHOOSE x \in X : \A y \in X : x >= y
<1>6. z \in X /\ \A y \in X : z >= y
  BY <1>5
<1>7. Max(X) = z
  BY DEF Max
<1> HIDE DEF z
<1>8. QED
  BY <1>6, <1>7

\* The graph of a series is the capacity without what the series holds, and ends.
LEMMA GraphOfSeries ==
  ASSUME NEW q \in Seq(Proper), Ordered(q), NEW start \in Int, NEW end \in Int, start < end,
         NEW capacity \in Nat
  PROVE  /\ LoadADS(q, start, end, capacity)[end] = 0
         /\ \A t \in start .. end - 1 :
              BandwidthAt(LoadADS(q, start, end, capacity), t) = Applied(capacity, HeldAt(q, t))
<1> DEFINE d == Delta(start, end, 0)
           w == GetADSInWindow(q, start, end)
           m == Len(w)
           starts == {w[i].s : i \in DOMAIN w}
           first == IF w # <<>> /\ w[1].s <= start THEN {} ELSE {start}
           times == starts \cup Gaps(w, end) \cup {end} \cup first
           place(t) == CHOOSE i \in DOMAIN w : w[i].s = t
           worth(t) == CASE t = end -> 0
                         [] t # end /\ t \in starts -> Applied(capacity, w[place(t)].bw)
                         [] OTHER -> capacity
           bag == LoadADS(q, start, end, capacity)
<1>1. bag = [t \in times |-> worth(t)]
  BY DEF LoadADS
<1>2. AreContacts(q, w, d) /\ d.s = start /\ d.e = end
  <2>1. d \in Proper /\ d.s = start /\ d.e = end
    BY DEF Delta, Proper, Held
  <2> HIDE DEF d
  <2>2. QED
    BY <2>1, WindowMeets
<1> HIDE DEF w, d
<1>3. /\ m \in Nat /\ DOMAIN w = 1 .. m
      /\ \A j \in 1 .. m : w[j] \in ToSet(w) /\ w[j] \in ToSet(q) /\ w[j] \in Proper
      /\ \A x \in ToSet(q) : Apart(x, d) \/ \E j \in 1 .. m : x = w[j]
  <2>1. /\ m \in Nat /\ DOMAIN w = 1 .. m
        /\ \A j \in 1 .. m : w[j] \in ToSet(w) /\ w[j] \in Proper
        /\ \A x \in ToSet(w) : \E j \in 1 .. m : x = w[j]
    BY <1>2 DEF AreContacts, ToSet
  <2>2. QED
    BY <1>2, <2>1 DEF AreContacts
<1>4. \A j \in 1 .. m : /\ w[j].s \in Int /\ w[j].e \in Int /\ w[j].bw \in Nat /\ w[j].s < w[j].e
  BY <1>3, ProperFields
<1>5. \A i, j \in 1 .. m : i < j => w[i].e <= w[j].s
  BY <1>2, <1>3 DEF AreContacts, Ordered
<1>6. w = <<>> <=> m = 0
  BY <1>2 DEF AreContacts
<1>7. Gaps(w, end) = {w[i].e : i \in {j \in 1 .. m : w[j].e < end /\ (j < m => w[j + 1].s > w[j].e)}}
  BY <1>3 DEF Gaps
<1>8. \A x : x \in starts <=> \E i \in 1 .. m : x = w[i].s
  BY <1>3
<1> HIDE DEF m
<1>9. \A x \in Gaps(w, end) : \E i \in 1 .. m : x = w[i].e
  BY <1>7
<1>10. \A i \in 1 .. m : w[i].e < end /\ (i < m => w[i + 1].s > w[i].e) => w[i].e \in Gaps(w, end)
  BY <1>7
<1> DEFINE gaps == Gaps(w, end)
<1> HIDE DEF gaps, starts, bag
<1>11. times \in SUBSET Int /\ end \in times
  <2>1. starts \in SUBSET Int /\ gaps \in SUBSET Int
    BY <1>4, <1>8, <1>9 DEF gaps
  <2>2. QED
    BY <2>1 DEF gaps
<1>12. bag[end] = 0
  <2>1. worth(end) = 0
    OBVIOUS
  <2> HIDE DEF worth, times
  <2>2. QED
    BY <1>1, <1>11, <2>1
<1>13. ASSUME NEW t \in start .. end - 1
       PROVE  BandwidthAt(bag, t) = Applied(capacity, HeldAt(q, t))
  <2> DEFINE X == {x \in times : x <= t}
             z == Max(X)
  <2>1. X \in SUBSET Int /\ t \in Int /\ start <= t /\ t < end
    BY <1>11
  <2>2. X # {}
    <3>1. CASE w # <<>> /\ w[1].s <= start
      <4>1. 1 \in 1 .. m
        BY <1>3, <1>6, <3>1
      <4>2. w[1].s \in starts /\ w[1].s <= t
        BY <1>4, <1>8, <2>1, <3>1, <4>1
      <4>3. w[1].s \in X
        BY <4>2
      <4>4. QED
        BY <4>3
    <3>2. CASE ~ (w # <<>> /\ w[1].s <= start)
      <4>1. start \in X
        BY <2>1, <3>2
      <4>2. QED
        BY <4>1
    <3>3. QED
      BY <3>1, <3>2
  <2>3. z \in X /\ \A y \in X : y <= z
    <3>1. \A x \in X : x <= t
      OBVIOUS
    <3> HIDE DEF X
    <3>2. QED
      BY <2>1, <2>2, <3>1, MostBelow
  <2>4. z \in times /\ z <= t /\ z \in Int /\ z # end
    BY <2>1, <2>3
  <2>5. \A y \in times : y <= t => y <= z
    BY <2>3
  <2>6. BandwidthAt(bag, t) = worth(z)
    <3>1. {x \in DOMAIN bag : x <= t} = X
      BY <1>1
    <3>2. BandwidthAt(bag, t) = bag[z]
      BY <3>1 DEF BandwidthAt
    <3> HIDE DEF X, z, times, worth
    <3>3. QED
      BY <1>1, <2>4, <3>2
  <2> HIDE DEF z, X
  <2>7. \A k \in Nat : LoadOf(ToSet(q), t, k) => HeldAt(q, t) = k
    <3>1. HeldAt(q, t) \in Nat /\ LoadOf(ToSet(q), t, HeldAt(q, t))
      BY <2>1, OrderedHolds
    <3>2. QED
      BY <2>1, <3>1, LoadUnique
  <2>8. CASE z \in starts
    <3> DEFINE i == place(z)
    <3>1. i \in 1 .. m /\ w[i].s = z
      <4>1. \E j \in DOMAIN w : w[j].s = z
        BY <1>3, <1>8, <2>8
      <4>2. i \in DOMAIN w /\ w[i].s = z
        BY <4>1
      <4> HIDE DEF i
      <4>3. QED
        BY <1>3, <4>2
    <3>2. worth(z) = Applied(capacity, w[i].bw)
      BY <2>4, <2>8
    <3> HIDE DEF i, worth
    <3>3. t < w[i].e
      <4> SUFFICES ASSUME ~ (t < w[i].e)
                   PROVE  FALSE
        OBVIOUS
      <4>1. w[i].e <= t /\ w[i].e < end /\ z < w[i].e
        BY <1>4, <2>1, <3>1
      <4>2. CASE i < m /\ ~ (w[i + 1].s > w[i].e)
        <5>1. i + 1 \in 1 .. m /\ i < i + 1
          BY <1>3, <3>1, <4>2
        <5>2. w[i + 1].s = w[i].e
          BY <1>4, <1>5, <3>1, <4>2, <5>1
        <5>3. w[i].e \in times
          BY <1>8, <5>1, <5>2
        <5>4. QED
          BY <1>4, <2>4, <2>5, <3>1, <4>1, <5>3
      <4>3. CASE i < m => w[i + 1].s > w[i].e
        <5>1. w[i].e \in times
          BY <1>10, <3>1, <4>1, <4>3
        <5>2. QED
          BY <1>4, <2>4, <2>5, <3>1, <4>1, <5>1
      <4>4. QED
        BY <4>2, <4>3
    <3>4. Covers(w[i], t) /\ w[i] \in ToSet(q) /\ w[i].bw \in Nat
      BY <1>3, <1>4, <2>4, <3>1, <3>3 DEF Covers
    <3>5. LoadOf(ToSet(q), t, w[i].bw)
      BY <3>4 DEF LoadOf
    <3>6. HeldAt(q, t) = w[i].bw
      BY <2>7, <3>4, <3>5
    <3>7. QED
      BY <2>6, <3>2, <3>6
  <2>9. CASE z \notin starts
    <3>1. worth(z) = capacity
      BY <2>4, <2>9
    <3>2. ASSUME NEW x \in ToSet(q), Covers(x, t)
          PROVE  FALSE
      <4>1. ~ Apart(x, d)
        <5>1. x \in Proper /\ x.s \in Int /\ x.e \in Int
          BY OrderedApart, ProperFields
        <5>2. QED
          BY <1>2, <2>1, <3>2, <5>1 DEF Apart, Covers
      <4>2. PICK i \in 1 .. m : x = w[i]
        BY <1>3, <4>1
      <4>3. w[i].s <= t /\ t < w[i].e /\ w[i].s \in Int /\ w[i].e \in Int
        BY <1>4, <3>2, <4>2 DEF Covers
      <4>4. w[i].s \in times /\ w[i].s # z
        BY <1>8, <2>9
      <4>5. w[i].s < z /\ z < w[i].e
        BY <2>1, <2>4, <2>5, <4>3, <4>4
      <4>6. CASE z \in gaps
        <5>1. PICK j \in 1 .. m : z = w[j].e
          BY <1>9, <4>6 DEF gaps
        <5>2. i < j => w[i].e <= w[j].s /\ w[j].s < w[j].e
          BY <1>4, <1>5, <5>1
        <5>3. j < i => w[j].e <= w[i].s
          BY <1>5, <5>1
        <5>4. i = j \/ i < j \/ j < i
          OBVIOUS
        <5>5. w[j].s \in Int
          BY <1>4
        <5>6. QED
          BY <2>4, <4>3, <4>5, <5>1, <5>2, <5>3, <5>4, <5>5
      <4>7. CASE z \in first
        <5>1. z = start /\ ~ (w # <<>> /\ w[1].s <= start)
          BY <4>7
        <5>2. 1 \in 1 .. m /\ w # <<>>
          BY <1>3, <1>6
        <5>3. w[1].s > start /\ w[1].s < w[1].e /\ w[1].s \in Int /\ w[1].e \in Int
          BY <1>4, <5>1, <5>2
        <5>4. i # 1
          BY <4>5, <5>1, <5>3
        <5>5. w[1].e <= w[i].s
          BY <1>5, <5>2, <5>4
        <5>6. QED
          BY <4>3, <4>5, <5>1, <5>3, <5>5
      <4>8. QED
        BY <2>4, <2>9, <4>6, <4>7 DEF gaps
    <3>3. LoadOf(ToSet(q), t, 0)
      BY <3>2 DEF LoadOf
    <3>4. HeldAt(q, t) = 0
      BY <2>7, <3>3
    <3>5. Applied(capacity, 0) = capacity
      BY DEF Applied
    <3> HIDE DEF worth
    <3>6. QED
      BY <2>6, <3>1, <3>4, <3>5
  <2>10. QED
    BY <2>8, <2>9
<1>14. QED
  BY <1>12, <1>13 DEF bag

-----------------------------------------------------------------------------
(* Every series is the sum of the deltas that its link had when the series *)
(* was made: deltas are only added, and what they hold stays.              *)
SumsUp(ds, c, l) ==
  /\ series[c][l] = SeriesOf(ds)
  /\ Len(booked[l]) <= Len(ds) /\ Len(ds) <= Len(deltas[c][l])
  /\ \A i \in 1 .. Len(ds) : Alike(deltas[c][l][i], ds[i])
OfDeltas(c, l) ==
  /\ Len(booked[l]) <= Len(deltas[c][l])
  /\ series[c][l] = NoSeries \/ \E ds \in Seq(LinkDelta) : SumsUp(ds, c, l)
SeriesInv == \A c \in Contexts, l \in Links : OfDeltas(c, l)

\* What a context has on its links before it holds anything.
AsBooked(l) ==
  [i \in DOMAIN booked[l] |-> [s |-> booked[l][i].s, e |-> booked[l][i].e, bw |-> booked[l][i].bw,
                               gri |-> 0, made |-> 0, applied |-> FALSE]]
SumsBooked(c) == \A l \in Links : series[c][l] \in {NoSeries, SeriesOf(AsBooked(l))}
OnlyBooked(c) == \A l \in Links : deltas[c][l] = AsBooked(l)

LEMMA BookedTyped ==
  ASSUME booked \in Bookings, NEW l \in Links
  PROVE  /\ booked[l] \in Seq(Booking) /\ AsBooked(l) \in Seq(LinkDelta)
         /\ Len(AsBooked(l)) = Len(booked[l]) /\ Len(booked[l]) \in Nat
         /\ \A i \in 1 .. Len(booked[l]) :
              /\ AsBooked(l)[i].s = booked[l][i].s /\ AsBooked(l)[i].e = booked[l][i].e
              /\ AsBooked(l)[i].bw = booked[l][i].bw /\ AsBooked(l)[i].s < AsBooked(l)[i].e
<1> DEFINE bs == booked[l]
           k == Len(bs)
           ds == AsBooked(l)
<1>1. bs \in Seq(Booking)
  BY SchedulesAssumption
<1>2. /\ k \in Nat /\ DOMAIN bs = 1 .. k
      /\ \A i \in 1 .. k : bs[i] \in Booking
  BY <1>1
<1>3. \A x \in Booking : /\ x.s \in Int /\ x.e \in Int /\ x.bw \in Nat /\ x.s < x.e
  <2>1. \A n \in Times : n \in Int
    BY SchedulesAssumption DEF Times
  <2>2. QED
    BY <2>1 DEF Booking
<1>4. ds = [i \in 1 .. k |-> [s |-> bs[i].s, e |-> bs[i].e, bw |-> bs[i].bw,
                              gri |-> 0, made |-> 0, applied |-> FALSE]]
  BY <1>2 DEF AsBooked
<1> HIDE DEF ds, bs, k
<1>5. ds \in [1 .. k -> LinkDelta]
  BY <1>2, <1>3, <1>4 DEF LinkDelta
<1>6. ds \in Seq(LinkDelta) /\ DOMAIN ds = 1 .. k
  BY <1>2, <1>5, SeqDef
<1>7. Len(ds) = k
  <2>1. Len(ds) \in Nat /\ DOMAIN ds = 1 .. Len(ds)
    BY <1>6
  <2>2. QED
    BY <1>2, <1>6, <2>1
<1>8. \A i \in 1 .. k : /\ ds[i].s = bs[i].s /\ ds[i].e = bs[i].e /\ ds[i].bw = bs[i].bw
                        /\ ds[i].s < ds[i].e
  <2> TAKE i \in 1 .. k
  <2>1. ds[i].s = bs[i].s /\ ds[i].e = bs[i].e /\ ds[i].bw = bs[i].bw
    BY <1>4
  <2>2. bs[i].s < bs[i].e
    BY <1>2, <1>3
  <2>3. QED
    BY <2>1, <2>2
<1>9. QED
  BY <1>1, <1>2, <1>6, <1>7, <1>8 DEF bs, k, ds

LEMMA SeriesInitOK ==
  ASSUME RoundsInit
  PROVE  /\ SeriesInv
         /\ \A c \in Contexts : OnlyBooked(c) /\ SumsBooked(c)
<1>1. series = [d \in Contexts |-> [l \in Links |-> NoSeries]]
  BY DEF RoundsInit
<1>2. deltas = [d \in Contexts |-> [l \in Links |-> AsBooked(l)]]
  BY DEF RoundsInit, AsBooked
<1>3. booked \in Bookings
  BY DEF RoundsInit
<1>4. ASSUME NEW c \in Contexts, NEW l \in Links
      PROVE  series[c][l] = NoSeries /\ deltas[c][l] = AsBooked(l) /\ OfDeltas(c, l)
  <2>1. series[c][l] = NoSeries /\ deltas[c][l] = AsBooked(l)
    BY <1>1, <1>2
  <2>2. Len(AsBooked(l)) = Len(booked[l]) /\ Len(booked[l]) \in Nat
    BY <1>3, BookedTyped
  <2>3. QED
    BY <2>1, <2>2 DEF OfDeltas
<1>5. QED
  BY <1>4 DEF SeriesInv, OnlyBooked, SumsBooked

\* The actions of the first round that make series.
LEMMA SearchMakes ==
  ASSUME NEW c, NEW u, ComputeKSP(c, u)
  PROVE  \E ads : /\ series' = [series EXCEPT ![c] = ads]
                  /\ \A l \in Links : ads[l] \in {series[c][l], SeriesOf(deltas[c][l])}
                  /\ booked' = booked /\ deltas' = deltas
<1> DEFINE kept == PruneByExclusionUrn(left[c], 1)
           made == request[1].window
           ads == [l \in Links |-> IF made /\ l \in kept THEN SeriesOf(deltas[c][l])
                                   ELSE series[c][l]]
<1>1. /\ series' = [series EXCEPT ![c] = ads]
      /\ UNCHANGED <<input, deltas>>
  BY Zenon DEF ComputeKSP
<1>2. \A l \in Links : ads[l] \in {series[c][l], SeriesOf(deltas[c][l])}
  OBVIOUS
<1>3. booked' = booked /\ deltas' = deltas
  BY <1>1 DEF input
<1> HIDE DEF ads
<1>4. QED
  BY <1>1, <1>2, <1>3

LEMMA TimesMake ==
  ASSUME SchedulesInv, NEW c \in Contexts, NEW u, CreateOrderedATS(c, u)
  PROVE  \E ads : /\ series' = [series EXCEPT ![c] = ads]
                  /\ \A l \in Links : ads[l] \in {series[c][l], SeriesOf(deltas[c][l])}
                  /\ booked' = booked /\ deltas' = deltas
<1> DEFINE a == Aggregated(c, u)
           ads == [l \in Links |-> IF l \in a.links THEN SeriesOf(deltas[c][l])
                                   ELSE series[c][l]]
<1>1. /\ series' = [series EXCEPT ![c] = ads]
      /\ UNCHANGED <<input, deltas>>
  <2>1. series \in [Contexts -> [Links -> Seq(Held)]]
    BY DEF SchedulesInv
  <2>2. QED
    BY <2>1 DEF CreateOrderedATS
<1>2. \A l \in Links : ads[l] \in {series[c][l], SeriesOf(deltas[c][l])}
  OBVIOUS
<1>3. booked' = booked /\ deltas' = deltas
  BY <1>1 DEF input
<1> HIDE DEF ads
<1>4. QED
  BY <1>1, <1>2, <1>3

\* A series is left alone or made from the deltas, and the deltas grow.
LEMMA SeriesFollow ==
  ASSUME SchedulesInv, SchedulesInv', SeriesInv, booked' = booked, NEW c \in Contexts,
         NEW l \in Links, series'[c][l] \in {series[c][l], SeriesOf(deltas[c][l])}, Grows(c, l)
  PROVE  OfDeltas(c, l)'
<1> DEFINE was == deltas[c][l]
           now == deltas'[c][l]
           k == Len(booked[l])
           q == series[c][l]
<1>1. was \in Seq(LinkDelta) /\ Len(was) \in Nat /\ now \in Seq(LinkDelta) /\ Len(now) \in Nat
  BY DEF SchedulesInv
<1>2. Len(was) <= Len(now) /\ \A i \in 1 .. Len(was) : Alike(now[i], was[i])
  BY DEF Grows
<1>3. /\ k <= Len(was) /\ k \in Nat
      /\ q = NoSeries \/ \E ds \in Seq(LinkDelta) : SumsUp(ds, c, l)
  BY BookedTyped DEF SeriesInv, OfDeltas, SchedulesInv
<1>4. \A ds \in Seq(LinkDelta) : SumsUp(ds, c, l) =>
        /\ q = SeriesOf(ds) /\ k <= Len(ds) /\ Len(ds) <= Len(was)
        /\ \A i \in 1 .. Len(ds) : Alike(was[i], ds[i])
  BY DEF SumsUp
<1>6. \A ds \in Seq(LinkDelta) : (/\ series'[c][l] = SeriesOf(ds) /\ k <= Len(ds) /\ Len(ds) <= Len(now)
               /\ \A i \in 1 .. Len(ds) : Alike(now[i], ds[i])) => SumsUp(ds, c, l)'
  BY DEF SumsUp
<1>7. (/\ k <= Len(now)
       /\ series'[c][l] = NoSeries \/ \E ds \in Seq(LinkDelta) : SumsUp(ds, c, l)')
         => OfDeltas(c, l)'
  BY DEF OfDeltas
<1> HIDE DEF was, now, k, q
<1>8. k <= Len(now)
  BY <1>1, <1>2, <1>3
<1>9. CASE series'[c][l] = SeriesOf(was)
  <2>1. \E ds \in Seq(LinkDelta) : SumsUp(ds, c, l)'
    BY <1>1, <1>2, <1>3, <1>6, <1>9
  <2>2. QED
    BY <1>7, <1>8, <2>1
<1>10. CASE series'[c][l] = q /\ q = NoSeries
  BY <1>7, <1>8, <1>10
<1>11. CASE series'[c][l] = q /\ q # NoSeries
  <2>1. PICK ds \in Seq(LinkDelta) : /\ q = SeriesOf(ds) /\ k <= Len(ds) /\ Len(ds) <= Len(was)
                                     /\ \A i \in 1 .. Len(ds) : Alike(was[i], ds[i])
    BY <1>3, <1>4, <1>11
  <2>2. Len(ds) \in Nat /\ Len(ds) <= Len(now)
    BY <1>1, <1>2, <2>1
  <2>3. \A i \in 1 .. Len(ds) : Alike(now[i], ds[i])
    <3> TAKE i \in 1 .. Len(ds)
    <3>1. i \in 1 .. Len(was)
      BY <1>1, <2>1, <2>2
    <3>2. Alike(now[i], was[i]) /\ Alike(was[i], ds[i])
      BY <1>2, <2>1, <3>1
    <3>3. QED
      BY <3>2 DEF Alike
  <2>4. SumsUp(ds, c, l)'
    BY <1>6, <1>11, <2>1, <2>2, <2>3
  <2>5. QED
    BY <1>7, <1>8, <2>4
<1>12. QED
  BY <1>9, <1>10, <1>11 DEF q, was

\* The other contexts are as they were, and this one has series of its deltas.
LEMMA OneContext ==
  ASSUME SchedulesInv, SchedulesInv', SeriesInv, booked' = booked, NEW c \in Contexts, NEW ads,
         series' = [series EXCEPT ![c] = ads],
         \A l \in Links : ads[l] \in {series[c][l], SeriesOf(deltas[c][l])},
         \A d \in Contexts : \A l \in Links : Grows(d, l)
  PROVE  SeriesInv'
<1>1. DOMAIN series = Contexts
  BY DEF SchedulesInv
<1>2. ASSUME NEW d \in Contexts, NEW l \in Links
      PROVE  OfDeltas(d, l)'
  <2>1. series'[d][l] \in {series[d][l], SeriesOf(deltas[d][l])}
    <3>1. CASE d = c
      BY <1>1, <3>1
    <3>2. CASE d # c
      BY <1>1, <3>2
    <3>3. QED
      BY <3>1, <3>2
  <2>2. QED
    BY <2>1, SeriesFollow
<1>3. QED
  BY <1>2 DEF SeriesInv

LEMMA SameGrow ==
  ASSUME SchedulesInv, deltas' = deltas
  PROVE  \A d \in Contexts : \A l \in Links : Grows(d, l)
<1> TAKE d \in Contexts
<1> TAKE l \in Links
<1>1. Len(deltas[d][l]) \in Nat
  <2>1. deltas[d][l] \in Seq(LinkDelta)
    BY DEF SchedulesInv
  <2>2. QED
    BY <2>1
<1>2. QED
  BY <1>1 DEF Grows, Alike

LEMMA SeriesStep ==
  ASSUME SchedulesInv, SeriesInv, [RoundsNext]_roundsVars
  PROVE  SeriesInv'
<1>1. SchedulesInv'
  BY SchedulesStep
<1>2. CASE booked' = booked /\ series' = series /\ deltas' = deltas
  <2>1. ASSUME NEW d \in Contexts, NEW l \in Links
        PROVE  OfDeltas(d, l)'
    BY <1>1, <1>2, SameGrow, SeriesFollow
  <2>2. QED
    BY <2>1 DEF SeriesInv
<1>3. CASE UNCHANGED roundsVars
  BY <1>2, <1>3 DEF roundsVars, input, tewg
<1>4. ASSUME NEW c \in Contexts, NEW u \in DOMAIN request, ComputeKSP(c, u)
      PROVE  SeriesInv'
  <2>1. PICK ads : /\ series' = [series EXCEPT ![c] = ads]
                   /\ \A l \in Links : ads[l] \in {series[c][l], SeriesOf(deltas[c][l])}
                   /\ booked' = booked /\ deltas' = deltas
    BY <1>4, SearchMakes
  <2>2. QED
    BY <1>1, <2>1, SameGrow, OneContext
<1>5. ASSUME NEW c \in Contexts, NEW u \in DOMAIN request, CreateOrderedATS(c, u)
      PROVE  SeriesInv'
  <2>1. PICK ads : /\ series' = [series EXCEPT ![c] = ads]
                   /\ \A l \in Links : ads[l] \in {series[c][l], SeriesOf(deltas[c][l])}
                   /\ booked' = booked /\ deltas' = deltas
    BY <1>5, TimesMake
  <2>2. QED
    BY <1>1, <2>1, SameGrow, OneContext
<1>6. ASSUME NEW c \in Contexts, NEW u \in DOMAIN request, NEW r \in 1..2,
             ComputeSchedulesWithKSP(c, r, u)
      PROVE  SeriesInv'
  <2> DEFINE a == IF r = 1 THEN "round1" ELSE "round2"
             end == AfterAll(c, r, u)
  <2>1. /\ Running(c, a, u)
        /\ series' = [series EXCEPT ![c] = end.series]
        /\ UNCHANGED <<input, ats>>
        /\ GivesUp(c, r, u) \/ FindsOnly(c, r, u) \/ FindsAndHolds(c, r, u)
    BY <1>6, ScheduleOutcomes
  <2>2. a \in Searching
    BY DEF Searching
  <2> HIDE DEF a
  <2>3. /\ RequestTyped /\ u \in DOMAIN request /\ FlexBandwidth(c, u) > 0
    BY <2>1, <2>2, RunningStep
  <2>4. /\ end.left \subseteq Links /\ end.free \in [Links -> Nat]
        /\ \A l \in Links : end.free[l] <= Capacity[l]
        /\ \A l \in Links : end.series[l] \in {series[c][l], SeriesOf(deltas[c][l])}
    BY <2>1, <2>2, AfterAllTyped
  <2>5. \A d \in Contexts : \A l \in Links : Grows(d, l)
    <3>1. CASE GivesUp(c, r, u) \/ FindsOnly(c, r, u)
      BY <3>1, SameGrow DEF GivesUp, FindsOnly
    <3>2. CASE FindsAndHolds(c, r, u)
      <4>1. ats[c] \in Seq(Int)
        BY DEF SchedulesInv
      <4>2. Found(c, r, u) \in Seq(FoundPath)
        BY <2>3, <4>1, FeasibleTyped, SortedTyped DEF Found
      <4>3. Found(c, r, u) # <<>> /\ Commit(c, u, Found(c, r, u), end.left, end.free)
        BY <3>2 DEF FindsAndHolds
      <4> HIDE DEF end
      <4>4. QED
        BY <2>3, <2>4, <4>2, <4>3, CommitTyped
    <3>3. QED
      BY <2>1, <3>1, <3>2
  <2>6. booked' = booked
    BY <2>1 DEF input
  <2> HIDE DEF end
  <2>7. QED
    BY <1>1, <2>1, <2>4, <2>5, <2>6, OneContext
<1>7. ASSUME NEW c \in Contexts, NEW u \in DOMAIN request,
             CountOfPrunedLink(c, u) \/ ReorderPaths(c) \/ FinalizeServiceTopology(c)
      PROVE  SeriesInv'
  <2>1. booked' = booked /\ series' = series /\ deltas' = deltas
    BY <1>7, Zenon DEF CountOfPrunedLink, ReorderPaths, FinalizeServiceTopology, input, tewg
  <2>2. QED
    BY <1>2, <2>1
<1>8. ASSUME NEW c \in Contexts, ReorderPaths(c) \/ FinalizeServiceTopology(c)
      PROVE  SeriesInv'
  <2>1. booked' = booked /\ series' = series /\ deltas' = deltas
    BY <1>8, Zenon DEF ReorderPaths, FinalizeServiceTopology, input, tewg
  <2>2. QED
    BY <1>2, <2>1
<1>9. QED
  BY <1>3, <1>4, <1>5, <1>6, <1>7, <1>8, Zenon DEF RoundsNext

\* The series of a list of deltas that last holds what they do.
LEMMA ListSeries ==
  ASSUME NEW ds, NEW bs, NEW k \in Nat, Len(ds) = k, Len(bs) = k,
         \A i \in 1 .. k : /\ Delta(ds[i].s, ds[i].e, ds[i].bw) \in Proper
                           /\ ds[i].s = bs[i].s /\ ds[i].e = bs[i].e /\ ds[i].bw = bs[i].bw
  PROVE  /\ SeriesOf(ds) \in Seq(Proper) /\ Ordered(SeriesOf(ds))
         /\ \A t \in Int : HeldAt(SeriesOf(ds), t) = HeldAt(bs, t) /\ HeldAt(bs, t) \in Nat
<1> DEFINE q == SeriesOf(ds)
<1>1. ASSUME NEW t \in Int
      PROVE  /\ q \in Seq(Proper) /\ Ordered(q)
             /\ HeldAt(q, t) = HeldAt(bs, t) /\ HeldAt(bs, t) \in Nat
  <2>1. /\ q \in Seq(Proper) /\ Ordered(q)
        /\ HeldAt(bs, t) \in Nat /\ LoadOf(ToSet(q), t, HeldAt(bs, t))
    BY SeriesHolds
  <2> HIDE DEF q
  <2>2. HeldAt(q, t) \in Nat /\ LoadOf(ToSet(q), t, HeldAt(q, t))
    BY <2>1, OrderedHolds
  <2>3. HeldAt(q, t) = HeldAt(bs, t)
    BY <2>1, <2>2, LoadUnique
  <2>4. QED
    BY <2>1, <2>3
<1> HIDE DEF q
<1>2. 0 \in Int
  OBVIOUS
<1>3. QED
  BY <1>1, <1>2 DEF q

\* What was booked of a link is a list of deltas that hold it for some time.
LEMMA BookedSeries ==
  ASSUME SchedulesInv, NEW l \in Links, NEW t \in Int
  PROVE  /\ SeriesOf(AsBooked(l)) \in Seq(Proper) /\ Ordered(SeriesOf(AsBooked(l)))
         /\ HeldAt(SeriesOf(AsBooked(l)), t) = HeldAt(booked[l], t)
<1> DEFINE ds == AsBooked(l)
           bs == booked[l]
           k == Len(bs)
<1>1. /\ ds \in Seq(LinkDelta) /\ Len(ds) = k /\ k \in Nat
      /\ \A i \in 1 .. k : /\ ds[i].s = bs[i].s /\ ds[i].e = bs[i].e /\ ds[i].bw = bs[i].bw
                           /\ ds[i].s < ds[i].e
  BY BookedTyped DEF SchedulesInv
<1> HIDE DEF ds
<1>2. \A i \in 1 .. k : Delta(ds[i].s, ds[i].e, ds[i].bw) \in Proper
  <2> TAKE i \in 1 .. k
  <2>1. ds[i] \in LinkDelta /\ ds[i].s < ds[i].e
    BY <1>1
  <2>2. QED
    BY <2>1 DEF LinkDelta, Proper, Held, Delta
<1>3. /\ SeriesOf(ds) \in Seq(Proper) /\ Ordered(SeriesOf(ds))
      /\ HeldAt(SeriesOf(ds), t) = HeldAt(bs, t)
  BY <1>1, <1>2, ListSeries
<1>4. QED
  BY <1>3 DEF ds

LEMMA SeriesAreExact ==
  ASSUME SchedulesInv, SeriesInv
  PROVE  SeriesExact
<1> SUFFICES ASSUME NEW c \in Contexts, NEW l \in Links, HasSeries(c, l), Lasting(deltas[c][l])
             PROVE  \E n \in Len(booked[l])..Len(deltas[c][l]) :
                      LET ds == SubSeq(deltas[c][l], 1, n)
                      IN /\ IsSeriesOf(series[c][l], ds, Times)
                         /\ \A s \in Times, e \in Times : s < e =>
                              IsGraphOf(LoadADS(series[c][l], s, e, Capacity[l]), ds, s, e, Capacity[l])
  BY DEF SeriesExact
<1> DEFINE q == series[c][l]
           has == deltas[c][l]
<1>1. PICK ds \in Seq(LinkDelta) : /\ q = SeriesOf(ds) /\ Len(booked[l]) <= Len(ds)
                                   /\ Len(ds) <= Len(has)
                                   /\ \A i \in 1 .. Len(ds) : Alike(has[i], ds[i])
  BY DEF SeriesInv, OfDeltas, SumsUp, HasSeries
<1> DEFINE n == Len(ds)
           bs == SubSeq(has, 1, n)
<1>2. /\ has \in Seq(LinkDelta) /\ n \in Nat /\ n <= Len(has) /\ Len(has) \in Nat
      /\ Len(booked[l]) \in Nat /\ \A i \in 1 .. Len(has) : has[i].s < has[i].e
  <2>1. has \in Seq(LinkDelta) /\ Len(booked[l]) \in Nat
    BY BookedTyped DEF SchedulesInv
  <2> HIDE DEF has
  <2>2. QED
    BY <1>1, <2>1 DEF Lasting, has
<1> HIDE DEF q, has
<1>3. n \in Len(booked[l]) .. Len(has)
  BY <1>1, <1>2
<1>4. Len(bs) = n /\ \A i \in 1 .. n : bs[i] = has[i]
  BY <1>2
<1> HIDE DEF n, bs
<1>5. \A i \in 1 .. n : /\ Delta(ds[i].s, ds[i].e, ds[i].bw) \in Proper
                        /\ ds[i].s = bs[i].s /\ ds[i].e = bs[i].e /\ ds[i].bw = bs[i].bw
  <2> TAKE i \in 1 .. n
  <2>1. i \in 1 .. Len(has) /\ ds[i] \in LinkDelta /\ Alike(has[i], ds[i]) /\ bs[i] = has[i]
    BY <1>1, <1>2, <1>4 DEF n
  <2>2. has[i].s < has[i].e
    BY <1>2, <2>1
  <2>3. QED
    BY <2>1, <2>2 DEF LinkDelta, Proper, Held, Delta, Alike
<1>6. /\ q \in Seq(Proper) /\ Ordered(q)
      /\ \A t \in Int : HeldAt(q, t) = HeldAt(bs, t)
  <2>1. Len(ds) = n
    BY DEF n
  <2>2. QED
    BY <1>1, <1>2, <1>4, <1>5, <2>1, ListSeries
<1>7. Times \subseteq Int
  BY SchedulesAssumption DEF Times
<1>8. IsSeriesOf(q, bs, Times)
  <2>1. \A i \in DOMAIN q : q[i].s < q[i].e
    <3>1. \A i \in DOMAIN q : q[i] \in Proper
      BY <1>6
    <3>2. QED
      BY <3>1, ProperFields
  <2>2. \A i \in DOMAIN q : i < Len(q) => q[i].e <= q[i + 1].s
    <3> TAKE i \in DOMAIN q
    <3> HAVE i < Len(q)
    <3>1. i + 1 \in DOMAIN q /\ i < i + 1
      BY <1>6
    <3>2. QED
      BY <1>6, <3>1 DEF Ordered
  <2>3. QED
    BY <1>6, <1>7, <2>1, <2>2 DEF IsSeriesOf
<1>9. ASSUME NEW s \in Times, NEW e \in Times, s < e
      PROVE  IsGraphOf(LoadADS(q, s, e, Capacity[l]), bs, s, e, Capacity[l])
  <2> DEFINE bag == LoadADS(q, s, e, Capacity[l])
  <2>1. s \in Int /\ e \in Int /\ Capacity[l] \in Nat
    BY <1>7, SchedulesAssumption
  <2>2. /\ bag[e] = 0
        /\ \A t \in s .. e - 1 : BandwidthAt(bag, t) = Applied(Capacity[l], HeldAt(q, t))
    BY <1>6, <1>9, <2>1, GraphOfSeries
  <2>3. \A t \in s .. e - 1 : t \in Int
    BY <2>1
  <2> HIDE DEF bag
  <2>4. IsGraphOf(bag, bs, s, e, Capacity[l])
    BY <1>6, <2>2, <2>3 DEF IsGraphOf
  <2>5. QED
    BY <2>4 DEF bag
<1>10. QED
  BY <1>3, <1>8, <1>9 DEF bs, q, has

\* Whatever was booked on a link and held since, in any order and with any overlaps, a series
\* holds at every time what the deltas hold together that its link had when the series was
\* made, in the first round or with the graph of a path (tewg.cc:2131), and the graph of every
\* window of it is what the link can carry without them (scheduling.cc:68, 265).
THEOREM SeriesSumUp == RoundsSpec => []SeriesExact
<1>1. RoundsInit => SchedulesInv /\ SeriesInv
  BY SchedulesInitOK, SeriesInitOK
<1>2. SchedulesInv /\ SeriesInv /\ [RoundsNext]_roundsVars => SeriesInv'
  BY SeriesStep
<1>3. SchedulesInv /\ SeriesInv => SeriesExact
  BY SeriesAreExact
<1>4. QED
  BY <1>1, <1>2, <1>3, SchedulesKeepTypes, PTL DEF RoundsSpec

-----------------------------------------------------------------------------
(* Why a request of one sub-path fails: where its context is, and why the  *)
(* links that are gone from its TEWG are.                                  *)
AtKSP == <<Step("ksp", 1), Step("ats", 1), Step("round1", 1), Step("reorder", 0)>>
AtATS == <<Step("ats", 1), Step("round1", 1), Step("reorder", 0)>>
AtRound1 == <<Step("round1", 1), Step("reorder", 0)>>
AtReorder == <<Step("reorder", 0)>>
AtRound2 == <<Step("round2", 1), Step("finalize", 0)>>
AtFinalize == <<Step("finalize", 0)>>

LinkFits(c, l, s) ==
  /\ l \notin request[1].excluded
  /\ \A t \in s .. s + Duration(c, 1) - 1 : HeldAt(booked[l], t) + FlexBandwidth(c, 1) <= Capacity[l]
OneTime(c) == ~ request[1].window /\ Len(ats[c]) = 1 /\ Duration(c, 1) > 0

StageInv(c) ==
  /\ todo[c] \in {AtKSP, AtATS, AtRound1, AtReorder, AtRound2, AtFinalize, <<>>}
  /\ todo[c] # <<>> => FlexBandwidth(c, 1) # 0
  /\ todo[c] \in {AtKSP, AtATS} => ats[c] = <<>>
  /\ todo[c] = AtKSP => left[c] = Links
  /\ todo[c] = AtATS => \A i \in DOMAIN routes[c] : Range(routes[c][i]) \subseteq left[c]
  /\ status[c] = "failed" => todo[c] = <<>>
FreeInv(c) ==
  todo[c] \notin {AtFinalize, <<>>} /\ ~ request[1].window
    => \A l \in left[c] : free[c][l] = Capacity[l]
GoneInv(c) ==
  /\ todo[c] = AtATS /\ ~ request[1].window =>
       \A l \in Links \ left[c] : l \in request[1].excluded \/ Capacity[l] < FlexBandwidth(c, 1)
  /\ todo[c] \in {AtRound1, AtReorder, AtRound2} /\ OneTime(c) =>
       \A l \in Links \ left[c] : ~ LinkFits(c, l, ats[c][1])
ReasonInv(c) ==
  status[c] = "failed" /\ OneTime(c) =>
    \A i \in DOMAIN Routes[1] : ~ FitsAt(c, Routes[1][i], ats[c][1])
BookedInv(c) == todo[c] \notin {AtFinalize, <<>>} => OnlyBooked(c) /\ SumsBooked(c)
AloneInv(c) == StageInv(c) /\ FreeInv(c) /\ GoneInv(c) /\ ReasonInv(c) /\ BookedInv(c)

FailsInv ==
  /\ DOMAIN status = Contexts /\ DOMAIN routes = Contexts
  /\ Len(request) = 1 => up /\ \A c \in Contexts : AloneInv(c)

LEMMA OneRequest ==
  ASSUME SchedulesInv, Len(request) = 1
  PROVE  RequestTyped /\ DOMAIN request = {1} /\ 1 \in DOMAIN request
<1>1. RequestTyped
  BY RequestsTyped DEF SchedulesInv
<1>2. DOMAIN request = 1 .. 1
  BY <1>1 DEF RequestTyped
<1>3. QED
  BY <1>1, <1>2

\* Where a context is, by the action it does, and where it goes.
LEMMA Stages ==
  /\ Head(AtKSP) = Step("ksp", 1) /\ Tail(AtKSP) = AtATS /\ AtKSP # <<>>
  /\ Head(AtATS) = Step("ats", 1) /\ Tail(AtATS) = AtRound1 /\ AtATS # <<>>
  /\ Head(AtRound1) = Step("round1", 1) /\ Tail(AtRound1) = AtReorder /\ AtRound1 # <<>>
  /\ Head(AtReorder) = Step("reorder", 0) /\ Tail(AtReorder) = <<>> /\ AtReorder # <<>>
  /\ Head(AtRound2) = Step("round2", 1) /\ Tail(AtRound2) = AtFinalize /\ AtRound2 # <<>>
  /\ Head(AtFinalize) = Step("finalize", 0) /\ Tail(AtFinalize) = <<>> /\ AtFinalize # <<>>
BY DEF AtKSP, AtATS, AtRound1, AtReorder, AtRound2, AtFinalize

LEMMA RunsAt ==
  ASSUME NEW c, StageInv(c), NEW a, NEW u, Running(c, a, u)
  PROVE  /\ a = "ksp" => u = 1 /\ todo[c] = AtKSP /\ Tail(todo[c]) = AtATS
         /\ a = "ats" => u = 1 /\ todo[c] = AtATS /\ Tail(todo[c]) = AtRound1
         /\ a = "round1" => u = 1 /\ todo[c] = AtRound1 /\ Tail(todo[c]) = AtReorder
         /\ a = "reorder" => todo[c] = AtReorder
         /\ a = "round2" => u = 1 /\ todo[c] = AtRound2 /\ Tail(todo[c]) = AtFinalize
         /\ a = "finalize" => todo[c] = AtFinalize /\ Tail(todo[c]) = <<>>
         /\ status[c] = "running" /\ FlexBandwidth(c, 1) # 0
<1>1. /\ todo[c] \in {AtKSP, AtATS, AtRound1, AtReorder, AtRound2, AtFinalize}
      /\ FlexBandwidth(c, 1) # 0 /\ status[c] = "running"
      /\ Head(todo[c]) = Step(a, u)
  BY DEF StageInv, Running
<1>2. /\ a = Head(todo[c]).action /\ u = Head(todo[c]).path
      /\ \A x, i : Step(x, i).action = x /\ Step(x, i).path = i
  BY <1>1 DEF Step
<1>3. CASE todo[c] = AtKSP
  BY <1>1, <1>2, <1>3, Stages
<1>4. CASE todo[c] = AtATS
  BY <1>1, <1>2, <1>4, Stages
<1>5. CASE todo[c] = AtRound1
  BY <1>1, <1>2, <1>5, Stages
<1>6. CASE todo[c] = AtReorder
  BY <1>1, <1>2, <1>6, Stages
<1>7. CASE todo[c] = AtRound2
  BY <1>1, <1>2, <1>7, Stages
<1>8. CASE todo[c] = AtFinalize
  BY <1>1, <1>2, <1>8, Stages
<1>9. QED
  BY <1>1, <1>3, <1>4, <1>5, <1>6, <1>7, <1>8

\* The stages are different ones.
LEMMA StagesDiffer ==
  /\ AtATS # AtKSP /\ AtRound1 \notin {AtKSP, AtATS}
  /\ AtReorder \notin {AtKSP, AtATS, AtRound1}
  /\ AtRound2 \notin {AtKSP, AtATS, AtRound1, AtReorder}
  /\ AtFinalize \notin {AtKSP, AtATS, AtRound1, AtReorder, AtRound2}
  /\ <<>> \notin {AtKSP, AtATS, AtRound1, AtReorder, AtRound2, AtFinalize}
<1>1. \A x, y, i, j : x # y => Step(x, i) # Step(y, j)
  <2> TAKE x, y, i, j
  <2>1. Step(x, i).action = x /\ Step(y, j).action = y
    BY DEF Step
  <2>2. QED
    BY <2>1
<1>2. QED
  BY <1>1, Stages

LEMMA FourSteps ==
  ASSUME NEW a, NEW b, NEW c, NEW d
  PROVE  Append(<<a, b, c>>, d) = <<a, b, c, d>>
<1> DEFINE S == {a, b, c, d}
           p == <<a, b, c>>
           q == <<a, b, c, d>>
           r == Append(p, d)
<1>1. p \in Seq(S) /\ Len(p) = 3 /\ d \in S
  OBVIOUS
<1>2. q \in Seq(S) /\ Len(q) = 4 /\ q[4] = d /\ \A i \in 1 .. 3 : q[i] = p[i]
  OBVIOUS
<1> HIDE DEF S, p, q
<1>3. r \in Seq(S) /\ Len(r) = 4 /\ r[4] = d /\ \A i \in 1 .. 3 : r[i] = p[i]
  <2>1. p \in Seq(S) /\ d \in S
    BY <1>1
  <2>2. r \in Seq(S) /\ Len(r) = Len(p) + 1 /\ r[Len(p) + 1] = d /\ \A i \in 1 .. Len(p) : r[i] = p[i]
    BY <2>1, AppendProperties
  <2> HIDE DEF r
  <2>3. QED
    BY <1>1, <2>2
<1> HIDE DEF r
<1>4. \A i \in 1 .. 4 : i = 4 \/ i \in 1 .. 3
  OBVIOUS
<1>5. \A i \in 1 .. Len(r) : r[i] = q[i]
  BY <1>2, <1>3, <1>4
<1>6. r = q
  BY <1>2, <1>3, <1>5, SeqEqual
<1>7. QED
  BY <1>6 DEF p, q, r

LEMMA FirstRoundOfOne ==
  ASSUME Len(request) = 1, NEW c
  PROVE  FirstRound(c) = IF FlexBandwidth(c, 1) = 0 THEN <<>> ELSE AtKSP
<1> DEFINE m == Len(request)
           three == <<Step("ksp", 1), Step("ats", 1), Step("round1", 1)>>
           E(b, n) == b \o IF FlexBandwidth(c, n) = 0 THEN <<>>
                           ELSE <<Step("ksp", n), Step("ats", n), Step("round1", n)>>
           Body(f) == [n \in 0 .. m |-> IF n = 0 THEN <<>> ELSE E(f[n - 1], n)]
           s == CHOOSE f : f = Body(f)
           g == [n \in 0 .. m |-> IF n = 0 THEN <<>> ELSE E(<<>>, 1)]
<1>1. FirstRound(c) = IF FlexBandwidth(c, 1) = 0 THEN <<>> ELSE Append(s[m], Step("reorder", 0))
  BY DEF FirstRound
<1>2. m = 1 /\ E(<<>>, 1) = <<>> \o IF FlexBandwidth(c, 1) = 0 THEN <<>> ELSE three
  OBVIOUS
<1> HIDE DEF E, m
<1>3. g = Body(g)
  <2>1. \A n \in 0 .. m : n = 0 \/ (n = 1 /\ n - 1 = 0 /\ n - 1 \in 0 .. m)
    BY <1>2
  <2>2. g[0] = <<>>
    BY <1>2
  <2>3. \A n \in 0 .. m : g[n] = Body(g)[n]
    BY <2>1, <2>2
  <2> HIDE DEF E
  <2>4. QED
    BY <2>3
<1> HIDE DEF g, Body
<1>4. s = Body(s)
  BY <1>3
<1> HIDE DEF s
<1>5. s[0] = <<>> /\ s[1] = E(s[0], 1)
  <2>1. \A n \in 0 .. m : s[n] = IF n = 0 THEN <<>> ELSE E(s[n - 1], n)
    BY <1>4, Zenon DEF Body
  <2>2. 0 \in 0 .. m /\ 1 \in 0 .. m /\ 1 - 1 = 0 /\ 1 # 0
    BY <1>2
  <2>3. QED
    BY <2>1, <2>2
<1>6. ASSUME FlexBandwidth(c, 1) # 0
      PROVE  Append(s[m], Step("reorder", 0)) = AtKSP
  <2>1. s[m] = <<>> \o three
    BY <1>2, <1>5, <1>6
  <2>2. <<>> \o three = three
    OBVIOUS
  <2>3. Append(three, Step("reorder", 0)) = AtKSP
    BY FourSteps DEF AtKSP
  <2>4. QED
    BY <2>1, <2>2, <2>3
<1>7. QED
  BY <1>1, <1>6

\* What a window says is held, is held at one of its times.
LEMMA WindowHolds ==
  ASSUME NEW q \in Seq(Proper), Ordered(q), NEW s \in Int, NEW e \in Int, s < e
  PROVE  \E t \in s .. e - 1 : JoinADSInWindow(q, s, e).bw <= HeldAt(q, t)
<1> DEFINE w == GetADSInWindow(q, s, e)
           d == Delta(s, e, 0)
<1>1. d \in Proper /\ d.s = s /\ d.e = e
  BY DEF Proper, Held, Delta
<1>2. AreContacts(q, w, d)
  <2> HIDE DEF d
  <2>1. AreContacts(q, GetADSInWindow(q, d.s, d.e), d)
    BY <1>1, WindowMeets
  <2>2. QED
    BY <1>1, <2>1
<1>3. /\ q \in Seq(Held) /\ JoinADSInWindow(q, s, e).bw \in Nat
      /\ \A t \in Int : HeldAt(q, t) \in Nat
  <2>1. q \in Seq(Held)
    <3>1. Proper \subseteq Held
      BY DEF Proper
    <3>2. QED
      BY <3>1
  <2>2. QED
    BY <2>1, JoinTyped, OrderedHolds
<1>4. CASE w = <<>>
  <2>1. JoinADSInWindow(q, s, e).bw = 0
    BY <1>4 DEF JoinADSInWindow, NoDelta, Delta
  <2>2. QED
    BY <1>3, <2>1
<1>5. CASE w # <<>>
  <2>1. \E i \in DOMAIN w : JoinADSInWindow(q, s, e).bw = w[i].bw
    BY <1>3, <1>5, JoinTyped
  <2>2. PICK x \in ToSet(w) : JoinADSInWindow(q, s, e).bw = x.bw
    BY <2>1 DEF ToSet
  <2>3. x \in ToSet(q) /\ ~ Apart(x, d) /\ x \in Proper
    BY <1>2, OrderedApart DEF AreContacts
  <2>4. x.s \in Int /\ x.e \in Int /\ x.bw \in Nat /\ x.s < x.e
    BY <2>3, ProperFields
  <2> DEFINE t == IF x.s <= s THEN s ELSE x.s
  <2> HIDE DEF d
  <2>5. t \in s .. e - 1 /\ Covers(x, t)
    BY <1>1, <2>3, <2>4 DEF Apart, Covers
  <2> HIDE DEF t
  <2>6. t \in Int
    BY <2>5
  <2>7. LoadOf(ToSet(q), t, x.bw)
    BY <2>3, <2>5 DEF LoadOf
  <2>8. HeldAt(q, t) = x.bw
    BY <2>4, <2>6, <2>7, OrderedHolds, LoadUnique
  <2>9. QED
    BY <2>2, <2>4, <2>5, <2>8
<1>6. QED
  BY <1>4, <1>5

\* Beside what is booked a link has room for no more than what it has left with it held.
LEMMA MisfitAtTime ==
  ASSUME SchedulesInv, NEW c \in Contexts, SumsBooked(c), NEW l \in Links, FlexBandwidth(c, 1) \in Nat,
         NEW s \in Int, NEW D \in Int, D > 0, D = Duration(c, 1), FlexBandwidth(c, 1) > 0,
         \/ Capacity[l] < FlexBandwidth(c, 1)
         \/ Applied(Capacity[l], ConjoinedDelta(series[c][l], s, s + D)) < FlexBandwidth(c, 1)
  PROVE  ~ LinkFits(c, l, s)
<1> DEFINE bw == FlexBandwidth(c, 1)
           h == ConjoinedDelta(series[c][l], s, s + D)
           e == s + D
<1>1. Capacity[l] \in Nat /\ e \in Int /\ s < e /\ s \in s .. e - 1 /\ \A t \in s .. e - 1 : t \in Int
  BY SchedulesAssumption
<1>2. ASSUME NEW t \in Int
      PROVE  /\ SeriesOf(AsBooked(l)) \in Seq(Proper) /\ Ordered(SeriesOf(AsBooked(l)))
             /\ HeldAt(SeriesOf(AsBooked(l)), t) = HeldAt(booked[l], t) /\ HeldAt(booked[l], t) \in Nat
  <2> DEFINE q == SeriesOf(AsBooked(l))
  <2>1. q \in Seq(Proper) /\ Ordered(q) /\ HeldAt(q, t) = HeldAt(booked[l], t)
    BY BookedSeries
  <2> HIDE DEF q
  <2>2. HeldAt(q, t) \in Nat
    BY <2>1, OrderedHolds
  <2>3. QED
    BY <2>1, <2>2 DEF q
<1>3. h \in Nat /\ \E t \in s .. e - 1 : h <= HeldAt(booked[l], t)
  <2>1. CASE HasSeries(c, l)
    <3> DEFINE q == SeriesOf(AsBooked(l))
    <3>1. series[c][l] = q
      BY <2>1 DEF SumsBooked, HasSeries
    <3>2. h = JoinADSInWindow(q, s, e).bw
      BY <2>1, <3>1 DEF ConjoinedDelta, HasSeries
    <3>3. q \in Seq(Proper) /\ Ordered(q)
      BY <1>2
    <3>4. \A t \in s .. e - 1 : HeldAt(q, t) = HeldAt(booked[l], t)
      BY <1>1, <1>2
    <3> HIDE DEF q
    <3>5. \E t \in s .. e - 1 : JoinADSInWindow(q, s, e).bw <= HeldAt(q, t)
      BY <1>1, <3>3, WindowHolds
    <3>6. JoinADSInWindow(q, s, e).bw \in Nat
      <4>1. Proper \subseteq Held
        BY DEF Proper
      <4>2. q \in Seq(Held)
        BY <3>3, <4>1
      <4>3. QED
        BY <4>2, JoinTyped
    <3> HIDE DEF h
    <3>7. QED
      BY <3>2, <3>4, <3>5, <3>6
  <2>2. CASE ~ HasSeries(c, l)
    <3>1. h = 0
      BY <2>2 DEF ConjoinedDelta, HasSeries
    <3>2. 0 <= HeldAt(booked[l], s)
      BY <1>2
    <3> HIDE DEF h
    <3>3. QED
      BY <1>1, <3>1, <3>2
  <2>3. QED
    BY <2>1, <2>2
<1> HIDE DEF h
<1>4. PICK t \in s .. e - 1 : h <= HeldAt(booked[l], t)
  BY <1>3
<1>5. HeldAt(booked[l], t) \in Nat
  BY <1>1, <1>2
<1>6. HeldAt(booked[l], t) + bw > Capacity[l]
  <2> DEFINE k == HeldAt(booked[l], t)
             x == Capacity[l]
  <2>1. k \in Nat /\ x \in Nat /\ h \in Nat /\ bw \in Nat /\ bw > 0 /\ h <= k
    BY <1>1, <1>3, <1>4, <1>5
  <2>2. x < bw \/ Applied(x, h) < bw
    BY DEF h
  <2> HIDE DEF k, x, bw
  <2>3. QED
    BY <2>1, <2>2 DEF Applied, k, x, bw
<1>7. QED
  BY <1>1, <1>3, <1>4, <1>5, <1>6 DEF LinkFits

\* The TEWG after the only time point: a link that is gone does not fit.
LEMMA OnlyMisfitsGo ==
  ASSUME SchedulesInv, Len(request) = 1, NEW c \in Contexts, SumsBooked(c), NEW r,
         FlexBandwidth(c, 1) > 0, OneTime(c),
         \A l \in left[c] : free[c][l] = Capacity[l],
         \A l \in Links \ left[c] : ~ LinkFits(c, l, ats[c][1])
  PROVE  /\ \A l \in Links \ AfterAll(c, r, 1).left : ~ LinkFits(c, l, ats[c][1])
         /\ AfterAll(c, r, 1).thrown => ~ (EdgeLinks(1) \subseteq AfterAll(c, r, 1).left)
         /\ AtTimePoints(c, r, 1)[1] = AfterAll(c, r, 1)
<1> DEFINE at == AtTimePoints(c, r, 1)
           s == ats[c][1]
           D == Duration(c, 1)
           bw == FlexBandwidth(c, 1)
           b == Untried(c)
           end == s + D
           kept == PruneByExclusionUrn(b.left, 1)
           held == [l \in kept |-> ConjoinedDelta(b.series[l], s, end)]
           net == [l \in Links |-> IF l \in kept THEN Applied(b.free[l], held[l]) ELSE b.free[l]]
           L == PruneByBandwidth(kept, net, bw)
<1>1. RequestTyped /\ 1 \in DOMAIN request
  BY OneRequest
<1>2. bw \in Nat /\ bw > 0 /\ D \in Int /\ D > 0
  BY <1>1, FlexTyped DEF OneTime
<1>3. ats[c] \in Seq(Int) /\ Len(ats[c]) = 1 /\ s \in Int
  <2>1. ats[c] \in Seq(Int) /\ Len(ats[c]) = 1
    BY DEF SchedulesInv, OneTime
  <2>2. 1 \in 1 .. Len(ats[c])
    BY <2>1
  <2>3. QED
    BY <2>1, <2>2
<1>4. LinksTyped(c)
  <2>1. /\ left \in [Contexts -> SUBSET Links]
        /\ free \in [Contexts -> [Links -> Nat]]
        /\ \A l \in Links : free[c][l] <= Capacity[l]
        /\ series \in [Contexts -> [Links -> Seq(Held)]]
        /\ deltas \in [Contexts -> [Links -> Seq(LinkDelta)]]
    BY DEF SchedulesInv
  <2>2. QED
    BY <2>1 DEF LinksTyped
<1>5. AfterAll(c, r, 1) = at[1] /\ at[0] = Untried(c) /\ at[1] = AtTimePoint(c, r, 1, Untried(c), s)
  <2>1. AfterAll(c, r, 1) = at[1]
    BY <1>3 DEF AfterAll
  <2>2. \A i \in 0 .. 1 : at[i] = IF i = 0 THEN Untried(c)
                                  ELSE IF at[i - 1].thrown THEN at[i - 1]
                                  ELSE AtTimePoint(c, r, 1, at[i - 1], ats[c][i])
    BY <1>1, <1>2, <1>3, <1>4, TimePointsGiveBack
  <2> HIDE DEF at
  <2>3. at[0] = Untried(c)
    BY <2>2
  <2>4. at[1] = IF at[0].thrown THEN at[0] ELSE AtTimePoint(c, r, 1, at[0], s)
    BY <2>2
  <2>5. ~ Untried(c).thrown
    BY DEF Untried
  <2>6. QED
    BY <2>1, <2>3, <2>4, <2>5
<1>6. /\ AtTimePoint(c, r, 1, b, s).left = L
      /\ AtTimePoint(c, r, 1, b, s).thrown = ~ (EdgeLinks(1) \subseteq L)
  BY DEF AtTimePoint
<1>7. b.left = left[c] /\ b.free = free[c] /\ b.series = series[c]
  BY DEF Untried
<1> HIDE DEF b
<1>8. ASSUME NEW l \in Links \ L
      PROVE  ~ LinkFits(c, l, s)
  <2>1. CASE l \notin left[c]
    BY <2>1
  <2>2. CASE l \in left[c] /\ l \in request[1].excluded
    BY <2>2 DEF LinkFits
  <2>3. CASE l \in left[c] /\ l \notin request[1].excluded
    <3>1. l \in kept
      BY <1>7, <2>3 DEF PruneByExclusionUrn
    <3>2. net[l] = Applied(Capacity[l], ConjoinedDelta(series[c][l], s, end))
      BY <1>7, <2>3, <3>1
    <3>3. net[l] \in Nat /\ net[l] < bw
      <4>1. Capacity[l] \in Nat /\ series[c][l] \in Seq(Held)
        BY <1>4, SchedulesAssumption DEF LinksTyped
      <4>2. ConjoinedDelta(series[c][l], s, end) \in Nat
        BY <4>1, JoinTyped DEF ConjoinedDelta
      <4>3. Applied(Capacity[l], ConjoinedDelta(series[c][l], s, end)) \in Nat
        BY <4>1, <4>2, AppliedLeaves
      <4>4. net[l] \in Nat
        BY <3>2, <4>3
      <4> HIDE DEF kept, net
      <4>5. ~ (net[l] >= bw)
        BY <1>8, <3>1 DEF PruneByBandwidth
      <4>6. QED
        BY <1>2, <4>4, <4>5
    <3>4. Applied(Capacity[l], ConjoinedDelta(series[c][l], s, s + D)) < bw
      BY <3>2, <3>3
    <3> HIDE DEF L, net, held, kept
    <3>5. QED
      BY <1>2, <1>3, <3>4, MisfitAtTime
  <2>4. QED
    BY <2>1, <2>2, <2>3
<1> HIDE DEF L
<1>9. QED
  BY <1>5, <1>6, <1>8 DEF b

\* A context that gives up at its only time point has no route that fits then.
LEMMA NoRouteFits ==
  ASSUME SchedulesInv, Len(request) = 1, NEW c \in Contexts, SumsBooked(c), NEW r,
         FlexBandwidth(c, 1) > 0, OneTime(c),
         \A l \in left[c] : free[c][l] = Capacity[l],
         \A l \in Links \ left[c] : ~ LinkFits(c, l, ats[c][1]),
         GivesUp(c, r, 1),
         NEW i \in DOMAIN Routes[1]
  PROVE  ~ FitsAt(c, Routes[1][i], ats[c][1])
<1> SUFFICES ASSUME FitsAt(c, Routes[1][i], ats[c][1])
             PROVE  FALSE
  OBVIOUS
<1> DEFINE p == Routes[1][i]
           L == AfterAll(c, r, 1).left
<1>1. /\ \A l \in Links \ L : ~ LinkFits(c, l, ats[c][1])
      /\ AfterAll(c, r, 1).thrown => ~ (EdgeLinks(1) \subseteq L)
      /\ AtTimePoints(c, r, 1)[1] = AfterAll(c, r, 1)
  BY OnlyMisfitsGo
<1>2. RequestTyped /\ 1 \in DOMAIN request /\ 1 \in DOMAIN Routes
  BY OneRequest, RequestFields
<1>3. /\ Routes[1] \in Seq(Seq(Links)) /\ p \in Seq(Links) /\ Len(p) > 2
      /\ p[1] = Routes[1][1][1] /\ Last(p) = Last(Routes[1][1])
  BY <1>2, SchedulesAssumption, EdgesAssumption DEF Paths
<1>4. Range(p) \subseteq L
  <2>1. \A j \in DOMAIN p : p[j] \in Links /\ LinkFits(c, p[j], ats[c][1])
    BY <1>3 DEF FitsAt, LinkFits
  <2>2. \A j \in DOMAIN p : p[j] \in L
    BY <1>1, <2>1
  <2> HIDE DEF p, L
  <2>3. QED
    BY <2>2 DEF Range
<1>5. EdgeLinks(1) \subseteq L
  <2>1. 1 \in DOMAIN p /\ Len(p) \in DOMAIN p /\ Last(p) = p[Len(p)]
    BY <1>3 DEF Last
  <2>2. p[1] \in Range(p) /\ Last(p) \in Range(p)
    BY <2>1 DEF Range
  <2>3. EdgeLinks(1) = {p[1], Last(p)}
    BY <1>3 DEF EdgeLinks
  <2> HIDE DEF p, L
  <2>4. QED
    BY <1>4, <2>2, <2>3
<1>6. ~ AtTimePoints(c, r, 1)[1].thrown /\ AtTimePoints(c, r, 1)[1].left = L
  BY <1>1, <1>5
<1>7. ComputeKShortestPaths(L, 1) # <<>>
  <2> DEFINE I == {j \in DOMAIN Routes[1] : Range(Routes[1][j]) \subseteq L}
             k == Keep(Routes[1], I)
  <2>1. ToSet(k) = {Routes[1][j] : j \in DOMAIN Routes[1] \cap I}
    <3>1. Routes[1] \in Seq(Seq(Links))
      BY <1>3
    <3> HIDE DEF I
    <3>2. QED
      BY <3>1, KeepElements
  <2>2. p \in ToSet(k)
    BY <1>4, <2>1
  <2>3. ComputeKShortestPaths(L, 1) = k
    BY DEF ComputeKShortestPaths
  <2> HIDE DEF k
  <2>4. k # <<>>
    BY <2>2 DEF ToSet
  <2>5. QED
    BY <2>3, <2>4
<1>8. ats[c] \in Seq(Int) /\ Len(ats[c]) = 1
  BY DEF SchedulesInv, OneTime
<1> DEFINE at == AtTimePoints(c, r, 1)
           f == FeasiblePaths(c, 1, at)
<1>9. f \in Seq(FoundPath) /\ f # <<>>
  <2>1. ~ at[1].thrown /\ ComputeKShortestPaths(at[1].left, 1) # <<>>
    BY <1>6, <1>7
  <2> HIDE DEF at
  <2>2. QED
    BY <1>2, <1>8, <2>1, FeasibleTyped
<1>10. Found(c, r, 1) = Sorted(f)
  BY DEF Found
<1> HIDE DEF f
<1>11. Found(c, r, 1) # <<>>
  BY <1>9, <1>10, SortedTyped
<1>12. ~ AfterAll(c, r, 1).thrown
  BY <1>1, <1>5
<1>13. QED
  BY <1>11, <1>12 DEF GivesUp

LEMMA FailsInitOK ==
  ASSUME RoundsInit
  PROVE  FailsInv
<1>1. /\ up = TRUE /\ status = [c \in Contexts |-> "running"] /\ routes = [c \in Contexts |-> <<>>]
      /\ todo = [c \in Contexts |-> FirstRound(c)] /\ left = [c \in Contexts |-> Links]
      /\ free = [c \in Contexts |-> Capacity] /\ ats = [c \in Contexts |-> <<>>]
  BY DEF RoundsInit
<1>2. ASSUME Len(request) = 1, NEW c \in Contexts
      PROVE  AloneInv(c)
  <2>1. todo[c] = IF FlexBandwidth(c, 1) = 0 THEN <<>> ELSE AtKSP
    BY <1>1, <1>2, FirstRoundOfOne
  <2>2. /\ status[c] = "running" /\ left[c] = Links /\ free[c] = Capacity /\ ats[c] = <<>>
    BY <1>1
  <2>3. StageInv(c)
    BY <2>1, <2>2, Stages, StagesDiffer DEF StageInv
  <2>4. FreeInv(c)
    BY <2>2 DEF FreeInv
  <2>5. GoneInv(c)
    BY <2>1, <2>2, StagesDiffer DEF GoneInv
  <2>6. ReasonInv(c)
    BY <2>2 DEF ReasonInv
  <2>7. BookedInv(c)
    BY SeriesInitOK DEF BookedInv
  <2>8. QED
    BY <2>3, <2>4, <2>5, <2>6, <2>7 DEF AloneInv
<1>3. QED
  BY <1>1, <1>2 DEF FailsInv

\* A series that is made from what was booked sums that.
LEMMA StayBooked ==
  ASSUME NEW c, OnlyBooked(c), SumsBooked(c), booked' = booked, deltas'[c] = deltas[c],
         \A l \in Links : series'[c][l] \in {series[c][l], SeriesOf(deltas[c][l])}
  PROVE  OnlyBooked(c)' /\ SumsBooked(c)'
<1>1. \A l : AsBooked(l)' = AsBooked(l)
  BY DEF AsBooked
<1>2. OnlyBooked(c)'
  BY <1>1 DEF OnlyBooked
<1>3. ASSUME NEW l \in Links
      PROVE  series'[c][l] \in {NoSeries, SeriesOf(AsBooked(l))}
  <2>1. deltas[c][l] = AsBooked(l) /\ series[c][l] \in {NoSeries, SeriesOf(AsBooked(l))}
    BY DEF OnlyBooked, SumsBooked
  <2>2. QED
    BY <2>1
<1>4. QED
  BY <1>1, <1>2, <1>3 DEF SumsBooked

\* What AloneInv says of a context is about nothing but that context.
LEMMA OneContextFails ==
  ASSUME FailsInv, request' = request, booked' = booked, NEW c \in Contexts,
         DOMAIN status' = Contexts, DOMAIN routes' = Contexts,
         \A d \in Contexts : d # c =>
           /\ todo'[d] = todo[d] /\ status'[d] = status[d] /\ left'[d] = left[d]
           /\ free'[d] = free[d] /\ routes'[d] = routes[d] /\ ats'[d] = ats[d]
           /\ series'[d] = series[d] /\ deltas'[d] = deltas[d],
         Len(request) = 1 => up' /\ AloneInv(c)'
  PROVE  FailsInv'
<1>1. ASSUME Len(request) = 1, NEW d \in Contexts, d # c
      PROVE  AloneInv(d)'
  <2>1. /\ todo'[d] = todo[d] /\ status'[d] = status[d] /\ left'[d] = left[d]
        /\ free'[d] = free[d] /\ routes'[d] = routes[d] /\ ats'[d] = ats[d]
        /\ series'[d] = series[d] /\ deltas'[d] = deltas[d]
    BY <1>1
  <2>2. StageInv(d) /\ FreeInv(d) /\ GoneInv(d) /\ ReasonInv(d) /\ BookedInv(d)
    BY <1>1 DEF FailsInv, AloneInv
  <2>3. /\ FlexBandwidth(d, 1)' = FlexBandwidth(d, 1) /\ Duration(d, 1)' = Duration(d, 1)
        /\ OneTime(d)' = OneTime(d)
    BY <2>1 DEF FlexBandwidth, Duration, Volume, OneTime
  <2>4. \A l, s : LinkFits(d, l, s)' = LinkFits(d, l, s)
    BY <2>3 DEF LinkFits
  <2>5. \A p, s : FitsAt(d, p, s)' = FitsAt(d, p, s)
    BY <2>3 DEF FitsAt
  <2>6. StageInv(d)'
    BY <2>1, <2>2, <2>3 DEF StageInv
  <2>7. FreeInv(d)'
    BY <2>1, <2>2 DEF FreeInv
  <2>8. GoneInv(d)'
    BY <2>1, <2>2, <2>3, <2>4 DEF GoneInv
  <2>9. ReasonInv(d)'
    BY <2>1, <2>2, <2>3, <2>5 DEF ReasonInv
  <2>10. BookedInv(d)'
    <3>1. \A l : AsBooked(l)' = AsBooked(l)
      BY DEF AsBooked
    <3>2. QED
      BY <2>1, <2>2, <3>1 DEF BookedInv, OnlyBooked, SumsBooked
  <2>11. QED
    BY <2>6, <2>7, <2>8, <2>9, <2>10 DEF AloneInv
<1>2. ASSUME Len(request)' = 1
      PROVE  up' /\ \A d \in Contexts : AloneInv(d)'
  <2>1. Len(request) = 1
    BY <1>2
  <2>2. QED
    BY <1>1, <2>1
<1>3. QED
  BY <1>2 DEF FailsInv

\* Goes and Fails, seen from the contexts.
LEMMA TurnOf ==
  ASSUME SchedulesInv, FailsInv, NEW c \in Contexts
  PROVE  /\ Goes(c) => todo'[c] = Tail(todo[c]) /\ \A d \in Contexts : d # c => todo'[d] = todo[d]
         /\ Fails(c) => /\ todo'[c] = <<>> /\ status'[c] = "failed" /\ DOMAIN status' = Contexts
                        /\ \A d \in Contexts : d # c => todo'[d] = todo[d] /\ status'[d] = status[d]
<1>1. DOMAIN todo = Contexts /\ DOMAIN status = Contexts
  BY DEF SchedulesInv, FailsInv
<1>2. QED
  BY <1>1 DEF Goes, Fails

LEMMA SearchFails ==
  ASSUME SchedulesInv, FailsInv, NEW c \in Contexts, NEW u \in DOMAIN request, ComputeKSP(c, u)
  PROVE  FailsInv'
<1> DEFINE kept == PruneByExclusionUrn(left[c], 1)
           windowed == request[1].window
           ads == [l \in Links |-> IF windowed /\ l \in kept THEN SeriesOf(deltas[c][l])
                                   ELSE series[c][l]]
           w == request[1].flex[1]
           net == [l \in Links |-> IF windowed /\ l \in kept
                                   THEN Applied(free[c][l], JoinADSInWindow(ads[l], w.s, w.e).bw)
                                   ELSE free[c][l]]
           L == PruneByBandwidth(kept, net, FlexBandwidth(c, u))
           paths == ComputeKShortestPaths(L, 1)
<1>1. /\ Running(c, "ksp", u)
      /\ left' = [left EXCEPT ![c] = L]
      /\ free' = [free EXCEPT ![c] = net]
      /\ routes' = [routes EXCEPT ![c] = IF u = 1 THEN paths ELSE @]
      /\ Fails(c) \/ (Goes(c) /\ UNCHANGED status)
      /\ UNCHANGED <<input, up, ats>>
  BY Zenon DEF ComputeKSP
<1>2. /\ DOMAIN left = Contexts /\ free \in [Contexts -> [Links -> Nat]]
      /\ left[c] \subseteq Links /\ \A l \in Links : free[c][l] \in Nat
      /\ DOMAIN status = Contexts /\ DOMAIN routes = Contexts
  BY DEF SchedulesInv, FailsInv
<1>3. windowed \/ \A l \in Links : net[l] = free[c][l]
  OBVIOUS
<1>4. L = {l \in left[c] \ request[1].excluded : net[l] >= FlexBandwidth(c, u)}
  BY DEF PruneByBandwidth, PruneByExclusionUrn
<1> HIDE DEF kept, ads, w, net, L
<1>5. request' = request /\ booked' = booked /\ up' = up /\ ats' = ats
  BY <1>1 DEF input
<1>6. /\ left'[c] = L /\ free'[c] = net /\ (u = 1 => routes'[c] = paths)
      /\ DOMAIN routes' = Contexts
      /\ \A d \in Contexts : d # c => left'[d] = left[d] /\ free'[d] = free[d] /\ routes'[d] = routes[d]
  BY <1>1, <1>2
<1>7. DOMAIN status' = Contexts /\ \A d \in Contexts : d # c => todo'[d] = todo[d] /\ status'[d] = status[d]
  BY <1>1, <1>2, TurnOf
<1>10. /\ \A l \in Links : series'[c][l] \in {series[c][l], SeriesOf(deltas[c][l])}
       /\ deltas' = deltas /\ \A d \in Contexts : d # c => series'[d] = series[d]
  <2>1. DOMAIN series = Contexts
    BY DEF SchedulesInv
  <2>2. QED
    BY <2>1, SearchMakes
<1>8. ASSUME Len(request) = 1
      PROVE  up' /\ AloneInv(c)'
  <2>1. up /\ StageInv(c) /\ FreeInv(c) /\ BookedInv(c)
    BY <1>8 DEF FailsInv, AloneInv
  <2>2. /\ u = 1 /\ todo[c] = AtKSP /\ Tail(todo[c]) = AtATS /\ status[c] = "running"
        /\ FlexBandwidth(c, 1) # 0
    BY <1>1, <2>1, RunsAt
  <2>3. ats'[c] = <<>> /\ left[c] = Links
    BY <1>5, <2>1, <2>2 DEF StageInv
  <2>4. \/ todo'[c] = <<>>
        \/ todo'[c] = AtATS /\ status'[c] = "running"
    BY <1>1, <2>2, TurnOf
  <2>5. FlexBandwidth(c, 1)' = FlexBandwidth(c, 1)
    BY <1>5 DEF FlexBandwidth
  <2>6. \A i \in DOMAIN routes'[c] : Range(routes'[c][i]) \subseteq L
    <3> DEFINE I == {j \in DOMAIN Routes[1] : Range(Routes[1][j]) \subseteq L}
               k == Keep(Routes[1], I)
    <3>1. Routes[1] \in Seq(Seq(Links))
      <4>1. 1 \in DOMAIN Routes
        BY <1>8, OneRequest, RequestFields
      <4>2. QED
        BY <4>1, SchedulesAssumption
    <3>2. routes'[c] = k
      BY <1>6, <2>2 DEF ComputeKShortestPaths
    <3> HIDE DEF I
    <3>3. ToSet(k) = {Routes[1][j] : j \in DOMAIN Routes[1] \cap I}
      BY <3>1, KeepElements
    <3> HIDE DEF k
    <3>4. \A p \in ToSet(k) : Range(p) \subseteq L
      BY <3>3 DEF I
    <3>5. QED
      BY <3>2, <3>4 DEF ToSet
  <2>7. StageInv(c)'
    BY <1>6, <2>2, <2>3, <2>4, <2>5, <2>6, StagesDiffer DEF StageInv
  <2>8. FreeInv(c)'
    <3>1. ASSUME ~ request[1].window
          PROVE  \A l \in L : net[l] = Capacity[l]
      BY <1>2, <1>3, <1>4, <2>1, <2>2, <3>1, StagesDiffer DEF FreeInv
    <3>2. QED
      BY <1>5, <1>6, <3>1 DEF FreeInv
  <2>9. GoneInv(c)'
    <3>1. ASSUME ~ request[1].window, NEW l \in Links \ L
          PROVE  l \in request[1].excluded \/ Capacity[l] < FlexBandwidth(c, 1)
      <4>1. net[l] = Capacity[l] /\ net[l] \in Nat
        BY <1>2, <1>3, <2>1, <2>2, <2>3, <3>1, StagesDiffer DEF FreeInv
      <4>2. l \in request[1].excluded \/ ~ (net[l] >= FlexBandwidth(c, 1))
        BY <1>4, <2>2, <2>3, <3>1
      <4>3. FlexBandwidth(c, 1) \in Nat
        BY <1>8, OneRequest, FlexTyped
      <4>4. QED
        BY <4>1, <4>2, <4>3
    <3>2. todo'[c] \notin {AtRound1, AtReorder, AtRound2}
      BY <2>4, StagesDiffer
    <3>3. QED
      BY <1>5, <1>6, <2>5, <3>1, <3>2 DEF GoneInv
  <2>10. ReasonInv(c)'
    <3>1. Len(ats'[c]) # 1
      BY <2>3
    <3>2. QED
      BY <3>1 DEF ReasonInv, OneTime
  <2>11. BookedInv(c)'
    <3>1. OnlyBooked(c) /\ SumsBooked(c)
      BY <2>1, <2>2, StagesDiffer DEF BookedInv
    <3>2. QED
      BY <1>5, <1>10, <3>1, StayBooked DEF BookedInv
  <2>12. QED
    BY <1>5, <2>1, <2>7, <2>8, <2>9, <2>10, <2>11 DEF AloneInv
<1>9. QED
  BY <1>5, <1>6, <1>7, <1>8, <1>10, OneContextFails

LEMMA TimesFail ==
  ASSUME SchedulesInv, FailsInv, NEW c \in Contexts, NEW u \in DOMAIN request, CreateOrderedATS(c, u)
  PROVE  FailsInv'
<1> DEFINE new == IF u = 1 THEN OrderedATS(c, u, Aggregated(c, u).points) ELSE ats[c]
<1>1. /\ Running(c, "ats", u) /\ Goes(c)
      /\ ats' = [ats EXCEPT ![c] = new]
      /\ UNCHANGED <<input, status, up, left, free, routes>>
  BY Zenon DEF CreateOrderedATS
<1> HIDE DEF new
<1>2. DOMAIN ats = Contexts /\ ats' \in [Contexts -> Seq(Int)]
  BY CreateOrderedATSStep DEF SchedulesInv
<1>3. /\ request' = request /\ booked' = booked /\ up' = up /\ left' = left /\ free' = free
      /\ status' = status /\ routes' = routes
  BY <1>1 DEF input
<1>4. /\ \A d \in Contexts : d # c => todo'[d] = todo[d] /\ ats'[d] = ats[d]
      /\ todo'[c] = Tail(todo[c])
  BY <1>1, <1>2, TurnOf
<1>9. /\ \A l \in Links : series'[c][l] \in {series[c][l], SeriesOf(deltas[c][l])}
      /\ deltas' = deltas /\ \A d \in Contexts : d # c => series'[d] = series[d]
  <2>1. DOMAIN series = Contexts
    BY DEF SchedulesInv
  <2>2. QED
    BY <2>1, TimesMake
<1>5. ASSUME Len(request) = 1
      PROVE  up' /\ AloneInv(c)'
  <2>1. up /\ StageInv(c) /\ FreeInv(c) /\ GoneInv(c) /\ BookedInv(c)
    BY <1>5 DEF FailsInv, AloneInv
  <2>2. todo[c] = AtATS /\ todo'[c] = AtRound1 /\ status[c] = "running" /\ FlexBandwidth(c, 1) # 0
    BY <1>1, <1>4, <2>1, RunsAt
  <2>10. OnlyBooked(c) /\ SumsBooked(c)
    BY <2>1, <2>2, StagesDiffer DEF BookedInv
  <2>3. FlexBandwidth(c, 1)' = FlexBandwidth(c, 1) /\ Duration(c, 1)' = Duration(c, 1)
    BY <1>3 DEF FlexBandwidth, Duration, Volume
  <2>4. StageInv(c)'
    BY <1>3, <2>2, <2>3, Stages, StagesDiffer DEF StageInv
  <2>5. FreeInv(c)'
    BY <1>3, <2>1, <2>2, StagesDiffer DEF FreeInv
  <2>6. ASSUME OneTime(c)', NEW l \in Links \ left[c]
        PROVE  ~ LinkFits(c, l, ats'[c][1])
    <3>1. ~ request[1].window /\ Len(ats'[c]) = 1 /\ Duration(c, 1) > 0
      BY <1>3, <2>3, <2>6 DEF OneTime
    <3>2. l \in request[1].excluded \/ Capacity[l] < FlexBandwidth(c, 1)
      BY <2>1, <2>2, <3>1 DEF GoneInv
    <3>3. ats'[c][1] \in Int
      <4>1. ats'[c] \in Seq(Int) /\ 1 \in 1 .. Len(ats'[c])
        BY <1>2, <3>1
      <4>2. QED
        BY <4>1
    <3>4. CASE l \in request[1].excluded
      BY <3>4 DEF LinkFits
    <3>5. CASE Capacity[l] < FlexBandwidth(c, 1)
      <4>1. FlexBandwidth(c, 1) \in Nat /\ FlexBandwidth(c, 1) > 0 /\ Duration(c, 1) \in Int
        BY <1>5, <2>2, OneRequest, FlexTyped
      <4>2. QED
        BY <2>10, <3>1, <3>3, <3>5, <4>1, MisfitAtTime
    <3>6. QED
      BY <3>2, <3>4, <3>5
  <2>7. GoneInv(c)'
    <3>1. \A l, s : LinkFits(c, l, s)' = LinkFits(c, l, s)
      BY <1>3, <2>3 DEF LinkFits
    <3>2. todo'[c] # AtATS
      BY <2>2, StagesDiffer
    <3>3. QED
      BY <1>3, <2>6, <3>1, <3>2 DEF GoneInv
  <2>8. ReasonInv(c)'
    <3>1. status'[c] # "failed"
      BY <1>3, <2>2
    <3>2. QED
      BY <3>1 DEF ReasonInv
  <2>11. BookedInv(c)'
    BY <1>3, <1>9, <2>10, StayBooked DEF BookedInv
  <2>9. QED
    BY <1>3, <2>1, <2>4, <2>5, <2>7, <2>8, <2>11 DEF AloneInv
<1>6. DOMAIN status' = Contexts /\ DOMAIN routes' = Contexts
  BY <1>3 DEF FailsInv
<1>7. \A d \in Contexts : d # c =>
           /\ todo'[d] = todo[d] /\ status'[d] = status[d] /\ left'[d] = left[d]
           /\ free'[d] = free[d] /\ routes'[d] = routes[d] /\ ats'[d] = ats[d]
           /\ series'[d] = series[d] /\ deltas'[d] = deltas[d]
  BY <1>3, <1>4, <1>9
<1>8. QED
  BY <1>3, <1>5, <1>6, <1>7, OneContextFails

\* With one sub-path no link is pruned between the search and the count of its links.
LEMMA NothingPruned ==
  ASSUME FailsInv, Len(request) = 1, NEW c \in Contexts, NEW u
  PROVE  ~ CountOfPrunedLink(c, u)
<1> SUFFICES ASSUME CountOfPrunedLink(c, u)
             PROVE  FALSE
  OBVIOUS
<1>1. Running(c, "ats", u) /\ \E i \in DOMAIN routes[c] : ~ Range(routes[c][i]) \subseteq left[c]
  BY Zenon DEF CountOfPrunedLink
<1>2. StageInv(c)
  BY DEF FailsInv, AloneInv
<1>3. todo[c] = AtATS
  BY <1>1, <1>2, RunsAt
<1>4. QED
  BY <1>1, <1>2, <1>3 DEF StageInv

LEMMA ScheduleFails ==
  ASSUME SchedulesInv, FailsInv, NEW c \in Contexts, NEW r \in 1 .. 2, NEW u \in DOMAIN request,
         ComputeSchedulesWithKSP(c, r, u)
  PROVE  FailsInv'
<1> DEFINE a == IF r = 1 THEN "round1" ELSE "round2"
           end == AfterAll(c, r, u)
<1>1. /\ Running(c, a, u)
      /\ left' = [left EXCEPT ![c] = end.left]
      /\ series' = [series EXCEPT ![c] = end.series]
      /\ UNCHANGED <<input, ats>>
      /\ GivesUp(c, r, u) \/ FindsOnly(c, r, u) \/ (r = 2 /\ FindsAndHolds(c, r, u))
  BY ScheduleOutcomes
<1>2. up' = up /\ routes' = routes /\ (Fails(c) \/ UNCHANGED status)
  BY Zenon DEF ComputeSchedulesWithKSP
<1>3. /\ request' = request /\ booked' = booked /\ ats' = ats
      /\ DOMAIN left = Contexts /\ DOMAIN free = Contexts
      /\ DOMAIN series = Contexts /\ DOMAIN deltas = Contexts
      /\ DOMAIN status = Contexts /\ DOMAIN routes = Contexts
  BY <1>1 DEF input, SchedulesInv, FailsInv
<1>4. a \in {"round1", "round2"} /\ a \in Searching /\ (a = "round1" <=> r = 1)
  BY DEF Searching
<1> HIDE DEF a
<1>5. /\ \A d \in Contexts : d # c => /\ left'[d] = left[d] /\ free'[d] = free[d]
                                       /\ series'[d] = series[d] /\ deltas'[d] = deltas[d]
      /\ left'[c] = end.left /\ series'[c] = end.series
  <2>1. CASE GivesUp(c, r, u) \/ FindsOnly(c, r, u)
    <3>1. free' = [free EXCEPT ![c] = end.free] /\ deltas' = deltas
      BY <2>1 DEF GivesUp, FindsOnly
    <3> HIDE DEF end
    <3>2. QED
      BY <1>1, <1>3, <3>1
  <2>2. CASE FindsAndHolds(c, r, u)
    <3>1. \E f, x : free' = [free EXCEPT ![c] = f] /\ deltas' = [deltas EXCEPT ![c] = x]
      BY <2>2, Zenon DEF FindsAndHolds, Commit
    <3> HIDE DEF end
    <3>2. QED
      BY <1>1, <1>3, <3>1
  <2>3. QED
    BY <1>1, <2>1, <2>2
<1>6. /\ \A d \in Contexts : d # c => todo'[d] = todo[d] /\ status'[d] = status[d]
      /\ DOMAIN status' = Contexts
  <2>1. Goes(c) \/ Fails(c)
    BY <1>1 DEF GivesUp, FindsOnly, FindsAndHolds
  <2>2. QED
    BY <1>2, <1>3, <2>1, TurnOf
<1>7. ASSUME Len(request) = 1
      PROVE  up' /\ AloneInv(c)'
  <2>1. up /\ StageInv(c) /\ FreeInv(c) /\ GoneInv(c) /\ BookedInv(c)
    BY <1>7 DEF FailsInv, AloneInv
  <2>2. /\ u = 1 /\ status[c] = "running" /\ FlexBandwidth(c, 1) # 0 /\ todo[c] \in {AtRound1, AtRound2}
        /\ Tail(todo[c]) = IF r = 1 THEN AtReorder ELSE AtFinalize
    <3>1. CASE a = "round1"
      <4>1. Running(c, "round1", u)
        BY <1>1, <3>1
      <4>2. QED
        BY <1>4, <2>1, <3>1, <4>1, RunsAt
    <3>2. CASE a = "round2"
      <4>1. Running(c, "round2", u)
        BY <1>1, <3>2
      <4>2. "round2" # "round1"
        OBVIOUS
      <4>3. QED
        BY <1>4, <2>1, <3>2, <4>1, <4>2, RunsAt
    <3>3. QED
      BY <1>4, <3>1, <3>2
  <2>13. OnlyBooked(c) /\ SumsBooked(c)
    BY <2>1, <2>2, StagesDiffer, Stages DEF BookedInv
  <2>3. FlexBandwidth(c, 1) > 0
    BY <1>7, <2>2, OneRequest, FlexTyped
  <2>4. ~ request[1].window => \A l \in left[c] : free[c][l] = Capacity[l]
    BY <2>1, <2>2, StagesDiffer, Stages DEF FreeInv
  <2>5. OneTime(c) => \A l \in Links \ left[c] : ~ LinkFits(c, l, ats[c][1])
    BY <2>1, <2>2 DEF GoneInv
  <2>6. /\ FlexBandwidth(c, 1)' = FlexBandwidth(c, 1) /\ Duration(c, 1)' = Duration(c, 1)
        /\ OneTime(c)' = OneTime(c)
    BY <1>3 DEF FlexBandwidth, Duration, Volume, OneTime
  <2>7. /\ \A l, s : LinkFits(c, l, s)' = LinkFits(c, l, s)
        /\ \A p, s : FitsAt(c, p, s)' = FitsAt(c, p, s)
    BY <1>3, <2>6 DEF LinkFits, FitsAt
  <2>8. OneTime(c) => ~ request[1].window
    BY DEF OneTime
  <2> DEFINE gone == \A l \in Links \ end.left : ~ LinkFits(c, l, ats[c][1])
  <2>9. OneTime(c) => gone
    BY <1>7, <2>2, <2>3, <2>4, <2>5, <2>8, <2>13, OnlyMisfitsGo
  <2>10. CASE GivesUp(c, r, u)
    <3>1. todo'[c] = <<>> /\ status'[c] = "failed"
      BY <2>10, TurnOf DEF GivesUp
    <3>2. StageInv(c)'
      BY <2>6, <3>1, Stages DEF StageInv
    <3>3. FreeInv(c)' /\ GoneInv(c)' /\ BookedInv(c)'
      BY <3>1, Stages DEF FreeInv, GoneInv, BookedInv
    <3>4. ASSUME OneTime(c), NEW i \in DOMAIN Routes[1]
          PROVE  ~ FitsAt(c, Routes[1][i], ats[c][1])
      BY <1>7, <2>2, <2>3, <2>4, <2>5, <2>8, <2>10, <2>13, <3>4, NoRouteFits
    <3>5. ReasonInv(c)'
      BY <1>3, <2>6, <2>7, <3>4 DEF ReasonInv
    <3>6. QED
      BY <1>2, <2>1, <3>2, <3>3, <3>5 DEF AloneInv
  <2>11. CASE ~ GivesUp(c, r, u)
    <3>1. Goes(c) /\ (FindsOnly(c, r, u) \/ (r = 2 /\ FindsAndHolds(c, r, u)))
      BY <1>1, <2>11 DEF FindsOnly, FindsAndHolds
    <3>2. todo'[c] = IF r = 1 THEN AtReorder ELSE AtFinalize
      BY <2>2, <3>1, TurnOf
    <3>3. status'[c] = "running"
      <4>1. ~ Fails(c)
        <5>1. Tail(todo[c]) # <<>>
          BY <2>2, Stages
        <5>2. QED
          BY <3>1, <5>1, TurnOf
      <4>2. QED
        BY <1>2, <2>2, <4>1
    <3>4. StageInv(c)'
      BY <2>2, <2>6, <3>2, <3>3, Stages, StagesDiffer DEF StageInv
    <3>5. ReasonInv(c)'
      BY <3>3 DEF ReasonInv
    <3>6. FreeInv(c)' /\ GoneInv(c)' /\ BookedInv(c)'
      <4>1. CASE r = 1
        <5>1. FindsOnly(c, r, u) /\ todo'[c] = AtReorder
          BY <3>1, <3>2, <4>1
        <5>2. ~ end.thrown /\ free'[c] = end.free /\ deltas' = deltas
          BY <1>3, <5>1 DEF FindsOnly
        <5>3. /\ end.left \subseteq left[c]
              /\ \A l \in end.left : end.free[l] = free[c][l]
              /\ \A l \in Links : end.series[l] \in {series[c][l], SeriesOf(deltas[c][l])}
          <6>1. RequestTyped /\ LinksTyped(c) /\ FlexBandwidth(c, u) > 0
            BY <1>1, <1>4, RunningStep
          <6>2. ats[c] \in Seq(Int) /\ Len(ats[c]) \in 0 .. Len(ats[c])
            BY DEF SchedulesInv
          <6>3. end \in Tried(c)
            BY <6>1, <6>2, TimePointsGiveBack DEF AfterAll
          <6> HIDE DEF end
          <6>4. QED
            BY <5>2, <6>3 DEF Tried
        <5> HIDE DEF end, gone
        <5>4. FreeInv(c)'
          BY <1>3, <1>5, <2>4, <5>2, <5>3 DEF FreeInv
        <5>5. GoneInv(c)'
          BY <1>3, <1>5, <2>6, <2>7, <2>9, <5>1, StagesDiffer DEF GoneInv, gone
        <5>6. BookedInv(c)'
          BY <1>3, <1>5, <2>13, <5>2, <5>3, StayBooked DEF BookedInv
        <5>7. QED
          BY <5>4, <5>5, <5>6
      <4>2. CASE r # 1
        <5>1. todo'[c] = AtFinalize
          BY <3>2, <4>2
        <5>2. QED
          BY <5>1, StagesDiffer DEF FreeInv, GoneInv, BookedInv
      <4>3. QED
        BY <4>1, <4>2
    <3>7. QED
      BY <1>2, <2>1, <3>4, <3>5, <3>6 DEF AloneInv
  <2>12. QED
    BY <2>10, <2>11
<1>8. \A d \in Contexts : d # c =>
           /\ todo'[d] = todo[d] /\ status'[d] = status[d] /\ left'[d] = left[d]
           /\ free'[d] = free[d] /\ routes'[d] = routes[d] /\ ats'[d] = ats[d]
           /\ series'[d] = series[d] /\ deltas'[d] = deltas[d]
  BY <1>2, <1>3, <1>5, <1>6
<1>9. DOMAIN routes' = Contexts
  BY <1>2, <1>3
<1>10. QED
  BY <1>3, <1>6, <1>7, <1>8, <1>9, OneContextFails

\* After the first round, the one sub-path has its second round.
LEMMA ReorderFails ==
  ASSUME SchedulesInv, FailsInv, NEW c \in Contexts, ReorderPaths(c)
  PROVE  FailsInv'
<1> DEFINE next == Append(SecondRound, Step("finalize", 0))
<1>1. /\ Running(c, "reorder", 0)
      /\ IF \A u \in DOMAIN request : FlexBandwidth(c, u) # 0
         THEN todo' = [todo EXCEPT ![c] = next] /\ UNCHANGED up
         ELSE up' = FALSE /\ UNCHANGED todo
      /\ UNCHANGED <<input, status, left, free, series, deltas, routes, ats>>
  BY Zenon DEF ReorderPaths, tewg
<1>2. /\ DOMAIN todo = Contexts /\ DOMAIN status = Contexts /\ DOMAIN routes = Contexts
  BY DEF SchedulesInv, FailsInv
<1>3. /\ request' = request /\ booked' = booked /\ left' = left /\ free' = free
      /\ status' = status /\ routes' = routes /\ ats' = ats
      /\ series' = series /\ deltas' = deltas
  BY <1>1 DEF input
<1>4. ASSUME Len(request) = 1
      PROVE  next = AtRound2
  <2>1. DOMAIN request = {1}
    BY <1>4, OneRequest
  <2>2. SecondRound = <<Step("round2", 1)>>
    <3> DEFINE one == <<Step("round2", 1)>>
    <3>1. DOMAIN one = {1} /\ one[1] = Step("round2", 1) /\ one = [u \in {1} |-> one[u]]
      OBVIOUS
    <3>2. QED
      BY <2>1, <3>1 DEF SecondRound
  <2>3. ASSUME NEW x, NEW y
        PROVE  Append(<<x>>, y) = <<x, y>>
    <3> DEFINE S == {x, y}
               r == Append(<<x>>, y)
    <3>1. <<x>> \in Seq(S) /\ Len(<<x>>) = 1 /\ y \in S
      OBVIOUS
    <3>2. r \in Seq(S) /\ Len(r) = 2 /\ r[2] = y /\ r[1] = x
      <4>1. /\ r \in Seq(S) /\ Len(r) = Len(<<x>>) + 1 /\ r[Len(<<x>>) + 1] = y
            /\ \A i \in 1 .. Len(<<x>>) : r[i] = <<x>>[i]
        BY <3>1, AppendProperties
      <4> HIDE DEF r
      <4>2. QED
        BY <3>1, <4>1
    <3> HIDE DEF r
    <3>3. QED
      <4>1. <<x, y>> \in Seq(S) /\ Len(<<x, y>>) = 2 /\ <<x, y>>[1] = x /\ <<x, y>>[2] = y
        OBVIOUS
      <4>2. \A i \in 1 .. Len(r) : r[i] = <<x, y>>[i]
        BY <3>2, <4>1
      <4>3. r = <<x, y>>
        BY <3>2, <4>1, <4>2, SeqEqual
      <4>4. QED
        BY <4>3 DEF r
  <2>4. QED
    BY <2>2, <2>3 DEF AtRound2
<1> HIDE DEF next
<1>5. \A d \in Contexts : d # c => todo'[d] = todo[d]
  BY <1>1, <1>2
<1>6. ASSUME Len(request) = 1
      PROVE  up' /\ AloneInv(c)'
  <2>1. up /\ StageInv(c) /\ FreeInv(c) /\ GoneInv(c) /\ BookedInv(c)
    BY <1>6 DEF FailsInv, AloneInv
  <2>2. todo[c] = AtReorder /\ status[c] = "running" /\ FlexBandwidth(c, 1) # 0
    BY <1>1, <2>1, RunsAt
  <2>3. up' = up /\ todo'[c] = AtRound2
    <3>1. \A u \in DOMAIN request : FlexBandwidth(c, u) # 0
      BY <1>6, <2>2, OneRequest
    <3>2. QED
      BY <1>1, <1>2, <1>4, <1>6, <3>1
  <2>4. /\ FlexBandwidth(c, 1)' = FlexBandwidth(c, 1) /\ Duration(c, 1)' = Duration(c, 1)
        /\ OneTime(c)' = OneTime(c)
    BY <1>3 DEF FlexBandwidth, Duration, Volume, OneTime
  <2>5. \A l, s : LinkFits(c, l, s)' = LinkFits(c, l, s)
    BY <1>3, <2>4 DEF LinkFits
  <2>6. StageInv(c)'
    BY <1>3, <2>2, <2>3, <2>4, StagesDiffer DEF StageInv
  <2>7. FreeInv(c)'
    BY <1>3, <2>1, <2>2, StagesDiffer DEF FreeInv
  <2>8. GoneInv(c)'
    BY <1>3, <2>1, <2>2, <2>3, <2>4, <2>5, StagesDiffer DEF GoneInv
  <2>9. ReasonInv(c)'
    BY <1>3, <2>2 DEF ReasonInv
  <2>10. BookedInv(c)'
    <3>1. OnlyBooked(c) /\ SumsBooked(c)
      BY <2>1, <2>2, StagesDiffer DEF BookedInv
    <3>2. QED
      BY <1>3, <3>1, StayBooked DEF BookedInv
  <2>11. QED
    BY <2>1, <2>3, <2>6, <2>7, <2>8, <2>9, <2>10 DEF AloneInv
<1>7. QED
  BY <1>2, <1>3, <1>5, <1>6, OneContextFails

LEMMA FinalizeFails ==
  ASSUME SchedulesInv, FailsInv, NEW c \in Contexts, FinalizeServiceTopology(c)
  PROVE  FailsInv'
<1>1. /\ Running(c, "finalize", 0) /\ Goes(c)
      /\ UNCHANGED <<input, status, up, left, free, series, deltas, routes, ats>>
  BY Zenon DEF FinalizeServiceTopology, tewg
<1>2. /\ request' = request /\ booked' = booked /\ left' = left /\ free' = free
      /\ status' = status /\ routes' = routes /\ ats' = ats /\ up' = up
      /\ series' = series /\ deltas' = deltas
      /\ DOMAIN status = Contexts /\ DOMAIN routes = Contexts
  BY <1>1 DEF input, FailsInv
<1>3. todo'[c] = Tail(todo[c]) /\ \A d \in Contexts : d # c => todo'[d] = todo[d]
  BY <1>1, TurnOf
<1>4. ASSUME Len(request) = 1
      PROVE  up' /\ AloneInv(c)'
  <2>1. up /\ StageInv(c)
    BY <1>4 DEF FailsInv, AloneInv
  <2>2. todo'[c] = <<>> /\ status[c] = "running"
    BY <1>1, <1>3, <2>1, RunsAt
  <2>3. StageInv(c)' /\ FreeInv(c)' /\ GoneInv(c)' /\ BookedInv(c)'
    BY <1>2, <2>2, StagesDiffer DEF StageInv, FreeInv, GoneInv, BookedInv
  <2>4. ReasonInv(c)'
    BY <1>2, <2>2 DEF ReasonInv
  <2>5. QED
    BY <1>2, <2>1, <2>3, <2>4 DEF AloneInv
<1>5. QED
  BY <1>2, <1>3, <1>4, OneContextFails

LEMMA CountFails ==
  ASSUME FailsInv, NEW c \in Contexts, NEW u, CountOfPrunedLink(c, u)
  PROVE  FailsInv'
<1>1. request' = request /\ status' = status /\ routes' = routes
  BY Zenon DEF CountOfPrunedLink, input
<1>2. Len(request) # 1
  BY NothingPruned
<1>3. QED
  BY <1>1, <1>2 DEF FailsInv

LEMMA FailsStutter ==
  ASSUME FailsInv, UNCHANGED roundsVars
  PROVE  FailsInv'
<1>1. /\ request' = request /\ booked' = booked /\ left' = left /\ free' = free
      /\ status' = status /\ routes' = routes /\ ats' = ats /\ up' = up /\ todo' = todo
      /\ series' = series /\ deltas' = deltas
  BY DEF roundsVars, input, tewg
<1>2. ASSUME Len(request) = 1, NEW c \in Contexts
      PROVE  AloneInv(c)'
  <2>1. AloneInv(c)
    BY <1>2 DEF FailsInv
  <2>2. FlexBandwidth(c, 1)' = FlexBandwidth(c, 1)
    BY <1>1 DEF FlexBandwidth
  <2>3. Duration(c, 1)' = Duration(c, 1)
    BY <1>1, <2>2 DEF Duration, Volume
  <2>4. OneTime(c)' = OneTime(c)
    BY <1>1, <2>3 DEF OneTime
  <2>5. StageInv(c)'
    BY <1>1, <2>1, <2>2 DEF AloneInv, StageInv
  <2>6. FreeInv(c)'
    BY <1>1, <2>1 DEF AloneInv, FreeInv
  <2>7. GoneInv(c)'
    BY <1>1, <2>1, <2>2, <2>3, <2>4 DEF AloneInv, GoneInv, LinkFits
  <2>8. ReasonInv(c)'
    BY <1>1, <2>1, <2>2, <2>3, <2>4 DEF AloneInv, ReasonInv, FitsAt
  <2>9. BookedInv(c)'
    <3>1. \A l : AsBooked(l)' = AsBooked(l)
      BY <1>1 DEF AsBooked
    <3>2. QED
      BY <1>1, <2>1, <3>1 DEF AloneInv, BookedInv, OnlyBooked, SumsBooked
  <2>10. QED
    BY <2>5, <2>6, <2>7, <2>8, <2>9 DEF AloneInv
<1>3. QED
  BY <1>1, <1>2 DEF FailsInv

LEMMA FailsStep ==
  ASSUME SchedulesInv, FailsInv, [RoundsNext]_roundsVars
  PROVE  FailsInv'
<1>1. ASSUME NEW c \in Contexts, NEW u \in DOMAIN request, ComputeKSP(c, u)
      PROVE  FailsInv'
  BY <1>1, SearchFails
<1>2. ASSUME NEW c \in Contexts, NEW u \in DOMAIN request, CreateOrderedATS(c, u)
      PROVE  FailsInv'
  BY <1>2, TimesFail
<1>3. ASSUME NEW c \in Contexts, NEW u \in DOMAIN request, CountOfPrunedLink(c, u)
      PROVE  FailsInv'
  BY <1>3, CountFails
<1>4. ASSUME NEW c \in Contexts, NEW u \in DOMAIN request, NEW r \in 1 .. 2,
             ComputeSchedulesWithKSP(c, r, u)
      PROVE  FailsInv'
  BY <1>4, ScheduleFails
<1>5. ASSUME NEW c \in Contexts, ReorderPaths(c)
      PROVE  FailsInv'
  BY <1>5, ReorderFails
<1>6. ASSUME NEW c \in Contexts, FinalizeServiceTopology(c)
      PROVE  FailsInv'
  BY <1>6, FinalizeFails
<1>7. CASE UNCHANGED roundsVars
  BY <1>7, FailsStutter
<1>8. CASE RoundsNext
  BY <1>1, <1>2, <1>3, <1>4, <1>5, <1>6, <1>8, Zenon DEF RoundsNext
<1>9. QED
  BY <1>7, <1>8

LEMMA FailuresHaveReasons ==
  ASSUME FailsInv
  PROVE  FailsForAReason
<1> SUFFICES ASSUME Len(request) = 1
             PROVE  /\ up
                    /\ \A c \in Contexts :
                         (/\ status[c] = "failed" /\ ~ request[1].window
                          /\ Len(ats[c]) = 1 /\ Duration(c, 1) > 0)
                           => \A i \in DOMAIN Routes[1] : ~ FitsAt(c, Routes[1][i], ats[c][1])
  BY Zenon DEF FailsForAReason
<1>1. up /\ \A c \in Contexts : ReasonInv(c)
  BY DEF FailsInv, AloneInv
<1>2. QED
  BY <1>1 DEF ReasonInv, OneTime

\* A request of one sub-path never ends the process, and, when it has no window and one time
\* to try, it fails only if every route of it has a link that is excluded or that does not
\* carry the bandwidth beside its reservations then: no link that fits is pruned for what an
\* earlier action left behind (Action_ComputeKSP, Action_CreateOrderedATS and
\* Action_ComputeSchedulesWithKSP of compute_actions.cc).
THEOREM FailsRightly == RoundsSpec => []FailsForAReason
<1>1. RoundsInit => SchedulesInv /\ FailsInv
  BY SchedulesInitOK, FailsInitOK
<1>2. SchedulesInv /\ FailsInv /\ [RoundsNext]_roundsVars => FailsInv'
  BY FailsStep
<1>3. FailsInv => FailsForAReason
  BY FailuresHaveReasons
<1>4. QED
  BY <1>1, <1>2, <1>3, SchedulesKeepTypes, PTL DEF RoundsSpec

=============================================================================
