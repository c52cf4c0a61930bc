---------------------------- MODULE MessagingProofs ----------------------------
(***************************************************************************)
(* The transmit service and the table of messages, for any number of       *)
(* requests, foreign packets, copies and restarts, any airtimes, and any   *)
(* limit and window of the duty cycle:                                     *)
(*                                                                         *)
(*   AnsweredIsStored     a message the dashboard was told is sent is on   *)
(*                        disk until its conversation is deleted;          *)
(*   DutyBound            the airtime in a window is at most the limit and *)
(*                        a packet for each further call in progress;      *)
(*   AirtimeAccounted     nothing on the air is forgotten by the budget;   *)
(*   OneRowUnlessOverlap  a packet has one row, which counts what was      *)
(*                        heard of it.                                     *)
(*                                                                         *)
(* The budget needs what a sum over a set of places in a sequence is, and  *)
(* when it grows: the lemmas in the middle, by induction over finite sets. *)
(***************************************************************************)
EXTENDS Messaging, FiniteSetTheorems, WellFoundedInduction, TLAPS

\* The rows are records of three fields, whatever is in them.
IsRow(r) == r = [id |-> r.id, packet |-> r.packet, count |-> r.count]

Has(t, p) == RowsOf(t, p) # {}

Stops == {"idle", "sending", "lookup", "insert", "commit", "done"}

Types == /\ \A r \in table \cup disk : IsRow(r)
         /\ route \in [Chats -> Stops]
         /\ answered \subseteq Chats

\* The transmit service has a call of a request only while the request awaits
\* it.
Sending == /\ route \in [Chats -> Stops]
           /\ stage \in [Senders -> Stages]
           /\ \A s \in Chats : stage[s] # "idle" => route[s] = "sending"

\* A request that is answered has nothing left to do: it does not insert, and
\* so does not take its conversation out of the deleted ones.
AnsweredIsDone == \A s \in answered : route[s] = "done"

\* What is answered is in both tables, so neither a commit nor a restart loses
\* it; what awaits its commit is in the table the commit writes.
InBoth == \A s \in answered \ deleted : Has(table, s) /\ Has(disk, s)
Inserted == \A s \in Chats \ deleted : route[s] = "commit" => Has(table, s)

TablesInv == Types /\ AnsweredIsDone /\ InBoth /\ Inserted

IInv == Sending /\ TablesInv

-----------------------------------------------------------------------------
\* A packet has a row, or it has none.
LEMMA Rows == \A t, p : Has(t, p) <=> \E r \in t : r.packet = p
  BY DEF Has, RowsOf

\* Nothing is answered or in a table when the service first starts.
LEMMA InitInv == MsgInit => IInv
<1> SUFFICES ASSUME MsgInit PROVE IInv
  OBVIOUS
<1>1. Sending
  BY MessagingAssumption
  DEF MessagingAssumption, MsgInit, Init, Sending, Stops, Stages
<1>2. TablesInv
  BY DEF MsgInit, TablesInv, Types, AnsweredIsDone, InBoth, Inserted, Stops
<1> QED
  BY <1>1, <1>2 DEF IInv

-----------------------------------------------------------------------------
(* The requests and their calls.                                           *)

\* The calls of TxService belong to requests that await them.
LEMMA SendingInv == Sending /\ [MsgNext]_allVars => Sending'
<1> SUFFICES ASSUME Sending, [MsgNext]_allVars PROVE Sending'
  OBVIOUS
<1> USE MessagingAssumption DEF MessagingAssumption, Sending, Stops, Stages, Goto
<1>1. ASSUME NEW s \in Chats, RouteSteps(s) PROVE Sending'
  <2>1. ASSUME NEW ms \in Airtimes, Send(s, ms) PROVE Sending'
    BY <2>1 DEF Send, Request
  <2>2. CASE SendFails(s)
    BY <2>2 DEF SendFails, Refuse, EmitFails, Return
  <2>3. CASE OnTheAir(s)
    BY <2>3 DEF OnTheAir, Emit
  <2>4. CASE Transmitted(s)
    BY <2>4 DEF Transmitted, Record, Return
  <2>5. CASE RouteLooksUp(s)
    BY <2>5 DEF RouteLooksUp, vars
  <2>6. CASE RouteInserts(s)
    BY <2>6 DEF RouteInserts, vars
  <2>7. CASE RouteAnswers(s)
    BY <2>7 DEF RouteAnswers, vars
  <2> QED
    BY <1>1, <2>1, <2>2, <2>3, <2>4, <2>5, <2>6, <2>7 DEF RouteSteps
<1>2. ASSUME NEW c \in Copies, TaskSteps(c) PROVE Sending'
  BY <1>2 DEF TaskSteps, Hear, TaskLooksUp, TaskChecks, TaskInserts,
              TaskUpdates, TaskEnds, vars
<1>3. ASSUME NEW p \in Packets, DeleteConversation(p) PROVE Sending'
  BY <1>3 DEF DeleteConversation, vars
<1>4. CASE ServiceRestarts
  BY <1>4 DEF ServiceRestarts, Restart
<1>5. CASE Others
  <2>1. route' = route
    BY <1>5 DEF Others, messageVars
  <2>2. ASSUME NEW s \in Senders \ Chats,
               \/ \E ms \in Airtimes : Request(s, ms)
               \/ Refuse(s) \/ Emit(s) \/ EmitFails(s) \/ Record(s)
        PROVE  Sending'
    BY <2>1, <2>2 DEF Request, Refuse, Emit, EmitFails, Record, Return
  <2>3. ASSUME NEW s \in Senders, Approve(s) PROVE Sending'
    BY <2>1, <2>3 DEF Approve
  <2>4. CASE Observe \/ Tick
    BY <2>1, <2>4 DEF Observe, Tick
  <2> QED
    BY <1>5, <2>2, <2>3, <2>4 DEF Others
<1>6. CASE UNCHANGED allVars
  BY <1>6 DEF allVars, vars, messageVars
<1> QED
  BY <1>1, <1>2, <1>3, <1>4, <1>5, <1>6 DEF MsgNext

-----------------------------------------------------------------------------
(* The tables.                                                             *)

\* A step that leaves the table and the answers, and where no route leaves its
\* end or comes to a commit ...
Unmoving == /\ table' = table /\ disk' \in {disk, table}
            /\ answered' = answered /\ deleted' = deleted
            /\ route' \in [Chats -> Stops]
            /\ \A s \in Chats :
                  \/ route'[s] = route[s]
                  \/ route[s] # "done" /\ route'[s] # "commit"

\* ... keeps the invariant.
LEMMA Unmoved == TablesInv /\ Unmoving => TablesInv'
<1> SUFFICES ASSUME TablesInv, Unmoving PROVE TablesInv'
  OBVIOUS
<1> USE DEF Unmoving
<1> USE DEF TablesInv
<1>1. Types'
  BY DEF Types
<1>2. AnsweredIsDone'
  BY DEF Types, AnsweredIsDone
<1>3. InBoth'
  BY DEF InBoth, Has, RowsOf
<1>4. Inserted'
  BY DEF Inserted, Has, RowsOf
<1> QED
  BY <1>1, <1>2, <1>3, <1>4

\* The route that sends: insert, commit and answer.
LEMMA RouteInv ==
    ASSUME Sending, TablesInv, NEW s \in Chats, RouteSteps(s)
    PROVE  TablesInv'
<1> USE MessagingAssumption DEF MessagingAssumption, Goto
<1>0. route \in [Chats -> Stops]
  BY DEF TablesInv, Types
<1>1. ASSUME NEW ms \in Airtimes, Send(s, ms) PROVE TablesInv'
  BY <1>0, <1>1, Unmoved DEF Unmoving, Send, Stops
<1>2. CASE SendFails(s)
  BY <1>0, <1>2, Unmoved DEF Unmoving, SendFails, Stops
<1>3. CASE OnTheAir(s)
  BY <1>0, <1>3, Unmoved DEF Unmoving, OnTheAir
<1>4. CASE Transmitted(s)
  <2>1. route[s] = "sending"
    BY <1>4 DEF Transmitted, Record, Sending
  <2> QED
    BY <1>0, <1>4, <2>1, Unmoved DEF Unmoving, Transmitted, Stops
<1>5. CASE RouteLooksUp(s)
  BY <1>0, <1>5, Unmoved DEF Unmoving, RouteLooksUp, Stops
<1>6. CASE RouteInserts(s)
  <2> DEFINE new == [id |-> lastId + 1, packet |-> s, count |-> 1]
  <2>1. /\ table' = table \cup {new} /\ disk' = disk
        /\ route[s] = "insert" /\ route' = [route EXCEPT ![s] = "commit"]
        /\ answered' = answered /\ deleted' = deleted \ {s}
    BY <1>6 DEF RouteInserts, Insert
  <2>2. IsRow(new) /\ new.packet = s
    BY DEF IsRow
  <2> HIDE DEF new
  <2>3. Types'
    BY <1>0, <2>1, <2>2 DEF TablesInv, Types, Stops
  <2>4. s \notin answered
    BY <2>1 DEF TablesInv, AnsweredIsDone
  <2>5. AnsweredIsDone'
    BY <1>0, <2>1, <2>4 DEF TablesInv, AnsweredIsDone, Types
  <2>6. InBoth'
    BY <2>1, <2>4 DEF TablesInv, InBoth, Has, RowsOf
  <2>7. Inserted'
    BY <1>0, <2>1, <2>2 DEF TablesInv, Inserted, Has, RowsOf
  <2> QED
    BY <2>3, <2>5, <2>6, <2>7 DEF TablesInv
<1>7. CASE RouteAnswers(s)
  <2>1. /\ table' = table /\ disk' = table
        /\ route[s] = "commit" /\ route' = [route EXCEPT ![s] = "done"]
        /\ answered' = answered \cup {s} /\ deleted' = deleted
    BY <1>7 DEF RouteAnswers
  <2>2. Types'
    BY <1>0, <2>1 DEF TablesInv, Types, Stops
  <2>3. AnsweredIsDone'
    BY <1>0, <2>1 DEF TablesInv, AnsweredIsDone, Types
  <2>4. InBoth'
    BY <2>1 DEF TablesInv, InBoth, Inserted, Has, RowsOf
  <2>5. Inserted'
    BY <1>0, <2>1 DEF TablesInv, Inserted, Has, RowsOf
  <2> QED
    BY <2>2, <2>3, <2>4, <2>5 DEF TablesInv
<1> QED
  BY <1>1, <1>2, <1>3, <1>4, <1>5, <1>6, <1>7 DEF RouteSteps

\* The tasks that store what was heard touch no row of an answered message
\* but to count it.
LEMMA TaskInv ==
    ASSUME TablesInv, NEW c \in Copies, TaskSteps(c)
    PROVE  TablesInv'
<1>0. route \in [Chats -> Stops]
  BY DEF TablesInv, Types
<1>1. CASE Hear(c)
  BY <1>0, <1>1, Unmoved DEF Unmoving, Hear
<1>2. CASE TaskLooksUp(c)
  BY <1>0, <1>2, Unmoved DEF Unmoving, TaskLooksUp
<1>3. CASE TaskChecks(c)
  BY <1>0, <1>3, Unmoved DEF Unmoving, TaskChecks
<1>4. CASE TaskInserts(c)
  <2> DEFINE new == [id |-> lastId + 1, packet |-> c[1], count |-> 1]
  <2>1. /\ table' = table \cup {new} /\ disk' = disk /\ route' = route
        /\ answered' = answered /\ deleted' = deleted
    BY <1>4 DEF TaskInserts, Insert
  <2>2. IsRow(new)
    BY DEF IsRow
  <2> HIDE DEF new
  <2> QED
    BY <2>1, <2>2
    DEF TablesInv, Types, AnsweredIsDone, InBoth, Inserted, Has, RowsOf
<1>5. CASE TaskUpdates(c)
  <2> DEFINE n == task[c].count
             Moved(r) == IF r.id = task[c].row THEN [r EXCEPT !.count = n] ELSE r
  <2>1. /\ table' = {Moved(r) : r \in table} /\ disk' = disk /\ route' = route
        /\ answered' = answered /\ deleted' = deleted
    BY <1>5 DEF TaskUpdates
  <2> HIDE DEF n
  <2>2. \A r \in table : IsRow(Moved(r)) /\ Moved(r).packet = r.packet
    BY DEF TablesInv, Types, IsRow
  <2> HIDE DEF Moved
  <2>3. Types'
    BY <2>1, <2>2 DEF TablesInv, Types
  <2>4. \A p : Has(table, p) => Has(table', p)
    BY <2>1, <2>2 DEF Has, RowsOf
  <2> QED
    BY <2>1, <2>3, <2>4 DEF TablesInv, AnsweredIsDone, InBoth, Inserted
<1>6. CASE TaskEnds(c)
  BY <1>0, <1>6, Unmoved DEF Unmoving, TaskEnds
<1> QED
  BY <1>1, <1>2, <1>3, <1>4, <1>5, <1>6 DEF TaskSteps

\* A deletion takes the rows of its conversation only.
LEMMA DeleteInv ==
    ASSUME TablesInv, NEW p \in Packets, DeleteConversation(p)
    PROVE  TablesInv'
<1>1. /\ table' = table \ RowsOf(table, p) /\ disk' \in {disk, table'}
      /\ deleted' = deleted \cup {p}
      /\ answered' = answered /\ route' = route
  BY DEF DeleteConversation
<1>2. \A q : q # p /\ Has(table, q) => Has(table', q)
  BY <1>1 DEF Has, RowsOf
<1> QED
  BY <1>1, <1>2 DEF TablesInv, Types, AnsweredIsDone, InBoth, Inserted

\* A restart reads the table back from disk.
LEMMA RestartInv == ASSUME TablesInv, ServiceRestarts PROVE TablesInv'
<1>1. /\ table' = disk /\ disk' = disk
      /\ answered' = answered /\ deleted' = deleted
      /\ route' = [s \in Chats |-> IF route[s] = "idle" THEN "idle" ELSE "done"]
  BY DEF ServiceRestarts
<1>2. Types'
  BY <1>1 DEF TablesInv, Types, Stops
<1>3. AnsweredIsDone'
  BY <1>1 DEF TablesInv, Types, AnsweredIsDone
<1>4. InBoth'
  BY <1>1 DEF TablesInv, InBoth
<1>5. Inserted'
  BY <1>1 DEF Inserted
<1> QED
  BY <1>2, <1>3, <1>4, <1>5 DEF TablesInv

\* Every action keeps the invariant.
LEMMA NextInv == IInv /\ [MsgNext]_allVars => IInv'
<1> SUFFICES ASSUME Sending, TablesInv, [MsgNext]_allVars PROVE TablesInv'
  BY SendingInv DEF IInv
<1>1. ASSUME NEW s \in Chats, RouteSteps(s) PROVE TablesInv'
  BY <1>1, RouteInv
<1>2. ASSUME NEW c \in Copies, TaskSteps(c) PROVE TablesInv'
  BY <1>2, TaskInv
<1>3. ASSUME NEW p \in Packets, DeleteConversation(p) PROVE TablesInv'
  BY <1>3, DeleteInv
<1>4. CASE ServiceRestarts
  BY <1>4, RestartInv
<1>5. CASE Others \/ UNCHANGED allVars
  <2>1. UNCHANGED messageVars
    BY <1>5 DEF Others, allVars
  <2> QED
    BY <2>1, Unmoved DEF Unmoving, messageVars, TablesInv, Types
<1> QED
  BY <1>1, <1>2, <1>3, <1>4, <1>5 DEF MsgNext

\* A message whose sending was answered with success is on disk until its
\* conversation is deleted, for any number of requests, copies, other nodes'
\* packets and restarts (send_message and save_sent against the tasks of
\* on_text_packet).
THEOREM AnsweredStaysStored == MsgSpec => []AnsweredIsStored
<1>1. IInv => AnsweredIsStored
  BY DEF IInv, TablesInv, InBoth, Has, AnsweredIsStored
<1> QED
  BY <1>1, InitInv, NextInv, PTL DEF MsgSpec

-----------------------------------------------------------------------------
(* Sums over finite sets.                                                  *)

Some(s) == CHOOSE y \in s : TRUE

Solves(f, g, S) ==
  g = [s \in SUBSET S |-> IF s = {} THEN 0
        ELSE f[Some(s)] + g[s \ {Some(s)}]]

\* The sum of the community modules is a CHOOSE over the functions that solve
\* its recursion.
LEMMA Unfold ==
  ASSUME NEW f, NEW S
  PROVE  SumFunctionOnSet(f, S) = (CHOOSE g : Solves(f, g, S))[S]
  BY Zenon DEF SumFunctionOnSet, FoldFunctionOnSet, MapThenFoldSet, Solves, Some

Minimal(s, D) == s \in D /\ \A t \in D : t \subseteq s => t = s

\* A set of finite sets has a smallest one: induction over finite sets.
LEMMA MinFinite ==
  ASSUME NEW S, NEW D, D \subseteq FiniteSubsetsOf(S), D # {}
  PROVE  \E s : Minimal(s, D)
<1>1. PICK s \in D : \A t \in D : ~ (<<t, s>> \in StrictSubsetOrdering(S))
  <2> HIDE DEF FiniteSubsetsOf, StrictSubsetOrdering
  <2> QED BY FS_StrictSubsetOrderingWellFounded, WFMin
<1>2. ASSUME NEW t \in D, t \subseteq s, t # s PROVE FALSE
  <2>1. t \in SUBSET S /\ s \in SUBSET S
    BY DEF FiniteSubsetsOf
  <2>2. <<t, s>> \in StrictSubsetOrdering(S)
    BY <1>2, <2>1 DEF StrictSubsetOrdering
  <2> HIDE DEF StrictSubsetOrdering
  <2> QED BY <1>1, <2>2
<1> QED
  BY <1>2 DEF Minimal

\* An element of what is not empty.
LEMMA SomeIn == \A s : s # {} => Some(s) \in s
  BY Zenon DEF Some

\* Two solutions of the recursion agree where both are defined.
LEMMA Unique ==
  ASSUME NEW f, NEW g, NEW h, NEW U, NEW V, IsFiniteSet(U),
         Solves(f, g, U), Solves(f, h, V)
  PROVE  \A s \in (SUBSET U) \cap (SUBSET V) : g[s] = h[s]
<1> DEFINE D == {s \in (SUBSET U) \cap (SUBSET V) : g[s] # h[s]}
<1> SUFFICES ASSUME D # {} PROVE FALSE
  OBVIOUS
<1>1. \A s \in D : IsFiniteSet(s)
  BY FS_Subset
<1>2. PICK s : Minimal(s, D)
  <2>1. D \subseteq FiniteSubsetsOf(U)
    BY <1>1 DEF FiniteSubsetsOf
  <2> HIDE DEF D
  <2> QED BY <2>1, MinFinite
<1> DEFINE t == s \ {Some(s)}
<1>0. s \in (SUBSET U) \cap (SUBSET V) /\ g[s] # h[s]
  BY <1>2 DEF Minimal
<1>3. g[s] = IF s = {} THEN 0 ELSE f[Some(s)] + g[t]
  BY Zenon, <1>0 DEF Solves
<1>4. h[s] = IF s = {} THEN 0 ELSE f[Some(s)] + h[t]
  BY Zenon, <1>0 DEF Solves
<1>5. s # {}
  BY <1>0, <1>3, <1>4
<1>6. t \subseteq s /\ t # s
  BY <1>5, SomeIn
<1>7. g[t] = h[t]
  BY <1>2, <1>6 DEF Minimal
<1> QED
  BY <1>0, <1>3, <1>4, <1>5, <1>7

\* The recursion has a solution over every finite set.
LEMMA Exists ==
  ASSUME NEW f, NEW S, IsFiniteSet(S)
  PROVE  \E g : Solves(f, g, S)
<1> DEFINE D == {s \in SUBSET S : ~ \E g : Solves(f, g, s)}
           G(s) == CHOOSE g : Solves(f, g, s)
           Sum(s) == G(s)[s]
<1> SUFFICES ASSUME D # {} PROVE FALSE
  OBVIOUS
<1>1. \A s \in D : IsFiniteSet(s)
  BY FS_Subset
<1>2. PICK U : Minimal(U, D)
  <2>1. D \subseteq FiniteSubsetsOf(S)
    BY <1>1 DEF FiniteSubsetsOf
  <2> HIDE DEF D
  <2> QED BY <2>1, MinFinite
<1>0. U \in D /\ U \in SUBSET S
  BY <1>2 DEF Minimal
<1>3. \A s \in SUBSET U : s # U => Solves(f, G(s), s)
  <2> SUFFICES ASSUME NEW s \in SUBSET U, s # U PROVE Solves(f, G(s), s)
    OBVIOUS
  <2>1. s \notin D
    BY <1>2 DEF Minimal
  <2>2. s \in SUBSET S
    BY <1>0
  <2> QED BY Zenon, <2>1, <2>2
<1>4. \A s \in SUBSET U : IsFiniteSet(s)
  BY <1>0, FS_Subset
<1> DEFINE g0 == [s \in SUBSET U |-> IF s = {} THEN 0
                    ELSE f[Some(s)] + Sum(s \ {Some(s)})]
<1>5. \A s \in SUBSET U : s # U => g0[s] = Sum(s)
  <2> SUFFICES ASSUME NEW s \in SUBSET U, s # U PROVE g0[s] = Sum(s)
    OBVIOUS
  <2> DEFINE t == s \ {Some(s)}
  <2>1. Sum(s) = IF s = {} THEN 0 ELSE f[Some(s)] + G(s)[t]
    <3>1. Solves(f, G(s), s)
      BY <1>3
    <3>2. s \in SUBSET s
      OBVIOUS
    <3> HIDE DEF G
    <3> QED BY Zenon, <3>1, <3>2 DEF Solves
  <2>2. t \subseteq s /\ t # U
    OBVIOUS
  <2>3. Solves(f, G(s), s) /\ Solves(f, G(t), t)
    BY <1>3, <2>2
  <2>4. G(s)[t] = G(t)[t]
    <3>1. t \in (SUBSET s) \cap (SUBSET t) /\ IsFiniteSet(s)
      BY <1>4
    <3> HIDE DEF G, t
    <3> QED BY <2>3, <3>1, Unique
  <2>5. g0[s] = IF s = {} THEN 0 ELSE f[Some(s)] + Sum(t)
    BY Zenon
  <2> QED
    BY Zenon, <2>1, <2>4, <2>5
<1>6. \A s \in SUBSET U : s # {} => s \ {Some(s)} \in SUBSET U /\ s \ {Some(s)} # U
  BY SomeIn
<1>7. g0 = [s \in SUBSET U |-> IF s = {} THEN 0
                    ELSE f[Some(s)] + g0[s \ {Some(s)}]]
  <2>1. \A s \in SUBSET U : s # {} => Sum(s \ {Some(s)}) = g0[s \ {Some(s)}]
    <3> HIDE DEF g0, G
    <3> QED BY <1>5, <1>6
  <2> HIDE DEF G
  <2> QED BY <2>1
<1>8. Solves(f, g0, U)
  BY Zenon, <1>7 DEF Solves
<1> QED
  <2> HIDE DEF g0
  <2> QED BY <1>0, <1>8

\* So the sum over a set is an element and the sum over the rest.
LEMMA SumChoose ==
  ASSUME NEW f, NEW S, IsFiniteSet(S)
  PROVE  SumFunctionOnSet(f, S) = IF S = {} THEN 0
            ELSE f[Some(S)] + SumFunctionOnSet(f, S \ {Some(S)})
<1> DEFINE G(s) == CHOOSE g : Solves(f, g, s)
           t == S \ {Some(S)}
<1>1. IsFiniteSet(t)
  BY FS_Subset
<1>2. Solves(f, G(S), S) /\ Solves(f, G(t), t)
  BY Zenon, Exists, <1>1
<1>3. G(S)[S] = IF S = {} THEN 0 ELSE f[Some(S)] + G(S)[t]
  BY Zenon, <1>2 DEF Solves
<1>4. SumFunctionOnSet(f, S) = G(S)[S] /\ SumFunctionOnSet(f, t) = G(t)[t]
  BY Unfold
<1>5. G(S)[t] = G(t)[t]
  <2>1. t \in (SUBSET S) \cap (SUBSET t)
    OBVIOUS
  <2> HIDE DEF G, t
  <2> QED BY <2>1, <1>2, Unique
<1> QED
  BY Zenon, <1>3, <1>4, <1>5

\* Induction over a finite set, for a property given as the set of the sets
\* that have it.
LEMMA SetInduction ==
  ASSUME NEW S, IsFiniteSet(S), NEW P,
         \A s \in SUBSET S : (\A t \in SUBSET s : t # s => t \in P) => s \in P
  PROVE  S \in P
<1> DEFINE D == {s \in SUBSET S : s \notin P}
<1> SUFFICES ASSUME D # {} PROVE FALSE
  OBVIOUS
<1>1. D \subseteq FiniteSubsetsOf(S)
  BY FS_Subset DEF FiniteSubsetsOf
<1>2. PICK s : Minimal(s, D)
  <2> HIDE DEF D
  <2> QED BY <1>1, MinFinite
<1>3. s \in SUBSET S /\ s \notin P
  BY <1>2 DEF Minimal
<1>4. \A t \in SUBSET s : t # s => t \in P
  BY <1>2, <1>3 DEF Minimal
<1> QED
  BY <1>3, <1>4

\* What the proofs below use: the sum over nothing,
LEMMA SumEmpty == ASSUME NEW f PROVE SumFunctionOnSet(f, {}) = 0
  BY SumChoose, FS_EmptySet

\* its type,
LEMMA SumType ==
  ASSUME NEW f, NEW S, IsFiniteSet(S), \A i \in S : f[i] \in Nat
  PROVE  SumFunctionOnSet(f, S) \in Nat
<1> DEFINE P == {s \in SUBSET S : SumFunctionOnSet(f, s) \in Nat}
<1>1. ASSUME NEW s \in SUBSET S, \A t \in SUBSET s : t # s => t \in P
      PROVE  s \in P
  <2>1. IsFiniteSet(s)
    BY FS_Subset
  <2>2. CASE s = {}
    BY <2>2, SumEmpty
  <2>3. CASE s # {}
    <3>1. Some(s) \in s /\ s \ {Some(s)} \in P
      BY <1>1, <2>3, SomeIn
    <3> QED
      BY <2>1, <2>3, <3>1, SumChoose
  <2> QED BY <2>2, <2>3
<1> HIDE DEF P
<1>2. S \in P
  BY <1>1, SetInduction
<1> QED
  BY <1>2 DEF P

\* with any element taken out,
LEMMA SumRemove ==
  ASSUME NEW f, NEW S, IsFiniteSet(S), \A i \in S : f[i] \in Nat, NEW x \in S
  PROVE  SumFunctionOnSet(f, S) = f[x] + SumFunctionOnSet(f, S \ {x})
<1> DEFINE Sum(s) == SumFunctionOnSet(f, s)
           P == {s \in SUBSET S : \A y \in s : Sum(s) = f[y] + Sum(s \ {y})}
<1>0. \A s \in SUBSET S : IsFiniteSet(s) /\ Sum(s) \in Nat
  BY FS_Subset, SumType
<1>1. ASSUME NEW s \in SUBSET S, \A t \in SUBSET s : t # s => t \in P
      PROVE  s \in P
  <2> SUFFICES ASSUME NEW y \in s PROVE Sum(s) = f[y] + Sum(s \ {y})
    OBVIOUS
  <2> DEFINE c == Some(s)
  <2>1. c \in s /\ Sum(s) = f[c] + Sum(s \ {c})
    BY <1>0, SomeIn, SumChoose
  <2> HIDE DEF c, Sum
  <2>2. CASE y = c
    BY <2>1, <2>2
  <2>3. CASE y # c
    <3>1. s \ {c} \in P /\ s \ {y} \in P
      BY <1>1, <2>1
    <3>2. Sum(s \ {c}) = f[y] + Sum((s \ {c}) \ {y})
      BY <2>3, <3>1
    <3>3. Sum(s \ {y}) = f[c] + Sum((s \ {y}) \ {c})
      BY <2>1, <2>3, <3>1
    <3>4. (s \ {c}) \ {y} = (s \ {y}) \ {c}
      OBVIOUS
    <3>5. (s \ {c}) \ {y} \in SUBSET S
      OBVIOUS
    <3>6. Sum((s \ {c}) \ {y}) \in Nat /\ f[c] \in Nat /\ f[y] \in Nat
      BY <1>0, <2>1, <3>5
    <3>7. Sum((s \ {c}) \ {y}) = Sum((s \ {y}) \ {c})
      BY Zenon, <3>4
    <3> QED
      BY <2>1, <3>2, <3>3, <3>6, <3>7
  <2> QED
    BY <2>2, <2>3
<1>2. S \in P
  <2> HIDE DEF P
  <2> QED BY <1>1, SetInduction
<1> QED
  BY <1>2

\* with an element put in,
LEMMA SumAdd ==
  ASSUME NEW f, NEW S, IsFiniteSet(S), NEW x, x \notin S,
         \A i \in S \cup {x} : f[i] \in Nat
  PROVE  SumFunctionOnSet(f, S \cup {x}) = f[x] + SumFunctionOnSet(f, S)
<1>1. IsFiniteSet(S \cup {x}) /\ (S \cup {x}) \ {x} = S
  BY FS_AddElement
<1> QED
  BY <1>1, SumRemove

\* Sums depend on the summands only.
LEMMA SumSame ==
  ASSUME NEW f, NEW g, NEW S, IsFiniteSet(S), \A i \in S : f[i] = g[i]
  PROVE  SumFunctionOnSet(f, S) = SumFunctionOnSet(g, S)
<1> DEFINE P == {s \in SUBSET S : SumFunctionOnSet(f, s) = SumFunctionOnSet(g, s)}
<1>1. ASSUME NEW s \in SUBSET S, \A t \in SUBSET s : t # s => t \in P
      PROVE  s \in P
  <2>1. IsFiniteSet(s)
    BY FS_Subset
  <2>2. CASE s = {}
    BY <2>2, SumEmpty
  <2>3. CASE s # {}
    <3>1. Some(s) \in s /\ s \ {Some(s)} \in P
      BY <1>1, <2>3, SomeIn
    <3> QED
      BY <2>1, <2>3, <3>1, SumChoose
  <2> QED BY <2>2, <2>3
<1> HIDE DEF P
<1>2. S \in P
  BY <1>1, SetInduction
<1> QED
  BY <1>2 DEF P

\* over a part,
LEMMA SumSubset ==
  ASSUME NEW f, NEW S, IsFiniteSet(S), \A i \in S : f[i] \in Nat,
         NEW T \in SUBSET S
  PROVE  SumFunctionOnSet(f, T) <= SumFunctionOnSet(f, S)
<1> DEFINE P == {s \in SUBSET S :
                   SumFunctionOnSet(f, T \cap s) <= SumFunctionOnSet(f, s)}
<1>0. \A s \in SUBSET S : IsFiniteSet(s) /\ SumFunctionOnSet(f, s) \in Nat
  BY FS_Subset, SumType
<1>1. ASSUME NEW s \in SUBSET S, \A t \in SUBSET s : t # s => t \in P
      PROVE  s \in P
  <2>1. T \cap s \in SUBSET S
    OBVIOUS
  <2>2. CASE s = {}
    <3>1. T \cap s = s
      BY <2>2
    <3> QED BY <1>0, <3>1
  <2>3. CASE s # {}
    <3> DEFINE c == Some(s)
               r == s \ {c}
    <3>1. c \in s /\ r \in P /\ r \in SUBSET S
      BY <1>1, <2>3, SomeIn
    <3>2. SumFunctionOnSet(f, s) = f[c] + SumFunctionOnSet(f, r)
      BY <1>0, <3>1, SumRemove
    <3> HIDE DEF c
    <3>3. CASE c \in T
      <4>1. c \in T \cap s /\ (T \cap s) \ {c} = T \cap r
        BY <3>1, <3>3
      <4>2. SumFunctionOnSet(f, T \cap s) = f[c] + SumFunctionOnSet(f, (T \cap s) \ {c})
        BY <1>0, <2>1, <4>1, SumRemove
      <4>7. SumFunctionOnSet(f, T \cap s) = f[c] + SumFunctionOnSet(f, T \cap r)
        BY <4>1, <4>2
      <4>3. T \cap r \in SUBSET S
        OBVIOUS
      <4> HIDE DEF r
      <4>4. f[c] \in Nat
        BY <3>1
      <4>5. SumFunctionOnSet(f, T \cap r) <= SumFunctionOnSet(f, r)
        BY <3>1
      <4>6. SumFunctionOnSet(f, T \cap r) \in Nat /\ SumFunctionOnSet(f, r) \in Nat
        BY <1>0, <3>1, <4>3
      <4> QED
        BY <3>2, <4>4, <4>5, <4>6, <4>7
    <3>4. CASE c \notin T
      <4>1. T \cap s = T \cap r
        BY <3>4
      <4>2. T \cap r \in SUBSET S
        OBVIOUS
      <4> HIDE DEF r
      <4>4. f[c] \in Nat
        BY <3>1
      <4>5. SumFunctionOnSet(f, T \cap r) <= SumFunctionOnSet(f, r)
        BY <3>1
      <4>6. SumFunctionOnSet(f, T \cap r) \in Nat /\ SumFunctionOnSet(f, r) \in Nat
        BY <1>0, <3>1, <4>2
      <4> QED
        BY <3>2, <4>1, <4>4, <4>5, <4>6
    <3> QED
      BY <3>3, <3>4
  <2> QED BY <2>2, <2>3
<1>2. S \in P
  <2> HIDE DEF P
  <2> QED BY <1>1, SetInduction
<1>3. T \cap S = T
  OBVIOUS
<1> QED
  BY <1>2, <1>3

\* and its bound.
LEMMA SumBound ==
  ASSUME NEW f, NEW S, IsFiniteSet(S), NEW M \in Nat, \A i \in S : f[i] \in 0..M
  PROVE  SumFunctionOnSet(f, S) <= Cardinality(S) * M
<1> DEFINE P == {s \in SUBSET S : SumFunctionOnSet(f, s) <= Cardinality(s) * M}
<1>0. \A s \in SUBSET S : IsFiniteSet(s) /\ SumFunctionOnSet(f, s) \in Nat
                          /\ Cardinality(s) \in Nat
  BY FS_Subset, SumType, FS_CardinalityType
<1>1. ASSUME NEW s \in SUBSET S, \A t \in SUBSET s : t # s => t \in P
      PROVE  s \in P
  <2>2. CASE s = {}
    <3>1. SumFunctionOnSet(f, s) = 0 /\ Cardinality(s) = 0
      BY <2>2, SumEmpty, FS_EmptySet
    <3> QED BY <3>1
  <2>3. CASE s # {}
    <3> DEFINE c == Some(s)
               r == s \ {c}
               a == SumFunctionOnSet(f, r)
               n == Cardinality(r)
    <3>1. c \in s /\ r \in P /\ r \in SUBSET S
      BY <1>1, <2>3, SomeIn
    <3>2. SumFunctionOnSet(f, s) = f[c] + a
      BY <1>0, <3>1, SumRemove
    <3>3. Cardinality(s) = n + 1
      <4>1. n = Cardinality(s) - 1
        BY <1>0, <3>1, FS_RemoveElement
      <4> QED BY <1>0, <4>1
    <3>4. a \in Nat /\ n \in Nat /\ a <= n * M /\ f[c] \in 0..M
      BY <1>0, <3>1
    <3> HIDE DEF a, n, c
    <3>5. f[c] + a <= (n + 1) * M
      <4>1. (n + 1) * M = n * M + M /\ n * M \in Nat
        BY <3>4
      <4> QED BY <3>4, <4>1
    <3> QED
      BY <3>2, <3>3, <3>5
  <2> QED BY <2>2, <2>3
<1>2. S \in P
  <2> HIDE DEF P
  <2> QED BY <1>1, SetInduction
<1> QED
  BY <1>2

\* A sum may be taken in the places where h puts its summands.
LEMMA SumMoved ==
  ASSUME NEW f, NEW S, IsFiniteSet(S), \A i \in S : f[i] \in Nat,
         NEW g, NEW h, \A i, j \in S : h[i] = h[j] => i = j,
         \A i \in S : g[h[i]] = f[i]
  PROVE  /\ IsFiniteSet({h[i] : i \in S})
         /\ SumFunctionOnSet(g, {h[i] : i \in S}) = SumFunctionOnSet(f, S)
<1> DEFINE To(s) == {h[i] : i \in s}
           P == {s \in SUBSET S : /\ IsFiniteSet(To(s))
                                  /\ SumFunctionOnSet(g, To(s)) = SumFunctionOnSet(f, s)}
<1>0. \A s \in SUBSET S : IsFiniteSet(s) /\ SumFunctionOnSet(f, s) \in Nat
  BY FS_Subset, SumType
<1>1. ASSUME NEW s \in SUBSET S, \A t \in SUBSET s : t # s => t \in P
      PROVE  s \in P
  <2>2. CASE s = {}
    <3>1. To(s) = {}
      BY <2>2
    <3> QED
      BY <2>2, <3>1, SumEmpty, FS_EmptySet
  <2>3. CASE s # {}
    <3> DEFINE c == Some(s)
               r == s \ {c}
    <3>1. c \in s /\ r \in SUBSET S
      BY <2>3, SomeIn
    <3>9. r \in P
      BY <1>1, <2>3, SomeIn
    <3>2. SumFunctionOnSet(f, s) = f[c] + SumFunctionOnSet(f, r)
      BY <1>0, <3>1, SumRemove
    <3>3. To(s) = To(r) \cup {h[c]} /\ h[c] \notin To(r)
      <4> HIDE DEF c
      <4>1. c \in S /\ s = r \cup {c} /\ c \notin r /\ r \subseteq S
        BY <3>1
      <4> HIDE DEF r
      <4> QED BY <4>1
    <3> HIDE DEF c
    <3>4. IsFiniteSet(To(r)) /\ SumFunctionOnSet(g, To(r)) = SumFunctionOnSet(f, r)
      BY <3>9
    <3>5. \A j \in To(r) \cup {h[c]} : g[j] \in Nat
      BY <3>1
    <3>6. g[h[c]] = f[c]
      BY <3>1
    <3> HIDE DEF r, To
    <3>7. SumFunctionOnSet(g, To(r) \cup {h[c]}) = g[h[c]] + SumFunctionOnSet(g, To(r))
      BY <3>3, <3>4, <3>5, SumAdd
    <3>8. IsFiniteSet(To(r) \cup {h[c]})
      BY <3>4, FS_AddElement
    <3> QED
      BY <3>2, <3>3, <3>4, <3>6, <3>7, <3>8
  <2> QED BY <2>2, <2>3
<1>2. S \in P
  <2> HIDE DEF P
  <2> QED BY <1>1, SetInduction
<1> QED
  BY <1>2

-----------------------------------------------------------------------------
(* Sequences of packets.                                                   *)

\* A set of numbers has a least one.
LEMMA LeastNatural ==
  ASSUME NEW D, D \subseteq Nat, D # {}
  PROVE  \E m \in D : \A d \in D : m <= d
<1>1. IsWellFoundedOn(OpToRel(<, Nat), Nat)
  BY NatLessThanWellFounded
<1>2. PICK m \in D : \A d \in D : ~ (<<d, m>> \in OpToRel(<, Nat))
  <2> HIDE DEF OpToRel
  <2> QED BY <1>1, WFMin
<1>3. \A d \in D : ~ (d < m)
  BY <1>2 DEF OpToRel
<1> QED
  BY <1>3

\* A set of places that has every place before one of its own is a prefix.
LEMMA Prefix ==
  ASSUME NEW n \in Nat, NEW old \in SUBSET (1..n),
         \A i \in old : \A j \in 1..i : j \in old
  PROVE  \E k \in 0..n : old = 1..k
<1> DEFINE D == {i \in 1..(n+1) : i \notin old}
<1>1. D \subseteq Nat /\ D # {}
  <2>1. n + 1 \in D
    OBVIOUS
  <2> QED BY <2>1
<1>2. PICK m \in D : \A d \in D : m <= d
  <2> HIDE DEF D
  <2> QED BY <1>1, LeastNatural
<1>3. \A i \in 1..(m-1) : i \in old
  BY <1>2
<1>4. \A i \in old : i < m
  <2> SUFFICES ASSUME NEW i \in old, ~ (i < m) PROVE FALSE
    OBVIOUS
  <2>1. m \in 1..i
    BY <1>2
  <2> QED BY <1>2, <2>1
<1>5. m - 1 \in 0..n
  BY <1>2
<1>6. \A i : i \in old <=> i \in 1..(m-1)
  <2> HIDE DEF D
  <2>1. m \in Int /\ \A i \in old : i \in 1..n
    BY <1>1, <1>2
  <2>2. ASSUME NEW i \in old PROVE i \in 1..(m-1)
    <3>1. i < m /\ i \in 1..n
      BY <1>4, <2>1
    <3> QED BY <2>1, <3>1
  <2> QED BY <1>3, <2>2
<1> HIDE DEF D
<1>7. old = 1..(m-1)
  BY <1>6
<1> QED
  BY <1>5, <1>7

\* Airtime of the packets of ps at the places in I.
Air(ps, I) == SumFunctionOnSet(Millis(ps), I)

Since(ps, c) == {i \in 1..Len(ps) : ps[i].at >= c}

Record_ == [at : Nat, airtime : Nat]
Emission == [at : Nat, airtime : Nat, boot : Nat]

\* The airtime of some of the packets of a sequence.
LEMMA AirNat ==
  ASSUME NEW T, NEW ps \in Seq(T), \A p \in T : p.airtime \in Nat,
         NEW I \in SUBSET (1..Len(ps))
  PROVE  /\ IsFiniteSet(I) /\ Air(ps, I) \in Nat
         /\ \A i \in 1..Len(ps) : Millis(ps)[i] = ps[i].airtime /\ Millis(ps)[i] \in Nat
         /\ \A J \in SUBSET I : Air(ps, J) <= Air(ps, I)
<1>1. IsFiniteSet(I)
  <2>1. IsFiniteSet(1..Len(ps))
    BY FS_Interval
  <2> QED BY <2>1, FS_Subset
<1>2. \A i \in 1..Len(ps) : Millis(ps)[i] = ps[i].airtime /\ Millis(ps)[i] \in Nat
  BY DEF Millis
<1>3. \A i \in I : Millis(ps)[i] \in Nat
  BY <1>2
<1> QED
  BY <1>1, <1>2, <1>3, SumType, SumSubset DEF Air

\* One packet more at the end.
LEMMA AirAppend ==
  ASSUME NEW T, NEW ps \in Seq(T), NEW q \in T, \A p \in T : p.airtime \in Nat,
         NEW I \in SUBSET (1..Len(ps))
  PROVE  /\ Air(Append(ps, q), I) = Air(ps, I)
         /\ Air(Append(ps, q), I \cup {Len(ps) + 1}) = Air(ps, I) + q.airtime
<1> DEFINE qs == Append(ps, q)
           n == Len(ps)
<1>1. qs \in Seq(T) /\ Len(qs) = n + 1 /\ qs[n + 1] = q
      /\ \A i \in 1..n : qs[i] = ps[i]
  OBVIOUS
<1> HIDE DEF qs
<1>2. \A i \in 1..n : Millis(qs)[i] = Millis(ps)[i]
  BY <1>1 DEF Millis
<1>3. Millis(qs)[n + 1] = q.airtime
  BY <1>1 DEF Millis
<1>4. IsFiniteSet(I) /\ \A i \in 1..n : Millis(ps)[i] \in Nat
  BY AirNat
<1>5. Air(qs, I) = Air(ps, I)
  BY <1>2, <1>4, SumSame DEF Air
<1>6. n + 1 \notin I
  OBVIOUS
<1>7. \A i \in I \cup {n + 1} : Millis(qs)[i] \in Nat
  BY <1>2, <1>3, <1>4
<1>8. Air(qs, I \cup {n + 1}) = q.airtime + Air(qs, I)
  BY <1>3, <1>4, <1>6, <1>7, SumAdd DEF Air
<1>9. Air(ps, I) \in Nat /\ q.airtime \in Nat
  BY AirNat
<1> QED
  BY <1>5, <1>8, <1>9 DEF qs

\* Pruning the records takes nothing from what was sent within the window.
LEMMA PruneSince ==
  ASSUME NEW rs \in Seq(Record_), NEW t \in Int, Window \in Nat
  PROVE  /\ Unexpired(rs, t) \in Seq(Record_)
         /\ \A c \in Int : c >= t - Window =>
               Air(Unexpired(rs, t), Since(Unexpired(rs, t), c)) = Air(rs, Since(rs, c))
<1> DEFINE old == {i \in 1..Len(rs) : \A j \in 1..i : rs[j].at < t - Window}
           n == Len(rs)
<1>1. n \in Nat /\ \A i \in 1..n : rs[i] \in Record_
  OBVIOUS
<1>2. PICK k \in 0..n : old = 1..k
  <2>1. old \in SUBSET (1..n) /\ \A i \in old : \A j \in 1..i : j \in old
    BY <1>1
  <2> HIDE DEF old
  <2> QED BY <1>1, <2>1, Prefix
<1>3. Cardinality(old) = k
  <2>1. Cardinality(1..k) = IF 1 > k THEN 0 ELSE k - 1 + 1
    BY FS_Interval
  <2> HIDE DEF old
  <2> QED BY <1>2, <2>1
<1> DEFINE us == SubSeq(rs, k + 1, n)
<1>4. Unexpired(rs, t) = us
  BY <1>3 DEF Unexpired
<1>5. \A i \in 1..k : rs[i].at < t - Window
  BY <1>2
<1> HIDE DEF old
<1>6. us \in Seq(Record_) /\ Len(us) = n - k /\ \A i \in 1..(n - k) : us[i] = rs[i + k]
  OBVIOUS
<1> HIDE DEF us
<1>7. ASSUME NEW c \in Int, c >= t - Window
      PROVE  Air(us, Since(us, c)) = Air(rs, Since(rs, c))
  <2> DEFINE I == Since(us, c)
             h == [i \in I |-> i + k]
  <2>1. I \in SUBSET (1..(n - k)) /\ Since(rs, c) \in SUBSET (1..n)
    BY <1>6 DEF Since
  <2>2. {h[i] : i \in I} = Since(rs, c)
    <3>1. ASSUME NEW i \in I PROVE i + k \in Since(rs, c)
      BY <1>6, <2>1 DEF Since
    <3>2. ASSUME NEW j \in Since(rs, c) PROVE j - k \in I /\ j = (j - k) + k
      <4>1. j \in 1..n /\ rs[j].at >= c
        BY DEF Since
      <4>2. rs[j].at \in Nat /\ (j \in 1..k => rs[j].at < t - Window)
        BY <1>1, <1>5, <4>1 DEF Record_
      <4>3. j \notin 1..k
        BY <1>7, <4>1, <4>2
      <4>4. j - k \in 1..(n - k)
        BY <4>1, <4>3
      <4>5. us[j - k] = rs[j]
        <5>1. (j - k) + k = j
          BY <4>1
        <5> QED BY <1>6, <4>4, <5>1
      <4> QED BY <1>6, <4>1, <4>4, <4>5 DEF Since
    <3> HIDE DEF I
    <3>3. \A i \in I : h[i] = i + k
      OBVIOUS
    <3> HIDE DEF h
    <3> QED BY <3>1, <3>2, <3>3
  <2>3. \A i \in 1..(n - k) : Millis(us)[i] = us[i].airtime /\ Millis(us)[i] \in Nat
    <3>1. \A p \in Record_ : p.airtime \in Nat
      BY DEF Record_
    <3> QED BY <1>6, <3>1, AirNat
  <2>4. \A i \in I : Millis(rs)[h[i]] = Millis(us)[i]
    <3> SUFFICES ASSUME NEW i \in I PROVE Millis(rs)[h[i]] = Millis(us)[i]
      OBVIOUS
    <3>1. i \in 1..(n - k) /\ i + k \in 1..n /\ h[i] = i + k
      BY <2>1
    <3> HIDE DEF h
    <3> QED BY <1>6, <2>3, <3>1 DEF Millis
  <2>5. IsFiniteSet(I)
    <3>1. IsFiniteSet(1..(n - k))
      BY FS_Interval
    <3> HIDE DEF I
    <3> QED BY <2>1, <3>1, FS_Subset
  <2>6. \A i \in I : Millis(us)[i] \in Nat
    BY <2>1, <2>3
  <2>7. \A i, j \in I : h[i] = h[j] => i = j
    BY <2>1
  <2> HIDE DEF I, h
  <2>8. SumFunctionOnSet(Millis(rs), {h[i] : i \in I}) = SumFunctionOnSet(Millis(us), I)
    BY <2>4, <2>5, <2>6, <2>7, SumMoved
  <2> QED
    BY <2>2, <2>8 DEF Air, I
<1> QED
  BY <1>4, <1>6, <1>7

-----------------------------------------------------------------------------
(* The budget.                                                             *)

EmittedSince(b, c) == {i \in Since(emitted, c) : emitted[i].boot = b}
Calls(st, K) == {s \in Senders : st[s] \in K}
MostOnAir == Limit + (Cardinality(Senders) - 1) * MaxAirtime

\* Airtime recorded since c, put on the air by boot b since c, and of the calls
\* that have transmitted or may.
Recorded(c) == Air(records, Since(records, c))
EmittedBy(b, c) == Air(emitted, EmittedSince(b, c))
CallAir(st, air, K) == SumFunctionOnSet(air, Calls(st, K))
SentAir == CallAir(stage, airtime, {"sent"})
HeldAir == CallAir(stage, airtime, {"approved", "sent"})

TxTypes == /\ now \in Nat /\ boot \in Nat
           /\ records \in Seq(Record_) /\ emitted \in Seq(Emission)
           /\ stage \in [Senders -> Stages]
           /\ airtime \in [Senders -> 0..MaxAirtime]
           /\ \A s \in Senders : stage[s] # "idle" => airtime[s] \in Airtimes
           /\ \A i \in 1..Len(emitted) : emitted[i].at <= now /\ emitted[i].boot <= boot

\* What this boot has transmitted since any time of the window is recorded
\* with at least that time, or will be.
Accounted == \A c \in Int : c >= now - Window => EmittedBy(boot, c) <= Recorded(c) + SentAir

\* What is recorded in the window and what may still be recorded.
WithinBudget == Recorded(now - Window) + HeldAir <= MostOnAir

\* No packet lasts longer than the longest.
LEMMA MaxAirtimeIsMost ==
  /\ MaxAirtime \in Nat
  /\ \A a \in Airtimes : a \in 0..MaxAirtime
<1>0. IsFiniteSet(Airtimes) /\ Airtimes # {} /\ Airtimes \subseteq Nat
  BY TxAssumption DEF TxAssumption
<1> DEFINE P == {A \in SUBSET Airtimes : A # {} => \E m \in A : \A a \in A : a <= m}
<1>1. ASSUME NEW A \in SUBSET Airtimes, \A B \in SUBSET A : B # A => B \in P
      PROVE  A \in P
  <2> SUFFICES ASSUME A # {} PROVE \E m \in A : \A a \in A : a <= m
    OBVIOUS
  <2> DEFINE x == Some(A)
             B == A \ {x}
  <2>1. x \in A
    BY SomeIn
  <2>2. B = {} \/ \E m \in B : \A a \in B : a <= m
    <3>1. B \in SUBSET A /\ B # A
      BY <2>1
    <3>2. B \in P
      BY <1>1, <3>1
    <3> QED BY <3>2
  <2>3. A = B \cup {x} /\ A \subseteq Nat
    BY <1>0, <2>1
  <2> HIDE DEF B, x
  <2> QED
    BY <2>1, <2>2, <2>3
<1>2. Airtimes \in P
  <2> HIDE DEF P
  <2> QED BY <1>0, <1>1, SetInduction
<1>3. \E m \in Airtimes : \A a \in Airtimes : a <= m
  BY <1>0, <1>2
<1>4. MaxAirtime \in Airtimes /\ \A a \in Airtimes : a <= MaxAirtime
  BY <1>3, Zenon DEF MaxAirtime
<1> QED
  BY <1>0, <1>4

\* The numbers the bounds are made of.
LEMMA Counts == /\ Cardinality(Senders) \in Nat \ {0} /\ MostOnAir \in Nat
                /\ Window \in Nat /\ Limit \in Nat
<1> USE TxAssumption DEF TxAssumption
<1>1. Cardinality(Senders) \in Nat \ {0}
  BY FS_CardinalityType, FS_EmptySet
<1>2. \A n \in Nat, m \in Nat : n * m \in Nat
  OBVIOUS
<1> QED
  BY <1>1, <1>2, MaxAirtimeIsMost DEF MostOnAir

\* What was put on the air has a time, a start and an airtime.
LEMMA EmissionTypes ==
  ASSUME TxTypes, NEW i \in 1..Len(emitted)
  PROVE  emitted[i].at \in Nat /\ emitted[i].boot \in Nat /\ emitted[i].airtime \in Nat
<1>1. emitted[i] \in Emission
  BY DEF TxTypes
<1> QED
  BY <1>1 DEF Emission

\* The sums of the account are numbers.
LEMMA AirTypes ==
  ASSUME TxTypes
  PROVE  /\ \A c \in Int : Recorded(c) \in Nat
         /\ \A b, c \in Int : EmittedBy(b, c) \in Nat
         /\ \A K : CallAir(stage, airtime, K) \in Nat
         /\ SentAir \in Nat /\ HeldAir \in Nat /\ SentAir <= HeldAir
         /\ \A S \in SUBSET Senders : IsFiniteSet(S)
<1>1. \A c \in Int : Recorded(c) \in Nat
  <2>1. \A p \in Record_ : p.airtime \in Nat
    BY DEF Record_
  <2>2. \A c : Since(records, c) \in SUBSET (1..Len(records))
    BY DEF Since
  <2> QED
    BY <2>1, <2>2, AirNat DEF Recorded, TxTypes
<1>2. \A b, c \in Int : EmittedBy(b, c) \in Nat
  <2>1. \A p \in Emission : p.airtime \in Nat
    BY DEF Emission
  <2>2. \A b, c : EmittedSince(b, c) \in SUBSET (1..Len(emitted))
    BY DEF EmittedSince, Since
  <2> QED
    BY <2>1, <2>2, AirNat DEF EmittedBy, TxTypes
<1>3. \A S \in SUBSET Senders : IsFiniteSet(S)
  BY FS_Subset, TxAssumption DEF TxAssumption
<1>4. /\ Calls(stage, {"sent"}) \in SUBSET Calls(stage, {"approved", "sent"})
      /\ \A K : Calls(stage, K) \in SUBSET Senders
  BY DEF Calls
<1>5. \A s \in Senders : airtime[s] \in Nat
  BY MaxAirtimeIsMost DEF TxTypes
<1>7. \A K : CallAir(stage, airtime, K) \in Nat
  BY <1>3, <1>4, <1>5, SumType DEF CallAir
<1>6. SentAir <= HeldAir
  <2> DEFINE H == Calls(stage, {"approved", "sent"})
             S == Calls(stage, {"sent"})
  <2>1. IsFiniteSet(H) /\ S \in SUBSET H /\ \A i \in H : airtime[i] \in Nat
    BY <1>3, <1>4, <1>5
  <2> HIDE DEF H, S
  <2>2. SumFunctionOnSet(airtime, S) <= SumFunctionOnSet(airtime, H)
    BY <2>1, SumSubset
  <2> QED
    BY <2>2 DEF SentAir, HeldAir, CallAir, H, S
<1> QED
  BY <1>1, <1>2, <1>3, <1>6, <1>7 DEF SentAir, HeldAir

\* What the property calls on the air, of the running service.
LEMMA OnAirNow ==
  ASSUME TxTypes
  PROVE  OnAir({boot}, now) = EmittedBy(boot, now - Window)
<1> DEFINE I == {i \in 1..Len(emitted) : /\ emitted[i].boot \in {boot}
                                         /\ emitted[i].at \in (now - Window)..now}
<1>1. ASSUME NEW i \in 1..Len(emitted)
      PROVE  emitted[i].at \in Nat /\ emitted[i].at <= now
  BY EmissionTypes DEF TxTypes
<1>2. \A i : i \in I <=> i \in EmittedSince(boot, now - Window)
  BY <1>1, Counts DEF EmittedSince, Since, TxTypes
<1>3. I = EmittedSince(boot, now - Window)
  <2> HIDE DEF I
  <2> QED BY <1>2
<1> QED
  BY <1>3 DEF OnAir, EmittedBy, Air

\* The two together bound what is on the air now.
BoundNow == OnAir({boot}, now) <= MostOnAir

\* The account and the budget together bound what is on the air.
LEMMA BudgetBounds == TxTypes /\ Accounted /\ WithinBudget => BoundNow
<1> SUFFICES ASSUME TxTypes, Accounted, WithinBudget
             PROVE  OnAir({boot}, now) <= MostOnAir
  BY DEF BoundNow
<1>1. OnAir({boot}, now) = EmittedBy(boot, now - Window)
  BY OnAirNow
<1>2. now - Window \in Int /\ now - Window >= now - Window /\ boot \in Int
  BY Counts DEF TxTypes
<1>3. EmittedBy(boot, now - Window) <= Recorded(now - Window) + SentAir
  BY <1>2 DEF Accounted
<1>4. Recorded(now - Window) + HeldAir <= MostOnAir
  BY DEF WithinBudget
<1>5. EmittedBy(boot, now - Window) \in Nat /\ Recorded(now - Window) \in Nat
  BY <1>2, AirTypes
<1> QED
  BY <1>1, <1>3, <1>4, <1>5, AirTypes, Counts

AirOf(st, air, K, s) == IF st[s] \in K THEN air[s] ELSE 0

\* One call moves on.
LEMMA OneCall ==
  ASSUME NEW K, NEW s \in Senders,
         NEW st, NEW st2, \A u \in Senders \ {s} : st2[u] = st[u],
         NEW air, NEW air2, \A u \in Senders \ {s} : air2[u] = air[u],
         \A u \in Senders : air[u] \in Nat /\ air2[u] \in Nat
  PROVE  CallAir(st2, air2, K) + AirOf(st, air, K, s)
           = CallAir(st, air, K) + AirOf(st2, air2, K, s)
<1> DEFINE T == Calls(st, K) \ {s}
<1>1. T \in SUBSET Senders /\ IsFiniteSet(T) /\ s \notin T
  <2>1. T \in SUBSET Senders /\ s \notin T
    BY DEF Calls
  <2> HIDE DEF T
  <2> QED
    BY <2>1, FS_Subset, TxAssumption DEF TxAssumption
<1>2. /\ \A u \in Senders : air[u] \in Nat /\ air2[u] \in Nat
      /\ \A u \in T : air2[u] = air[u]
  BY <1>1
<1>3. Calls(st, K) = IF st[s] \in K THEN T \cup {s} ELSE T
  BY DEF Calls
<1>4. Calls(st2, K) = IF st2[s] \in K THEN T \cup {s} ELSE T
  BY DEF Calls
<1> HIDE DEF T
<1>5. SumFunctionOnSet(air, T \cup {s}) = air[s] + SumFunctionOnSet(air, T)
  BY <1>1, <1>2, SumAdd
<1>6. SumFunctionOnSet(air2, T \cup {s}) = air2[s] + SumFunctionOnSet(air2, T)
  BY <1>1, <1>2, SumAdd
<1>7. SumFunctionOnSet(air2, T) = SumFunctionOnSet(air, T)
  BY <1>1, <1>2, SumSame
<1>8. SumFunctionOnSet(air, T) \in Nat /\ air[s] \in Nat /\ air2[s] \in Nat
  BY <1>1, <1>2, SumType
<1> QED
  BY <1>3, <1>4, <1>5, <1>6, <1>7, <1>8 DEF CallAir, AirOf

\* The same of the variables.
LEMMA OneStep ==
  ASSUME NEW s \in Senders, NEW x, NEW a,
         \A u \in Senders : airtime[u] \in Nat /\ airtime'[u] \in Nat,
         stage'[s] = x, \A u \in Senders \ {s} : stage'[u] = stage[u],
         airtime'[s] = a, \A u \in Senders \ {s} : airtime'[u] = airtime[u]
  PROVE  /\ SentAir' = SentAir - (IF stage[s] = "sent" THEN airtime[s] ELSE 0)
                               + (IF x = "sent" THEN a ELSE 0)
         /\ HeldAir' = HeldAir - (IF stage[s] \in {"approved", "sent"} THEN airtime[s] ELSE 0)
                               + (IF x \in {"approved", "sent"} THEN a ELSE 0)
<1>2. ASSUME NEW K
      PROVE  CallAir(stage', airtime', K) + AirOf(stage, airtime, K, s)
               = CallAir(stage, airtime, K) + AirOf(stage', airtime', K, s)
  BY OneCall
<1>5. ASSUME NEW K
      PROVE  CallAir(stage', airtime', K) = CallAir(stage, airtime, K)
            - (IF stage[s] \in K THEN airtime[s] ELSE 0) + (IF x \in K THEN a ELSE 0)
  <2>1. ASSUME NEW st, NEW air, \A u \in Senders : air[u] \in Nat PROVE CallAir(st, air, K) \in Nat
    <3>1. IsFiniteSet(Calls(st, K)) /\ Calls(st, K) \subseteq Senders
      BY FS_Subset, TxAssumption DEF TxAssumption, Calls
    <3> QED BY <2>1, <3>1, SumType DEF CallAir
  <2>2. CallAir(stage', airtime', K) \in Nat /\ CallAir(stage, airtime, K) \in Nat
    BY <2>1
  <2> QED BY <1>2, <2>2 DEF AirOf
<1>3. CallAir(stage', airtime', {"sent"}) = CallAir(stage, airtime, {"sent"})
            - (IF stage[s] \in {"sent"} THEN airtime[s] ELSE 0)
            + (IF x \in {"sent"} THEN a ELSE 0)
  BY <1>5
<1>4. CallAir(stage', airtime', {"approved", "sent"})
        = CallAir(stage, airtime, {"approved", "sent"})
            - (IF stage[s] \in {"approved", "sent"} THEN airtime[s] ELSE 0)
            + (IF x \in {"approved", "sent"} THEN a ELSE 0)
  BY <1>5
<1> QED
  BY <1>3, <1>4 DEF SentAir, HeldAir

SentPart(x, a) == IF x = "sent" THEN a ELSE 0
HeldPart(x, a) == IF x \in {"approved", "sent"} THEN a ELSE 0

\* A call s goes to the stage x, with a packet of airtime a.
Moves(s, x, a) == /\ stage' = [stage EXCEPT ![s] = x]
                  /\ airtime' = [airtime EXCEPT ![s] = a]

\* One call going on changes its own part of what is in progress.
LEMMA MovedAir ==
  ASSUME TxTypes, NEW s \in Senders, NEW x, NEW a \in Nat, Moves(s, x, a)
  PROVE  /\ SentAir' = SentAir - SentPart(stage[s], airtime[s]) + SentPart(x, a)
         /\ HeldAir' = HeldAir - HeldPart(stage[s], airtime[s]) + HeldPart(x, a)
<1>1. /\ \A u \in Senders : airtime[u] \in Nat /\ airtime'[u] \in Nat
      /\ stage'[s] = x /\ \A u \in Senders \ {s} : stage'[u] = stage[u]
      /\ airtime'[s] = a /\ \A u \in Senders \ {s} : airtime'[u] = airtime[u]
  BY MaxAirtimeIsMost DEF TxTypes, Moves
<1> QED
  BY <1>1, OneStep DEF SentPart, HeldPart

\* Every action keeps the types.
LEMMA TxTypesInv == TxTypes /\ [Next]_vars => TxTypes'
<1> SUFFICES ASSUME TxTypes, [Next]_vars PROVE TxTypes'
  OBVIOUS
<1> USE MaxAirtimeIsMost DEF TxTypes
<1>0. Unexpired(records, now) \in Seq(Record_)
  BY PruneSince, Counts
<1>a. 0 \in 0..MaxAirtime
  BY MaxAirtimeIsMost
<1>1. ASSUME NEW s \in Senders, NEW ms \in Airtimes, Request(s, ms) PROVE TxTypes'
  BY <1>1 DEF Request, Stages
<1>2. ASSUME NEW s \in Senders, Refuse(s) PROVE TxTypes'
  BY <1>0, <1>a, <1>2 DEF Refuse, Return, Stages
<1>3. ASSUME NEW s \in Senders, Approve(s) PROVE TxTypes'
  BY <1>0, <1>3 DEF Approve, Stages
<1>4. ASSUME NEW s \in Senders, Emit(s) PROVE TxTypes'
  <2> DEFINE e == [at |-> now, airtime |-> airtime[s], boot |-> boot]
  <2>1. /\ emitted' = Append(emitted, e) /\ stage' = [stage EXCEPT ![s] = "sent"]
        /\ stage[s] = "approved"
        /\ UNCHANGED <<now, records, airtime, boot>>
    BY <1>4 DEF Emit
  <2>2. e \in Emission /\ e.at <= now /\ e.boot <= boot
    BY DEF Emission
  <2> HIDE DEF e
  <2>3. emitted' \in Seq(Emission)
        /\ \A i \in 1..Len(emitted') : emitted'[i].at <= now /\ emitted'[i].boot <= boot
    BY <2>1, <2>2
  <2> QED
    BY <2>1, <2>3 DEF Stages
<1>5. ASSUME NEW s \in Senders, EmitFails(s) PROVE TxTypes'
  BY <1>a, <1>5 DEF EmitFails, Return, Stages
<1>6. ASSUME NEW s \in Senders, Record(s) PROVE TxTypes'
  <2> DEFINE r == [at |-> now, airtime |-> airtime[s]]
  <2>1. r \in Record_
    BY DEF Record_
  <2>2. Append(records, r) \in Seq(Record_)
    BY <2>1
  <2>4. now \in Int
    OBVIOUS
  <2> HIDE DEF TxTypes, r
  <2>3. Unexpired(Append(records, r), now) \in Seq(Record_)
    BY <2>2, <2>4, PruneSince, Counts
  <2> USE DEF TxTypes, r
  <2> QED
    BY <1>a, <1>6, <2>3 DEF Record, Return, Stages
<1>7. CASE Observe
  BY <1>0, <1>7 DEF Observe
<1>8. CASE Restart
  <2>1. <<>> \in Seq(Record_)
    OBVIOUS
  <2>2. \A i \in 1..Len(emitted) : emitted[i].boot <= boot + 1
    <3>1. \A i \in 1..Len(emitted) : emitted[i].boot \in Nat
      BY EmissionTypes
    <3> QED BY <3>1
  <2> QED BY <1>a, <1>8, <2>1, <2>2 DEF Restart, Stages
<1>9. CASE Tick
  <2>2. \A i \in 1..Len(emitted) : emitted[i].at <= now + 1
    <3>1. \A i \in 1..Len(emitted) : emitted[i].at \in Nat
      BY EmissionTypes
    <3> QED BY <3>1
  <2>3. now' = now + 1 /\ now + 1 \in Nat /\ UNCHANGED <<records, stage, airtime, boot, emitted>>
    BY <1>9 DEF Tick
  <2> QED BY <2>2, <2>3
<1>10. CASE UNCHANGED vars
  BY <1>10 DEF vars
<1> QED
  BY <1>1, <1>2, <1>3, <1>4, <1>5, <1>6, <1>7, <1>8, <1>9, <1>10 DEF Next

-----------------------------------------------------------------------------
(* Every step keeps the account and the budget.                            *)

\* Pruning at this moment, of the records of the service.
LEMMA Pruned ==
  ASSUME TxTypes, NEW us, us = Unexpired(records, now)
  PROVE  \A c \in Int : c >= now - Window => Air(us, Since(us, c)) = Recorded(c)
<1>1. now \in Int /\ records \in Seq(Record_) /\ Window \in Nat
  BY Counts DEF TxTypes
<1> QED
  BY <1>1, PruneSince DEF Recorded

\* The total is the airtime of all the records.
LEMMA TotalOfAll ==
  ASSUME NEW rs \in Seq(Record_)
  PROVE  /\ Total(rs) \in Nat
         /\ \A c : /\ Air(rs, Since(rs, c)) \in Nat
                   /\ Air(rs, Since(rs, c)) <= Total(rs)
<1> DEFINE all == 1..Len(rs)
<1>1. \A r \in Record_ : r.airtime \in Nat
  BY DEF Record_
<1>2. all \in SUBSET all /\ \A c : Since(rs, c) \in SUBSET all
  BY DEF Since
<1>3. /\ Air(rs, all) \in Nat
      /\ \A J \in SUBSET all : Air(rs, J) \in Nat /\ Air(rs, J) <= Air(rs, all)
  <2> HIDE DEF all
  <2>1. ASSUME NEW I \in SUBSET (1..Len(rs))
        PROVE  Air(rs, I) \in Nat /\ \A J \in SUBSET I : Air(rs, J) <= Air(rs, I)
    BY <1>1, AirNat
  <2> QED BY <1>2, <2>1 DEF all
<1>4. Total(rs) = Air(rs, all)
  <2>1. DOMAIN Millis(rs) = all
    BY DEF Millis
  <2> QED
    BY <2>1, Zenon DEF Total, SumFunction, Air, SumFunctionOnSet, FoldFunction
<1> HIDE DEF all
<1> QED
  BY <1>2, <1>3, <1>4

\* A step that emits nothing, in which nothing recorded in the window is lost
\* but to those who have yet to record it.
LEMMA Quiet ==
  ASSUME TxTypes, Accounted, UNCHANGED <<now, boot, emitted>>,
         \A c \in Int : c >= now - Window => Recorded(c)' = Recorded(c),
         SentAir' = SentAir
  PROVE  Accounted'
<1> SUFFICES ASSUME NEW c \in Int, c >= now - Window
             PROVE  EmittedBy(boot, c)' <= Recorded(c)' + SentAir'
  BY DEF Accounted
<1>1. EmittedBy(boot, c)' = EmittedBy(boot, c)
  BY DEF EmittedBy, EmittedSince, Since, Air, Millis
<1>2. EmittedBy(boot, c) <= Recorded(c) + SentAir
  BY DEF Accounted
<1> QED
  BY <1>1, <1>2

\* A call begins: nothing is on the air yet.
LEMMA RequestStep ==
  ASSUME TxTypes, Accounted, WithinBudget,
         NEW s \in Senders, NEW ms \in Airtimes, Request(s, ms)
  PROVE  Accounted' /\ WithinBudget'
<1>1. /\ Moves(s, "measuring", ms) /\ stage[s] = "idle" /\ ms \in Nat
      /\ UNCHANGED <<now, records, boot, emitted>>
  BY TxAssumption DEF Request, Moves, TxAssumption
<1>2. SentAir' = SentAir /\ HeldAir' = HeldAir
  <2>1. /\ SentAir' = SentAir - SentPart("idle", airtime[s]) + SentPart("measuring", ms)
        /\ HeldAir' = HeldAir - HeldPart("idle", airtime[s]) + HeldPart("measuring", ms)
    BY <1>1, MovedAir
  <2> QED BY <2>1, AirTypes DEF SentPart, HeldPart
<1>3. \A c \in Int : Recorded(c)' = Recorded(c)
  BY <1>1 DEF Recorded, Since, Air, Millis
<1>4. now - Window \in Int
  BY Counts DEF TxTypes
<1> QED
  BY <1>1, <1>2, <1>3, <1>4, Quiet DEF WithinBudget

\* A call is refused; the records are pruned.
LEMMA RefuseStep ==
  ASSUME TxTypes, Accounted, WithinBudget, NEW s \in Senders, Refuse(s)
  PROVE  Accounted' /\ WithinBudget'
<1>1. /\ Moves(s, "idle", 0) /\ stage[s] = "measuring" /\ 0 \in Nat
      /\ records' = Unexpired(records, now)
      /\ UNCHANGED <<now, boot, emitted>>
  BY DEF Refuse, Return, Moves
<1>2. SentAir' = SentAir /\ HeldAir' = HeldAir
  <2>1. /\ SentAir' = SentAir - SentPart("measuring", airtime[s]) + SentPart("idle", 0)
        /\ HeldAir' = HeldAir - HeldPart("measuring", airtime[s]) + HeldPart("idle", 0)
    BY <1>1, MovedAir
  <2> QED BY <2>1, AirTypes DEF SentPart, HeldPart
<1>3. \A c \in Int : c >= now - Window => Recorded(c)' = Recorded(c)
  BY <1>1, Pruned DEF Recorded
<1>4. now - Window \in Int
  BY Counts DEF TxTypes
<1>5. (now - Window)' = now - Window
  BY <1>1
<1> QED
  BY <1>1, <1>2, <1>3, <1>4, <1>5, Quiet DEF WithinBudget

\* The call is over, and what it held it holds no longer.
LEMMA EmitFailsStep ==
  ASSUME TxTypes, Accounted, WithinBudget, NEW s \in Senders, EmitFails(s)
  PROVE  Accounted' /\ WithinBudget'
<1>1. /\ Moves(s, "idle", 0) /\ stage[s] = "approved" /\ 0 \in Nat
      /\ UNCHANGED <<now, records, boot, emitted>>
  BY DEF EmitFails, Return, Moves
<1>2. SentAir' = SentAir /\ HeldAir' = HeldAir - airtime[s]
  <2>1. /\ SentAir' = SentAir - SentPart("approved", airtime[s]) + SentPart("idle", 0)
        /\ HeldAir' = HeldAir - HeldPart("approved", airtime[s]) + HeldPart("idle", 0)
    BY <1>1, MovedAir
  <2>2. airtime[s] \in Nat /\ SentAir \in Nat /\ HeldAir \in Nat
    BY MaxAirtimeIsMost, AirTypes DEF TxTypes
  <2>3. /\ SentPart("approved", airtime[s]) = 0 /\ SentPart("idle", 0) = 0
        /\ HeldPart("approved", airtime[s]) = airtime[s] /\ HeldPart("idle", 0) = 0
    BY DEF SentPart, HeldPart
  <2> QED BY <2>1, <2>2, <2>3
<1>3. \A c \in Int : Recorded(c)' = Recorded(c)
  BY <1>1 DEF Recorded, Since, Air, Millis
<1>4. now - Window \in Int /\ airtime[s] \in Nat /\ (now - Window)' = now - Window
  BY <1>1, Counts, MaxAirtimeIsMost DEF TxTypes
<1>5. Accounted'
  BY <1>1, <1>2, <1>3, Quiet
<1>6. WithinBudget'
  <2>1. Recorded(now - Window)' = Recorded(now - Window) /\ Recorded(now - Window) \in Nat
    BY <1>3, <1>4, AirTypes
  <2>2. MostOnAir' = MostOnAir /\ MostOnAir \in Nat /\ HeldAir \in Nat
    BY Counts, AirTypes DEF MostOnAir, MaxAirtime
  <2> QED BY <1>2, <1>4, <2>1, <2>2 DEF WithinBudget
<1> QED
  BY <1>5, <1>6

\* A call passes the budget: with the records it is within the limit.
LEMMA ApproveStep ==
  ASSUME TxTypes, Accounted, WithinBudget, NEW s \in Senders, Approve(s)
  PROVE  Accounted' /\ WithinBudget'
<1>1. /\ stage' = [stage EXCEPT ![s] = "approved"] /\ stage[s] = "measuring"
      /\ records' = Unexpired(records, now)
      /\ HasBudget(Unexpired(records, now), airtime[s])
      /\ UNCHANGED <<now, airtime, boot, emitted>>
  BY DEF Approve
<1>2. Moves(s, "approved", airtime[s]) /\ airtime[s] \in 0..MaxAirtime /\ airtime[s] \in Nat
  BY <1>1, MaxAirtimeIsMost DEF Moves, TxTypes
<1>3. SentAir' = SentAir /\ HeldAir' = HeldAir + airtime[s]
  <2>1. /\ SentAir' = SentAir - SentPart("measuring", airtime[s])
                            + SentPart("approved", airtime[s])
        /\ HeldAir' = HeldAir - HeldPart("measuring", airtime[s])
                            + HeldPart("approved", airtime[s])
    BY <1>1, <1>2, MovedAir
  <2>2. SentAir \in Nat /\ HeldAir \in Nat
    BY AirTypes
  <2>3. /\ SentPart("measuring", airtime[s]) = 0 /\ SentPart("approved", airtime[s]) = 0
        /\ HeldPart("measuring", airtime[s]) = 0
        /\ HeldPart("approved", airtime[s]) = airtime[s]
    BY DEF SentPart, HeldPart
  <2> QED BY <1>2, <2>1, <2>2, <2>3
<1>4. \A c \in Int : c >= now - Window => Recorded(c)' = Recorded(c)
  BY <1>1, Pruned DEF Recorded
<1>5. now - Window \in Int /\ (now - Window)' = now - Window
  BY <1>1, Counts DEF TxTypes
<1>6. Accounted'
  BY <1>1, <1>3, <1>4, Quiet
\* What is recorded in the window is all that is left of the records.
<1>7. Recorded(now - Window)' + airtime[s] <= Limit
  <2>0. now \in Int /\ records \in Seq(Record_) /\ \A r \in Record_ : r.airtime \in Nat
    BY DEF TxTypes, Record_
  <2>1. Unexpired(records, now) \in Seq(Record_)
    BY <2>0, PruneSince, Counts
  <2>2. records' \in Seq(Record_)
    BY <1>1, <2>1
  <2>3. /\ Air(records', Since(records', now - Window)) <= Total(records')
        /\ Air(records', Since(records', now - Window)) \in Nat
        /\ Total(records') \in Nat
    BY <2>2, TotalOfAll
  <2>5. Total(records') + airtime[s] <= Limit
    BY <1>1 DEF HasBudget
  <2>6. Recorded(now - Window)' = Air(records', Since(records', now - Window))
    BY <1>5 DEF Recorded
  <2> QED
    BY <1>2, <2>3, <2>5, <2>6, Counts
\* Each of the others holds a packet at most.
<1>8. HeldAir <= (Cardinality(Senders) - 1) * MaxAirtime
  <2> DEFINE others == Senders \ {s}
             H == Calls(stage, {"approved", "sent"})
  <2>1. IsFiniteSet(others) /\ Cardinality(others) = Cardinality(Senders) - 1
    BY FS_RemoveElement, TxAssumption DEF TxAssumption
  <2>2. \A u \in others : airtime[u] \in 0..MaxAirtime /\ airtime[u] \in Nat
    BY MaxAirtimeIsMost DEF TxTypes
  <2>3. H \in SUBSET others
    BY <1>1 DEF Calls
  <2> HIDE DEF others, H
  <2>4. SumFunctionOnSet(airtime, H) <= SumFunctionOnSet(airtime, others)
    BY <2>1, <2>2, <2>3, SumSubset
  <2>5. SumFunctionOnSet(airtime, others) <= Cardinality(others) * MaxAirtime
    BY <2>1, <2>2, SumBound, MaxAirtimeIsMost
  <2>6. SumFunctionOnSet(airtime, others) \in Nat /\ Cardinality(others) * MaxAirtime \in Nat
    <3>1. \A m, n \in Nat : m * n \in Nat
      OBVIOUS
    <3> QED BY <2>1, <2>2, <3>1, SumType, FS_CardinalityType, MaxAirtimeIsMost
  <2>7. HeldAir = SumFunctionOnSet(airtime, H)
    BY DEF HeldAir, CallAir, H
  <2>8. HeldAir <= Cardinality(others) * MaxAirtime
    BY <2>4, <2>5, <2>6, <2>7, AirTypes
  <2> QED BY <2>1, <2>8
<1>9. WithinBudget'
  <2>1. Recorded(now - Window)' \in Nat
    <3>1. Recorded(now - Window)' = Recorded(now - Window)
      BY <1>4, <1>5
    <3> QED BY <1>5, <3>1, AirTypes
  <2>2. MostOnAir' = MostOnAir
    BY DEF MostOnAir, MaxAirtime
  <2> DEFINE m == (Cardinality(Senders) - 1) * MaxAirtime
  <2>3. m \in Int /\ MostOnAir = Limit + m /\ HeldAir <= m
    <3>1. \A i, j \in Int : i * j \in Int
      OBVIOUS
    <3>2. m \in Int
      BY <3>1, Counts, MaxAirtimeIsMost
    <3> QED BY <1>8, <3>2 DEF MostOnAir
  <2> HIDE DEF m
  <2>4. Recorded(now - Window)' + HeldAir' <= MostOnAir
    <3>1. HeldAir \in Nat /\ Limit \in Nat /\ MostOnAir \in Nat
      BY AirTypes, Counts
    <3> HIDE DEF Recorded
    <3> QED BY <1>2, <1>3, <1>7, <2>1, <2>3, <3>1
  <2>5. WithinBudget' <=> Recorded(now - Window)' + HeldAir' <= MostOnAir'
    BY DEF WithinBudget
  <2> QED
    BY <2>2, <2>4, <2>5
<1> QED
  BY <1>6, <1>9

\* The radio sends: from in progress to on the air, not yet recorded.
LEMMA EmitStep ==
  ASSUME TxTypes, Accounted, WithinBudget, NEW s \in Senders, Emit(s)
  PROVE  Accounted' /\ WithinBudget'
<1> DEFINE e == [at |-> now, airtime |-> airtime[s], boot |-> boot]
           n == Len(emitted)
<1>1. /\ Moves(s, "sent", airtime[s]) /\ stage[s] = "approved"
      /\ emitted' = Append(emitted, e)
      /\ UNCHANGED <<now, records, boot>>
  BY DEF Emit, Moves, TxTypes
<1>2. airtime[s] \in Nat /\ SentAir \in Nat /\ HeldAir \in Nat
  BY MaxAirtimeIsMost, AirTypes DEF TxTypes
<1>3. SentAir' = SentAir + airtime[s] /\ HeldAir' = HeldAir
  <2>1. /\ SentAir' = SentAir - SentPart("approved", airtime[s])
                            + SentPart("sent", airtime[s])
        /\ HeldAir' = HeldAir - HeldPart("approved", airtime[s])
                            + HeldPart("sent", airtime[s])
    BY <1>1, <1>2, MovedAir
  <2>2. /\ SentPart("approved", airtime[s]) = 0 /\ SentPart("sent", airtime[s]) = airtime[s]
        /\ HeldPart("approved", airtime[s]) = airtime[s]
        /\ HeldPart("sent", airtime[s]) = airtime[s]
    BY DEF SentPart, HeldPart
  <2> QED BY <1>2, <2>1, <2>2
<1>4. \A c \in Int : Recorded(c)' = Recorded(c)
  BY <1>1 DEF Recorded, Since, Air, Millis
<1>5. Accounted'
  <2> SUFFICES ASSUME NEW c \in Int, c >= now - Window
               PROVE  EmittedBy(boot, c)' <= Recorded(c)' + SentAir'
    BY <1>1 DEF Accounted
  <2>1. /\ e \in Emission /\ e.airtime = airtime[s] /\ e.at = now /\ e.boot = boot
        /\ boot \in Int /\ \A p \in Emission : p.airtime \in Nat
    BY <1>2 DEF Emission, TxTypes
  <2>2. emitted \in Seq(Emission) /\ EmittedSince(boot, c) \in SUBSET (1..n)
    BY DEF TxTypes, EmittedSince, Since
  <2>3. EmittedBy(boot, c)' = Air(Append(emitted, e), EmittedSince(boot, c)')
    BY <1>1 DEF EmittedBy
  <2>4. \/ EmittedSince(boot, c)' = EmittedSince(boot, c)
        \/ EmittedSince(boot, c)' = EmittedSince(boot, c) \cup {n + 1}
    <3>1. /\ Len(emitted') = n + 1 /\ \A i \in 1..n : emitted'[i] = emitted[i]
          /\ boot' = boot
      BY <1>1, <2>1, <2>2
    <3>2. n \in Nat
      BY <2>2
    <3>3. \A i : i \in EmittedSince(boot, c)' =>
                   i \in EmittedSince(boot, c) \cup {n + 1}
      BY <3>1, <3>2 DEF EmittedSince, Since
    <3>4. \A i : i \in EmittedSince(boot, c) => i \in EmittedSince(boot, c)'
      BY <3>1, <3>2 DEF EmittedSince, Since
    <3> QED BY <3>3, <3>4
  <2>5. /\ Air(Append(emitted, e), EmittedSince(boot, c)) = EmittedBy(boot, c)
        /\ Air(Append(emitted, e), EmittedSince(boot, c) \cup {n + 1})
             = EmittedBy(boot, c) + airtime[s]
    <3> DEFINE I == EmittedSince(boot, c)
    <3> HIDE DEF e, I
    <3>1. I \in SUBSET (1..n) /\ EmittedBy(boot, c) = Air(emitted, I)
      BY <2>2 DEF I, EmittedBy
    <3>2. /\ Air(Append(emitted, e), I) = Air(emitted, I)
          /\ Air(Append(emitted, e), I \cup {n + 1}) = Air(emitted, I) + e.airtime
      BY <2>1, <2>2, <3>1, AirAppend
    <3> QED BY <2>1, <3>1, <3>2 DEF I
  <2>6. EmittedBy(boot, c) <= Recorded(c) + SentAir
    BY DEF Accounted
  <2>7. Recorded(c) \in Nat /\ EmittedBy(boot, c) \in Nat
    BY <2>1, AirTypes
  <2>8. \/ EmittedBy(boot, c)' = EmittedBy(boot, c)
        \/ EmittedBy(boot, c)' = EmittedBy(boot, c) + airtime[s]
    <3> HIDE DEF e
    <3> QED BY <2>3, <2>4, <2>5, Zenon
  <2> QED
    BY <1>2, <1>3, <1>4, <2>6, <2>7, <2>8
<1>6. WithinBudget'
  <2>1. now - Window \in Int /\ (now - Window)' = now - Window
    BY <1>1, Counts DEF TxTypes
  <2>2. MostOnAir' = MostOnAir /\ Recorded(now - Window)' = Recorded(now - Window)
    BY <1>4, <2>1 DEF MostOnAir, MaxAirtime
  <2> QED
    BY <1>3, <2>2 DEF WithinBudget
<1> QED
  BY <1>5, <1>6

\* The record takes over what was in progress.
LEMMA RecordStep ==
  ASSUME TxTypes, Accounted, WithinBudget, NEW s \in Senders, Record(s)
  PROVE  Accounted' /\ WithinBudget'
<1> DEFINE r == [at |-> now, airtime |-> airtime[s]]
           rs == Append(records, r)
           n == Len(records)
<1>1. /\ Moves(s, "idle", 0) /\ stage[s] = "sent" /\ 0 \in Nat
      /\ records' = Unexpired(rs, now)
      /\ UNCHANGED <<now, boot, emitted>>
  BY DEF Record, Return, Moves
<1>2. /\ airtime[s] \in Nat /\ SentAir \in Nat /\ HeldAir \in Nat
      /\ now \in Nat /\ Window \in Nat /\ boot \in Nat
  BY MaxAirtimeIsMost, AirTypes, Counts DEF TxTypes
<1>3. SentAir' = SentAir - airtime[s] /\ HeldAir' = HeldAir - airtime[s]
  <2>1. /\ SentAir' = SentAir - SentPart("sent", airtime[s]) + SentPart("idle", 0)
        /\ HeldAir' = HeldAir - HeldPart("sent", airtime[s]) + HeldPart("idle", 0)
    BY <1>1, MovedAir
  <2>2. /\ SentPart("sent", airtime[s]) = airtime[s] /\ SentPart("idle", 0) = 0
        /\ HeldPart("sent", airtime[s]) = airtime[s] /\ HeldPart("idle", 0) = 0
    BY DEF SentPart, HeldPart
  <2> QED BY <1>2, <2>1, <2>2
\* The call that returns is one of those that have transmitted.
<1>4. airtime[s] <= SentAir
  <2> DEFINE S == Calls(stage, {"sent"})
  <2>1. s \in S /\ S \in SUBSET Senders
    BY <1>1 DEF Calls
  <2>2. IsFiniteSet(S) /\ \A u \in S : airtime[u] \in Nat
    <3>1. \A u \in Senders : airtime[u] \in Nat
      BY MaxAirtimeIsMost DEF TxTypes
    <3> HIDE DEF S
    <3> QED BY <2>1, <3>1, AirTypes
  <2> HIDE DEF S
  <2>3. SumFunctionOnSet(airtime, S) = airtime[s] + SumFunctionOnSet(airtime, S \ {s})
    BY <2>1, <2>2, SumRemove
  <2>4. SumFunctionOnSet(airtime, S \ {s}) \in Nat
    <3>1. IsFiniteSet(S \ {s}) /\ \A u \in S \ {s} : airtime[u] \in Nat
      BY <2>2, FS_RemoveElement
    <3> QED BY <3>1, SumType
  <2> QED BY <1>2, <2>3, <2>4 DEF SentAir, CallAir, S
<1>5. ASSUME NEW c \in Int, c >= now - Window
      PROVE  Recorded(c)' = IF c <= now THEN Recorded(c) + airtime[s] ELSE Recorded(c)
  <2>1. /\ r \in Record_ /\ r.airtime = airtime[s] /\ r.at = now
        /\ \A p \in Record_ : p.airtime \in Nat
    BY <1>2 DEF Record_
  <2>2. records \in Seq(Record_) /\ Since(records, c) \in SUBSET (1..n) /\ n \in Nat
    BY DEF TxTypes, Since
  <2>3. rs \in Seq(Record_) /\ Len(rs) = n + 1 /\ rs[n + 1] = r
        /\ \A i \in 1..n : rs[i] = records[i]
    <3> HIDE DEF r
    <3> QED BY <2>1, <2>2
  <2> HIDE DEF r
  <2>4. /\ Air(rs, Since(records, c)) = Recorded(c)
        /\ Air(rs, Since(records, c) \cup {n + 1}) = Recorded(c) + airtime[s]
    BY <2>1, <2>2, AirAppend DEF Recorded
  <2> HIDE DEF rs
  <2>5. Recorded(c)' = Air(rs, Since(rs, c))
    <3>1. now \in Int
      BY <1>2
    <3> QED BY <1>1, <1>2, <1>5, <2>3, <3>1, PruneSince DEF Recorded
  <2>6. Since(rs, c) = IF c <= now THEN Since(records, c) \cup {n + 1} ELSE Since(records, c)
    <3>1. \A i : i \in Since(rs, c) <=> \/ i \in Since(records, c)
                                        \/ i = n + 1 /\ now >= c
      BY <2>1, <2>2, <2>3 DEF Since
    <3>2. now >= c <=> c <= now
      BY <1>2
    <3> QED BY <3>1, <3>2
  <2> QED BY <2>4, <2>5, <2>6
<1>6. Accounted'
  <2> SUFFICES ASSUME NEW c \in Int, c >= now - Window
               PROVE  EmittedBy(boot, c)' <= Recorded(c)' + SentAir'
    BY <1>1 DEF Accounted
  <2>1. EmittedBy(boot, c)' = EmittedBy(boot, c)
    BY <1>1 DEF EmittedBy, EmittedSince, Since, Air, Millis
  <2>2. EmittedBy(boot, c) <= Recorded(c) + SentAir
    BY DEF Accounted
  <2>3. Recorded(c) \in Nat /\ EmittedBy(boot, c) \in Nat
    <3>1. boot \in Int
      BY <1>2
    <3> QED BY <3>1, AirTypes
  <2>4. CASE c <= now
    BY <1>2, <1>3, <1>5, <2>1, <2>2, <2>3, <2>4
  \* Nothing was emitted after now.
  <2>5. CASE ~ (c <= now)
    <3>1. EmittedSince(boot, c) = {}
      <4>1. \A i \in 1..Len(emitted) : emitted[i].at \in Nat /\ emitted[i].at <= now
        BY EmissionTypes DEF TxTypes
      <4> QED BY <1>2, <2>5, <4>1 DEF EmittedSince, Since
    <3>2. EmittedBy(boot, c) = 0
      BY <3>1, SumEmpty DEF EmittedBy, Air
    <3>3. Recorded(c)' = Recorded(c)
      BY <1>5, <2>5
    <3> QED BY <1>2, <1>3, <1>4, <2>1, <2>3, <3>2, <3>3
  <2> QED BY <2>4, <2>5
<1>7. WithinBudget'
  <2>1. now - Window \in Int /\ (now - Window)' = now - Window /\ now - Window <= now
    BY <1>1, <1>2
  <2>2. Recorded(now - Window)' = Recorded(now - Window) + airtime[s]
    BY <1>5, <2>1
  <2>3. MostOnAir' = MostOnAir /\ Recorded(now - Window) \in Nat
    BY <2>1, AirTypes DEF MostOnAir, MaxAirtime
  <2>4. WithinBudget' <=> Recorded(now - Window)' + HeldAir' <= MostOnAir'
    BY DEF WithinBudget
  <2>5. Recorded(now - Window) + HeldAir <= MostOnAir
    BY DEF WithinBudget
  <2> QED
    BY <1>2, <1>3, <2>2, <2>3, <2>4, <2>5
<1> QED
  BY <1>6, <1>7

\* A restart forgets records and calls, and starts a new account.
LEMMA RestartStep ==
  ASSUME TxTypes, Restart
  PROVE  Accounted' /\ WithinBudget'
<1>1. /\ boot' = boot + 1 /\ records' = <<>> /\ emitted' = emitted /\ boot \in Nat
      /\ \A s \in Senders : stage'[s] = "idle"
  BY DEF Restart, TxTypes
<1>2. SentAir' = 0 /\ HeldAir' = 0
  <2>1. Calls(stage', {"sent"}) = {} /\ Calls(stage', {"approved", "sent"}) = {}
    BY <1>1 DEF Calls
  <2> QED
    BY <2>1, SumEmpty DEF SentAir, HeldAir, CallAir
<1>3. \A c : Recorded(c)' = 0
  <2>1. \A c : Since(records', c) = {}
    BY <1>1 DEF Since
  <2> QED
    BY <2>1, SumEmpty DEF Recorded, Air
<1>4. \A c : EmittedBy(boot, c)' = 0
  <2>1. \A i \in 1..Len(emitted) : emitted[i].boot \in Nat /\ emitted[i].boot <= boot
    BY EmissionTypes DEF TxTypes
  <2>2. \A c : EmittedSince(boot, c)' = {}
    BY <1>1, <2>1 DEF EmittedSince, Since
  <2> QED
    BY <2>2, SumEmpty DEF EmittedBy, Air
<1>5. MostOnAir' = MostOnAir
  BY DEF MostOnAir, MaxAirtime
<1> QED
  BY <1>2, <1>3, <1>4, <1>5, Counts DEF Accounted, WithinBudget

\* Time takes packets out of the window, never into it.
LEMMA TickStep ==
  ASSUME TxTypes, Accounted, WithinBudget, Tick
  PROVE  Accounted' /\ WithinBudget'
<1>1. now' = now + 1 /\ UNCHANGED <<records, stage, airtime, boot, emitted>>
  BY DEF Tick
<1>2. now \in Nat /\ Window \in Nat /\ HeldAir \in Nat /\ MostOnAir \in Nat
  BY AirTypes, Counts DEF TxTypes
<1>3. SentAir' = SentAir /\ HeldAir' = HeldAir /\ MostOnAir' = MostOnAir
  BY <1>1 DEF SentAir, HeldAir, CallAir, Calls, MostOnAir, MaxAirtime
<1>4. \A c \in Int : /\ Recorded(c)' = Recorded(c)
                     /\ EmittedBy(boot, c)' = EmittedBy(boot, c)
  BY <1>1 DEF Recorded, EmittedBy, EmittedSince, Since, Air, Millis
<1>5. Accounted'
  <2> SUFFICES ASSUME NEW c \in Int, c >= now' - Window
               PROVE  EmittedBy(boot, c)' <= Recorded(c)' + SentAir'
    BY DEF Accounted
  <2>1. c >= now - Window
    BY <1>1, <1>2
  <2> QED
    BY <1>3, <1>4, <2>1 DEF Accounted
<1>6. WithinBudget'
  <2> DEFINE d == now - Window
  <2>1. d \in Int /\ (now - Window)' = d + 1
    BY <1>1, <1>2
  <2> HIDE DEF d
  <2>2. Recorded(d + 1) <= Recorded(d) /\ Recorded(d + 1) \in Nat /\ Recorded(d) \in Nat
    <3>1. records \in Seq(Record_) /\ \A p \in Record_ : p.airtime \in Nat
      BY DEF TxTypes, Record_
    <3>2. Since(records, d) \in SUBSET (1..Len(records))
      BY DEF Since
    <3>3. Since(records, d + 1) \in SUBSET Since(records, d)
      <4>1. \A i \in 1..Len(records) : records[i].at \in Nat
        <5>1. \A i \in 1..Len(records) : records[i] \in Record_
          BY <3>1
        <5> QED BY <5>1 DEF Record_
      <4> QED BY <2>1, <4>1 DEF Since
    <3>4. Air(records, Since(records, d + 1)) <= Air(records, Since(records, d))
      BY <3>1, <3>2, <3>3, AirNat
    <3>5. d + 1 \in Int
      BY <2>1
    <3> QED BY <2>1, <3>4, <3>5, AirTypes DEF Recorded
  <2>3. Recorded(d) + HeldAir <= MostOnAir
    BY DEF WithinBudget, d
  <2>4. Recorded(now - Window)' = Recorded(d + 1)
    <3>1. Recorded(now - Window)' = Air(records', Since(records', (now - Window)'))
      BY DEF Recorded
    <3> QED BY <1>1, <2>1, <3>1 DEF Recorded
  <2>5. WithinBudget' <=> Recorded(now - Window)' + HeldAir' <= MostOnAir'
    BY DEF WithinBudget
  <2> QED
    BY <1>2, <1>3, <2>2, <2>3, <2>4, <2>5
<1> QED
  BY <1>5, <1>6

\* Every action keeps the account and the budget.
LEMMA BudgetInv == TxTypes /\ Accounted /\ WithinBudget /\ [Next]_vars
                     => Accounted' /\ WithinBudget'
<1> SUFFICES ASSUME TxTypes, Accounted, WithinBudget, [Next]_vars
             PROVE  Accounted' /\ WithinBudget'
  OBVIOUS
<1>1. ASSUME NEW s \in Senders,
             \/ \E ms \in Airtimes : Request(s, ms)
             \/ Refuse(s) \/ Approve(s) \/ Emit(s) \/ EmitFails(s) \/ Record(s)
      PROVE  Accounted' /\ WithinBudget'
  BY <1>1, RequestStep, RefuseStep, ApproveStep, EmitStep, EmitFailsStep, RecordStep
<1>2. CASE Observe \/ UNCHANGED vars
  <2>1. now - Window \in Int /\ UNCHANGED <<now, boot, emitted, stage, airtime>>
    BY <1>2, Counts DEF TxTypes, Observe, vars
  <2>2. \A c \in Int : c >= now - Window => Recorded(c)' = Recorded(c)
    <3>1. CASE Observe
      BY <3>1, Pruned DEF Observe, Recorded
    <3>2. CASE UNCHANGED vars
      BY <3>2 DEF vars, Recorded, Since, Air, Millis
    <3> QED BY <1>2, <3>1, <3>2
  <2>3. /\ SentAir' = SentAir /\ HeldAir' = HeldAir /\ (now - Window)' = now - Window
        /\ MostOnAir' = MostOnAir
    BY <2>1 DEF SentAir, HeldAir, CallAir, Calls, MostOnAir, MaxAirtime
  <2> QED
    BY <2>1, <2>2, <2>3, Quiet DEF WithinBudget
<1>3. CASE Restart
  BY <1>3, RestartStep
<1>4. CASE Tick
  BY <1>4, TickStep
<1> QED
  BY <1>1, <1>2, <1>3, <1>4 DEF Next

\* What boot b emitted in the window that ends at t.
InWindow(b, t) == {i \in 1..Len(emitted) : /\ emitted[i].boot = b
                                           /\ emitted[i].at \in (t - Window)..t}

\* What one start of the service has put on the air within a window.
LEMMA OnAirOf ==
  ASSUME TxTypes, NEW b, NEW t
  PROVE  /\ OnAir({b}, t) = Air(emitted, InWindow(b, t))
         /\ OnAir({b}, t) \in Nat
         /\ \A J \in SUBSET InWindow(b, t) : Air(emitted, J) <= OnAir({b}, t)
<1>1. OnAir({b}, t) = Air(emitted, InWindow(b, t))
  <2>1. {i \in 1..Len(emitted) : /\ emitted[i].boot \in {b}
                                 /\ emitted[i].at \in (t - Window)..t} = InWindow(b, t)
    BY DEF InWindow
  <2> QED
    BY <2>1 DEF OnAir, Air
<1>2. /\ InWindow(b, t) \in SUBSET (1..Len(emitted)) /\ emitted \in Seq(Emission)
      /\ \A p \in Emission : p.airtime \in Nat
  BY DEF InWindow, TxTypes, Emission
<1> QED
  BY <1>1, <1>2, AirNat

\* A window that ends later holds more only when something is emitted now.
LEMMA DutyStep ==
  ASSUME TxTypes, [Next]_vars, DutyBound, BoundNow'
  PROVE  DutyBound'
<1> DEFINE n == Len(emitted)
<1>0. /\ now \in Nat /\ boot \in Nat /\ Window \in Nat /\ MostOnAir \in Nat /\ n \in Nat
      /\ \A i \in 1..n : /\ emitted[i].at \in Nat /\ emitted[i].at <= now
                         /\ emitted[i].boot \in Nat /\ emitted[i].boot <= boot
  BY Counts, EmissionTypes DEF TxTypes
<1>1. \A b \in 1..boot, t \in 0..now : OnAir({b}, t) <= MostOnAir
  BY DEF DutyBound, MostOnAir
<1> SUFFICES ASSUME NEW b \in 1..boot', NEW t \in 0..now'
             PROVE  OnAir({b}, t)' <= MostOnAir
  BY DEF DutyBound, MostOnAir, MaxAirtime
<1>2. ASSUME emitted' = emitted, boot' \in {boot, boot + 1}, now' \in {now, now + 1}
      PROVE  OnAir({b}, t)' <= MostOnAir
  <2>0. OnAir({b}, t)' = OnAir({b}, t) /\ b \in 1..(boot + 1) /\ t \in 0..(now + 1)
    BY <1>0, <1>2 DEF OnAir, Millis
  <2>1. CASE b = boot + 1
    <3>1. InWindow(b, t) = {}
      BY <1>0, <2>1 DEF InWindow
    <3>2. OnAir({b}, t) = Air(emitted, {})
      BY <3>1, OnAirOf
    <3> QED
      BY <1>0, <2>0, <3>2, SumEmpty DEF Air
  <2>2. CASE b # boot + 1 /\ t = now + 1
    <3>1. InWindow(b, t) \in SUBSET InWindow(b, now)
      BY <1>0, <2>2 DEF InWindow
    <3>2. OnAir({b}, t) <= OnAir({b}, now)
      BY <3>1, OnAirOf
    <3>3. OnAir({b}, now) <= MostOnAir
      BY <1>0, <1>1, <2>0, <2>2
    <3>4. OnAir({b}, t) \in Nat /\ OnAir({b}, now) \in Nat
      BY OnAirOf
    <3> QED
      BY <1>0, <2>0, <3>2, <3>3, <3>4
  <2>3. CASE b # boot + 1 /\ t # now + 1
    BY <1>0, <1>1, <2>0, <2>3
  <2> QED BY <2>1, <2>2, <2>3
<1>3. ASSUME NEW s \in Senders, Emit(s)
      PROVE  OnAir({b}, t)' <= MostOnAir
  <2> DEFINE e == [at |-> now, airtime |-> airtime[s], boot |-> boot]
  <2>1. emitted' = Append(emitted, e) /\ boot' = boot /\ now' = now
    BY <1>3 DEF Emit
  <2>2. CASE b = boot /\ t = now
    BY <2>1, <2>2 DEF BoundNow, MostOnAir, MaxAirtime
  <2>3. CASE ~ (b = boot /\ t = now)
    <3>0. /\ emitted \in Seq(Emission) /\ e \in Emission /\ e.at = now /\ e.boot = boot
          /\ \A p \in Emission : p.airtime \in Nat
      BY MaxAirtimeIsMost DEF TxTypes, Emission
    <3> HIDE DEF e
    <3>1. /\ Len(emitted') = n + 1 /\ emitted'[n + 1] = e
          /\ \A i \in 1..n : emitted'[i] = emitted[i]
      BY <2>1, <3>0
    <3>2. \A i : i \in InWindow(b, t)' <=> i \in InWindow(b, t)
      BY <1>0, <2>1, <2>3, <3>0, <3>1 DEF InWindow
    <3>3. InWindow(b, t)' = InWindow(b, t)
      BY <3>2
    <3>4. InWindow(b, t) \in SUBSET (1..n)
      BY DEF InWindow
    <3>5. Air(emitted', InWindow(b, t)) = Air(emitted, InWindow(b, t))
      <4> DEFINE I == InWindow(b, t)
      <4> HIDE DEF I
      <4>1. I \in SUBSET (1..Len(emitted))
        BY <3>4 DEF I
      <4>2. /\ Air(Append(emitted, e), I) = Air(emitted, I)
            /\ Air(Append(emitted, e), I \cup {n + 1}) = Air(emitted, I) + e.airtime
        BY <3>0, <4>1, AirAppend
      <4> QED BY <2>1, <4>2 DEF I
    <3>6. OnAir({b}, t)' = Air(emitted', InWindow(b, t)')
      <4>1. {i \in 1..Len(emitted') : /\ emitted'[i].boot \in {b}
                                      /\ emitted'[i].at \in (t - Window)..t} = InWindow(b, t)'
        BY DEF InWindow
      <4> QED BY <4>1 DEF OnAir, Air
    <3>7. OnAir({b}, t)' = OnAir({b}, t)
      BY <3>3, <3>5, <3>6, OnAirOf
    <3> QED
      BY <1>1, <2>1, <3>7
  <2> QED BY <2>2, <2>3
<1>4. \/ emitted' = emitted /\ boot' \in {boot, boot + 1} /\ now' \in {now, now + 1}
      \/ \E s \in Senders : Emit(s)
  BY DEF Next, vars, Request, Refuse, Approve, EmitFails, Record, Return, Observe,
         Restart, Tick
<1> QED
  BY <1>2, <1>3, <1>4

TxInv == TxTypes /\ Accounted /\ WithinBudget

\* Nothing is on the air when the service first starts.
LEMMA TxInitInv == Init => TxInv /\ DutyBound
<1> SUFFICES ASSUME Init PROVE TxInv /\ DutyBound
  OBVIOUS
<1>0. /\ now = 0 /\ boot = 1 /\ records = <<>> /\ emitted = <<>>
      /\ \A s \in Senders : stage[s] = "idle"
  BY DEF Init
<1>1. TxTypes
  BY MaxAirtimeIsMost DEF TxTypes, Init, Stages
<1>2. /\ (\A c : Since(records, c) = {}) /\ \A b, c : EmittedSince(b, c) = {}
      /\ \A b, t : InWindow(b, t) = {}
  BY <1>0 DEF Since, EmittedSince, InWindow
<1>3. /\ (\A c : Recorded(c) = 0) /\ \A b, c : EmittedBy(b, c) = 0
      /\ \A b, t : OnAir({b}, t) = 0
  BY <1>1, <1>2, SumEmpty, OnAirOf DEF Recorded, EmittedBy, Air
<1>4. SentAir = 0 /\ HeldAir = 0
  <2>1. Calls(stage, {"sent"}) = {} /\ Calls(stage, {"approved", "sent"}) = {}
    BY <1>0 DEF Calls
  <2> QED
    BY <2>1, SumEmpty DEF SentAir, HeldAir, CallAir
<1>5. Accounted /\ WithinBudget
  BY <1>3, <1>4, Counts DEF Accounted, WithinBudget
<1>6. DutyBound
  BY <1>3, Counts DEF DutyBound, MostOnAir
<1> QED
  BY <1>1, <1>5, <1>6 DEF TxInv

\* What is accounted for in the window is on the records that are left, or the
\* ones that will be pruned at the next look.
LEMMA AccountOfAll == TxInv => AirtimeAccounted
<1> SUFFICES ASSUME TxInv PROVE AirtimeAccounted
  OBVIOUS
<1> USE DEF TxInv
<1>1. OnAir({boot}, now) = EmittedBy(boot, now - Window)
  BY OnAirNow
<1>2. now - Window \in Int /\ now - Window >= now - Window /\ boot \in Int
  BY Counts DEF TxTypes
<1>3. EmittedBy(boot, now - Window) <= Recorded(now - Window) + SentAir
  BY <1>2 DEF Accounted
<1>4. Recorded(now - Window) <= Total(records) /\ Total(records) \in Nat
  BY TotalOfAll DEF TxTypes, Recorded
<1>5. SentAir = SumFunctionOnSet(airtime, {s \in Senders : stage[s] = "sent"})
  <2>1. Calls(stage, {"sent"}) = {s \in Senders : stage[s] = "sent"}
    BY DEF Calls
  <2> QED BY <2>1 DEF SentAir, CallAir
<1>6. /\ EmittedBy(boot, now - Window) \in Nat /\ Recorded(now - Window) \in Nat
      /\ SentAir \in Nat
  BY <1>2, AirTypes
<1>7. OnAir({boot}, now) <= Total(records) + SentAir
  BY <1>1, <1>3, <1>4, <1>6
<1> QED
  BY <1>5, <1>7 DEF AirtimeAccounted

\* The composed system moves the transmit service as its own next-state
\* relation allows, or not at all.
LEMMA Composed == [MsgNext]_allVars => [Next]_vars
<1> SUFFICES ASSUME [MsgNext]_allVars PROVE [Next]_vars
  OBVIOUS
<1> USE MessagingAssumption DEF MessagingAssumption
<1>1. ASSUME NEW s \in Chats, RouteSteps(s) PROVE [Next]_vars
  BY <1>1 DEF RouteSteps, Send, SendFails, OnTheAir, Transmitted, RouteLooksUp,
              RouteInserts, RouteAnswers, Next
<1>2. ASSUME NEW c \in Copies, TaskSteps(c) PROVE [Next]_vars
  BY <1>2 DEF TaskSteps, Hear, TaskLooksUp, TaskChecks, TaskInserts, TaskUpdates,
              TaskEnds
<1>3. ASSUME NEW p \in Packets, DeleteConversation(p) PROVE [Next]_vars
  BY <1>3 DEF DeleteConversation
<1>4. CASE ServiceRestarts
  BY <1>4 DEF ServiceRestarts, Next
<1>5. CASE Others
  BY <1>5 DEF Others, Next
<1>6. CASE UNCHANGED allVars
  BY <1>6 DEF allVars
<1> QED
  BY <1>1, <1>2, <1>3, <1>4, <1>5, <1>6 DEF MsgNext

\* The messages, their tasks and their table leave the transmit service as it
\* is: every behaviour of the composition is one of TxService.
THEOREM MessagingImplementsTxService == MsgSpec => Spec
<1>1. MsgInit => Init
  BY DEF MsgInit
<1> QED
  BY <1>1, Composed, PTL DEF MsgSpec, Spec

\* Between two starts of the service, the airtime in any window is at most the
\* limit and one packet more for each further call in progress (check_budget
\* before, record_tx after the radio is awaited), for any limit, window, number
\* of calls and set of airtimes.
THEOREM DutyCycleBounded == MsgSpec => []DutyBound
<1>1. Init => TxInv /\ DutyBound
  BY TxInitInv
<1>2. TxInv /\ [Next]_vars => TxInv'
  BY TxTypesInv, BudgetInv DEF TxInv
<1>3. TxInv => BoundNow
  BY BudgetBounds DEF TxInv
<1>4. TxInv /\ DutyBound /\ BoundNow' /\ [Next]_vars => DutyBound'
  BY DutyStep DEF TxInv
<1> QED
  BY <1>1, <1>2, <1>3, <1>4, MessagingImplementsTxService, PTL DEF Spec

\* What this start of the service has sent in the window is recorded, or its
\* sender has yet to record it (record_tx, and the pruning at every look).
THEOREM NothingOnAirForgotten == MsgSpec => []AirtimeAccounted
<1>1. Init => TxInv
  BY TxInitInv
<1>2. TxInv /\ [Next]_vars => TxInv'
  BY TxTypesInv, BudgetInv DEF TxInv
<1> QED
  BY <1>1, <1>2, AccountOfAll, MessagingImplementsTxService, PTL DEF Spec

-----------------------------------------------------------------------------
(* The rows of a packet.                                                   *)

Row == [id : Nat, packet : Packets, count : Nat]
Phases == {"unheard", "lookup", "check", "insert", "update", "commit", "done"}
Task == [at : Phases, row : Nat, count : Nat]

RowTypes == /\ table \in SUBSET Row /\ disk \in SUBSET Row /\ lastId \in Nat
            /\ task \in [Copies -> Task] /\ route \in [Chats -> Stops]

\* A copy in hand, and one that has yet to write what it read.
Busy(c) == task[c].at \notin {"unheard", "done"}
Unwritten(c) == task[c].at \in {"lookup", "check", "insert", "update"}

\* The count a packet's row may have reached.
HeardOf(p) == {c \in AllHeard : c[1] = p}
Most(p) == Heard(p) + (IF p \in Chats THEN 1 ELSE 0)

Ids == /\ \A r \in table \cup disk : r.id \in 1..lastId
       /\ \A q, r \in table \cup disk : q.id = r.id => q.packet = r.packet
       /\ \A q, r \in table : q.id = r.id => q = r
       /\ \A q, r \in disk : q.id = r.id => q = r

\* A message is on the air from its emission on.
Airing == /\ aired \subseteq Chats /\ answered \subseteq aired
          /\ \A s \in Chats : /\ route[s] = "idle" => s \notin aired
                              /\ route[s] \in {"lookup", "insert", "commit"} => s \in aired
                              /\ stage[s] = "sent" => s \in aired

\* Of a message that is not stored yet, no copy was heard while nobody had it in hand.
Fresh == \A s \in Chats \ overlapped : route[s] \notin {"done", "commit"} =>
            /\ \A c \in Copies : c[1] = s => task[c] = Unheard
            /\ \A r \in table \cup disk : r.packet # s

OneHand == \A c \in Copies : Busy(c) /\ c[1] \notin overlapped =>
              /\ \A d \in Copies : Busy(d) /\ d[1] = c[1] => c = d
              /\ c[1] \in Chats => route[c[1]] = "done"

OneRow == /\ \A q, r \in table : q.packet = r.packet /\ q.packet \notin overlapped => q = r
          /\ \A q, r \in disk : q.packet = r.packet /\ q.packet \notin overlapped => q = r

Counted == \A r \in table \cup disk : r.packet \notin overlapped => r.count <= Most(r.packet)

\* A copy in hand that has not written is not in the count yet.
Uncounted == \A r \in table \cup disk : \A c \in Copies :
                c[1] = r.packet /\ r.packet \notin overlapped /\ Unwritten(c)
                   => r.count < Most(r.packet)

\* What a copy found is still so when it writes.
Inserting == \A c \in Copies : task[c].at = "insert" /\ c[1] \notin overlapped
                => \A r \in table : r.packet # c[1]
Updating == \A c \in Copies : task[c].at = "update" =>
               /\ task[c].row \in 1..lastId
               /\ \A r \in table \cup disk : r.id = task[c].row => r.packet = c[1]
               /\ c[1] \notin overlapped => task[c].count <= Most(c[1])

RowsInv == /\ RowTypes /\ Ids /\ Fresh /\ OneHand /\ OneRow
           /\ Counted /\ Uncounted /\ Inserting /\ Updating

-----------------------------------------------------------------------------
\* How often a packet was heard.
LEMMA HeardType ==
  ASSUME NEW p
  PROVE  IsFiniteSet(HeardOf(p)) /\ Heard(p) = Cardinality(HeardOf(p)) /\ Heard(p) \in Nat
<1>1. HeardOf(p) \subseteq {p} \X (1..MaxHeard)
  BY DEF HeardOf, AllHeard, Copies
<1>2. IsFiniteSet({p} \X (1..MaxHeard))
  <2>1. IsFiniteSet(1..MaxHeard)
    BY FS_Interval, MessagingAssumption DEF MessagingAssumption
  <2>2. IsFiniteSet({p})
    BY FS_Singleton
  <2> QED
    BY <2>1, <2>2, FS_Product
<1>3. IsFiniteSet(HeardOf(p))
  BY <1>1, <1>2, FS_Subset
<1> QED
  BY <1>3, FS_CardinalityType DEF Heard, HeardOf

\* A copy that a task has in hand was heard.
LEMMA HeardSome ==
  ASSUME NEW c \in Copies, task[c] # Unheard
  PROVE  Heard(c[1]) >= 1
<1>1. c \in HeardOf(c[1])
  BY DEF HeardOf, AllHeard
<1>2. HeardOf(c[1]) # {}
  BY <1>1
<1>3. Cardinality(HeardOf(c[1])) # 0
  BY <1>2, HeardType, FS_EmptySet
<1> QED
  BY <1>3, HeardType

\* Nothing is heard when no task starts.
LEMMA HeardKept ==
  ASSUME \A c \in Copies : task'[c] = Unheard <=> task[c] = Unheard
  PROVE  \A p : Heard(p)' = Heard(p) /\ Most(p)' = Most(p)
<1>1. AllHeard' = AllHeard
  BY DEF AllHeard
<1> QED
  BY <1>1 DEF Heard, Most

\* A copy heard is one more for its packet and for no other.
LEMMA HeardMore ==
  ASSUME NEW c \in Copies, task[c] = Unheard, task'[c] # Unheard,
         \A d \in Copies \ {c} : task'[d] = task[d]
  PROVE  /\ Heard(c[1])' = Heard(c[1]) + 1 /\ Most(c[1])' = Most(c[1]) + 1
         /\ \A p : p # c[1] => Heard(p)' = Heard(p) /\ Most(p)' = Most(p)
<1>1. AllHeard' = AllHeard \cup {c} /\ c \notin AllHeard
  BY DEF AllHeard
<1>2. HeardOf(c[1])' = HeardOf(c[1]) \cup {c} /\ c \notin HeardOf(c[1])
  BY <1>1 DEF HeardOf
<1>3. Cardinality(HeardOf(c[1]) \cup {c}) = Cardinality(HeardOf(c[1])) + 1
  BY <1>2, HeardType, FS_AddElement
<1>4. Heard(c[1])' = Cardinality(HeardOf(c[1])') /\ Heard(c[1]) \in Nat
      /\ Heard(c[1]) = Cardinality(HeardOf(c[1]))
  BY HeardType DEF Heard, HeardOf
<1>5. ASSUME NEW p, p # c[1] PROVE Heard(p)' = Heard(p)
  <2>1. {d \in AllHeard' : d[1] = p} = {d \in AllHeard : d[1] = p}
    BY <1>1, <1>5
  <2> QED BY <2>1 DEF Heard
<1> QED
  BY <1>2, <1>3, <1>4, <1>5 DEF Most

\* The most a row can count: the copies heard, and the sending of its own.
LEMMA MostType == ASSUME NEW p PROVE Most(p) \in Nat /\ Heard(p) \in Nat /\ Most(p) >= Heard(p)
                                     /\ (p \in Chats => Most(p) >= 1)
  BY HeardType DEF Most

\* The row a lookup finds is one of them.
LEMMA FirstIn ==
  ASSUME NEW rows \in SUBSET Row, rows # {}
  PROVE  First(rows) \in rows
<1> DEFINE D == {r.id : r \in rows}
<1>1. D \subseteq Nat /\ D # {}
  BY DEF Row
<1>2. PICK m \in D : \A d \in D : m <= d
  <2> HIDE DEF D
  <2> QED BY <1>1, LeastNatural
<1>3. \E r \in rows : \A q \in rows : r.id <= q.id
  BY <1>2
<1> QED
  BY <1>3, Zenon DEF First

\* A step that writes nothing new: tables lose rows or are written over by one
\* another, and tasks go on to check, or end.
Calm == /\ table' \subseteq table \/ table' \subseteq disk
        /\ disk' \subseteq table \/ disk' \subseteq disk
        /\ lastId' = lastId /\ overlapped' = overlapped
        /\ task' \in [Copies -> Task] /\ route' \in [Chats -> Stops]
        /\ \A c \in Copies :
              \/ task'[c] = task[c] /\ (task[c].at = "insert" => table' \subseteq table)
              \/ task[c].at = "lookup" /\ task'[c].at = "check"
              \/ task[c] # Unheard /\ task'[c] = Finished
        /\ \A s \in Chats : \/ route'[s] = route[s]
                            \/ route[s] # "done" /\ route'[s] # "commit"
                               /\ (route[s] = "commit" => route'[s] = "done")

\* A calm step keeps the rows.
LEMMA CalmInv == ASSUME RowsInv, Calm PROVE RowsInv'
<1> USE DEF RowsInv, Calm
<1>1. RowTypes'
  BY DEF RowTypes
<1>2. Ids'
  BY DEF Ids
<1>3. /\ \A c \in Copies : task'[c] = Unheard <=> task[c] = Unheard
      /\ \A c \in Copies : Busy(c)' => Busy(c)
      /\ \A c \in Copies : Unwritten(c)' => Unwritten(c)
      /\ \A c \in Copies : task'[c].at \in {"insert", "update"} => task'[c] = task[c]
  BY DEF Busy, Unwritten, Unheard, Finished
<1>4. \A p : Most(p)' = Most(p)
  BY <1>3, HeardKept
<1>5. Fresh'
  BY <1>3 DEF Fresh, RowTypes
<1>6. OneHand'
  BY <1>3 DEF OneHand, RowTypes
<1>7. OneRow'
  BY DEF OneRow
<1>8. Counted'
  BY <1>4 DEF Counted
<1>9. Uncounted'
  BY <1>3, <1>4 DEF Uncounted
<1>10. Inserting'
  BY <1>3 DEF Inserting, Finished
<1>11. Updating'
  BY <1>3, <1>4 DEF Updating
<1> QED
  BY <1>1, <1>2, <1>5, <1>6, <1>7, <1>8, <1>9, <1>10, <1>11

\* A copy is heard: its packet overlaps, or nobody had it in hand.
LEMMA HearInv == ASSUME RowsInv, Airing, NEW c \in Copies, Hear(c) PROVE RowsInv'
<1> USE DEF RowsInv
<1>0. /\ task[c] = Unheard /\ c[1] \in Foreign \cup aired
      /\ task' = [task EXCEPT ![c].at = "lookup"]
      /\ overlapped' = IF InHand(c[1]) THEN overlapped \cup {c[1]} ELSE overlapped
      /\ UNCHANGED <<table, disk, lastId, route>>
  BY DEF Hear
<1>1. /\ task'[c].at = "lookup" /\ task' \in [Copies -> Task]
      /\ \A d \in Copies \ {c} : task'[d] = task[d]
  BY <1>0 DEF RowTypes, Task, Phases
<1>2. task'[c] # Unheard /\ ~ Busy(c) /\ ~ Unwritten(c)
  BY <1>0, <1>1 DEF Unheard, Busy, Unwritten
<1>3. /\ \A p : p # c[1] => Most(p)' = Most(p)
      /\ Most(c[1])' = Most(c[1]) + 1 /\ Most(c[1]) \in Nat
  BY <1>0, <1>1, <1>2, HeardMore, MostType
<1>4. /\ \A d \in Copies : d # c => (Busy(d)' <=> Busy(d)) /\ (Unwritten(d)' <=> Unwritten(d))
      /\ \A d \in Copies : task'[d].at \in {"insert", "update"} => task'[d] = task[d]
  BY <1>1 DEF Busy, Unwritten
\* A packet that does not overlap now was in nobody's hand.
<1>5. ASSUME c[1] \notin overlapped'
      PROVE  /\ c[1] \notin overlapped /\ \A d \in Copies : d[1] = c[1] => ~ Busy(d)
             /\ c[1] \in Chats => route[c[1]] = "done"
  <2>1. ~ InHand(c[1])
    BY <1>0, <1>5
  <2>2. c[1] \in Chats => route[c[1]] \in {"idle", "done"}
    BY <2>1 DEF InHand
  <2>3. c[1] \in Chats => c[1] \in aired \/ c[1] \in Foreign
    BY <1>0
  <2> QED
    BY <1>0, <1>5, <2>1, <2>2, <2>3, MessagingAssumption
    DEF InHand, Busy, Airing, MessagingAssumption
<1>6. overlapped \subseteq overlapped'
  BY <1>0
<1>11. RowTypes'
  BY <1>0, <1>1 DEF RowTypes
<1>12. Ids'
  BY <1>0 DEF Ids
<1>13. Fresh'
  BY <1>0, <1>1, <1>5, <1>6 DEF Fresh
<1>14. OneHand'
  BY <1>0, <1>4, <1>5, <1>6 DEF OneHand
<1>15. OneRow'
  BY <1>0, <1>6 DEF OneRow
<1>16. Counted'
  BY <1>0, <1>3, <1>6 DEF Counted, RowTypes, Row
<1>17. Uncounted'
  BY <1>0, <1>3, <1>4, <1>5, <1>6 DEF Uncounted, Counted, RowTypes, Row
<1>18. Inserting'
  BY <1>0, <1>4, <1>6 DEF Inserting
<1>19. Updating'
  BY <1>0, <1>3, <1>4, <1>6 DEF Updating, RowTypes, Task
<1> QED
  BY <1>11, <1>12, <1>13, <1>14, <1>15, <1>16, <1>17, <1>18, <1>19

\* A task looks for the row of the packet it has heard.
LEMMA ChecksInv == ASSUME RowsInv, NEW c \in Copies, TaskChecks(c) PROVE RowsInv'
<1> USE DEF RowsInv
<1> DEFINE rows == RowsOf(table, c[1])
           v == IF rows = {} THEN [at |-> "insert", row |-> 0, count |-> 0]
                ELSE [at |-> "update", row |-> First(rows).id,
                      count |-> First(rows).count + 1]
<1>0. /\ task[c].at = "check" /\ task' = [task EXCEPT ![c] = v]
      /\ UNCHANGED <<table, disk, lastId, route, overlapped>>
  BY DEF TaskChecks, Stored
<1>a. rows # {} => First(rows) \in table /\ First(rows).packet = c[1]
  <2>1. rows \in SUBSET Row
    BY DEF RowTypes, RowsOf
  <2> HIDE DEF rows
  <2>2. rows # {} => First(rows) \in rows
    BY <2>1, FirstIn
  <2> QED BY <2>2 DEF rows, RowsOf
<1> DEFINE f == First(rows)
<1>b. \/ rows = {} /\ v.at = "insert" /\ v.row = 0 /\ v.count = 0 /\ v \in Task
      \/ rows # {} /\ v.at = "update" /\ v.row = f.id /\ v.count = f.count + 1 /\ v \in Task
         /\ f \in table /\ f.packet = c[1] /\ f \in Row
  BY <1>a DEF RowTypes, Task, Phases, Row
<1>c. rows = {} => \A r \in table : r.packet # c[1]
  BY DEF RowsOf
<1> HIDE DEF rows, v, f
<1>1. /\ task'[c] = v /\ task' \in [Copies -> Task]
      /\ \A d \in Copies \ {c} : task'[d] = task[d]
  BY <1>0, <1>b DEF RowTypes
<1>2. v # Unheard /\ task[c] # Unheard /\ Busy(c) /\ Unwritten(c)
  BY <1>0, <1>b DEF Unheard, Busy, Unwritten
<1>3. \A p : Most(p)' = Most(p)
  BY <1>1, <1>2, HeardKept
<1>4. \A d \in Copies : (Busy(d)' => Busy(d)) /\ (Unwritten(d)' => Unwritten(d))
  BY <1>1, <1>2 DEF Busy, Unwritten
<1>11. RowTypes'
  BY <1>0, <1>1 DEF RowTypes
<1>12. Ids'
  BY <1>0 DEF Ids
<1>13. Fresh'
  BY <1>0, <1>1, <1>2 DEF Fresh
<1>14. OneHand'
  BY <1>0, <1>4 DEF OneHand
<1>15. OneRow'
  BY <1>0 DEF OneRow
<1>16. Counted'
  BY <1>0, <1>3 DEF Counted
<1>17. Uncounted'
  BY <1>0, <1>3, <1>4 DEF Uncounted
<1>18. Inserting'
  BY <1>0, <1>1, <1>b, <1>c DEF Inserting
<1>19. Updating'
  <2> SUFFICES ASSUME NEW d \in Copies, task'[d].at = "update"
               PROVE  /\ task'[d].row \in 1..lastId
                      /\ \A r \in table \cup disk : r.id = task'[d].row => r.packet = d[1]
                      /\ d[1] \notin overlapped => task'[d].count <= Most(d[1])
    BY <1>0, <1>3 DEF Updating
  <2>1. CASE d # c
    BY <1>1, <2>1 DEF Updating
  <2>2. CASE d = c
    <3>1. /\ task'[d] = v /\ v.row = f.id /\ v.count = f.count + 1
          /\ f \in table /\ f.packet = c[1] /\ f \in Row
      BY <1>1, <1>b, <2>2
    <3>2. f.id \in 1..lastId
      BY <3>1 DEF Ids
    <3>3. \A r \in table \cup disk : r.id = f.id => r.packet = c[1]
      BY <3>1 DEF Ids
    <3>4. c[1] \notin overlapped => f.count < Most(c[1])
      BY <1>2, <3>1 DEF Uncounted
    <3>5. f.count \in Nat /\ Most(c[1]) \in Nat
      BY <3>1, MostType DEF Row
    <3> QED BY <2>2, <3>1, <3>2, <3>3, <3>4, <3>5
  <2> QED BY <2>1, <2>2
<1> QED
  BY <1>11, <1>12, <1>13, <1>14, <1>15, <1>16, <1>17, <1>18, <1>19

\* A row is inserted by the one who has its packet in hand, when the table has
\* none of it.
LEMMA InsertInv ==
  ASSUME RowsInv, NEW p \in Packets, Insert(p),
         UNCHANGED <<disk, overlapped>>,
         task' \in [Copies -> Task], route' \in [Chats -> Stops],
         \A c \in Copies : \/ task'[c] = task[c]
                           \/ task[c].at = "insert" /\ task'[c].at = "commit" /\ c[1] = p,
         \A s \in Chats : \/ route'[s] = route[s]
                          \/ route[s] = "insert" /\ route'[s] = "commit" /\ s = p,
         p \notin overlapped => /\ \A r \in table : r.packet # p
                                /\ \A c \in Copies : c[1] = p => ~ Unwritten(c)'
                                                              /\ ~ (task'[c].at = "update")
                                /\ p \in Chats => route'[p] \in {"commit", "done"}
                                /\ Most(p) >= 1
  PROVE  RowsInv'
<1> USE DEF RowsInv
<1> DEFINE new == [id |-> lastId + 1, packet |-> p, count |-> 1]
<1>0. table' = table \cup {new} /\ lastId' = lastId + 1 /\ lastId \in Nat
  BY DEF Insert, RowTypes
<1>1. new \in Row /\ new.id = lastId + 1 /\ new.packet = p /\ new.count = 1
  BY <1>0 DEF Row
<1> HIDE DEF new
<1>2. \A r \in table \cup disk : r.id \in 1..lastId
  BY DEF Ids
<1>3. \A c \in Copies : /\ task'[c] = Unheard <=> task[c] = Unheard
                        /\ Busy(c)' => Busy(c)
                        /\ Unwritten(c)' => Unwritten(c)
                        /\ task'[c].at \in {"insert", "update"} => task'[c] = task[c]
  BY DEF Busy, Unwritten, Unheard
<1>4. \A q : Most(q)' = Most(q)
  BY <1>3, HeardKept
<1>11. RowTypes'
  BY <1>0, <1>1 DEF RowTypes
<1>12. Ids'
  BY <1>0, <1>1, <1>2 DEF Ids
<1>13. Fresh'
  <2> SUFFICES ASSUME NEW s \in Chats \ overlapped, route'[s] \notin {"done", "commit"}
               PROVE  /\ \A c \in Copies : c[1] = s => task'[c] = Unheard
                      /\ \A r \in table' \cup disk : r.packet # s
    BY DEF Fresh
  <2>1. s # p /\ route[s] \notin {"done", "commit"}
    OBVIOUS
  <2> QED
    BY <1>0, <1>1, <1>3, <2>1 DEF Fresh
<1>14. OneHand'
  <2> SUFFICES ASSUME NEW c \in Copies, Busy(c)', c[1] \notin overlapped
               PROVE  /\ \A d \in Copies : Busy(d)' /\ d[1] = c[1] => c = d
                      /\ c[1] \in Chats => route'[c[1]] = "done"
    BY DEF OneHand
  <2>1. Busy(c)
    BY <1>3
  <2> QED
    BY <1>3, <2>1 DEF OneHand
<1>15. OneRow'
  BY <1>0, <1>1 DEF OneRow
<1>16. Counted'
  BY <1>0, <1>1, <1>4 DEF Counted
<1>17. Uncounted'
  <2> SUFFICES ASSUME NEW r \in table' \cup disk, NEW c \in Copies, c[1] = r.packet,
                      r.packet \notin overlapped, Unwritten(c)'
               PROVE  r.count < Most(r.packet)
    BY <1>4 DEF Uncounted
  <2>1. r.packet # p
    OBVIOUS
  <2> QED
    BY <1>0, <1>1, <1>3, <2>1 DEF Uncounted
<1>18. Inserting'
  <2> SUFFICES ASSUME NEW c \in Copies, task'[c].at = "insert", c[1] \notin overlapped,
                      NEW r \in table'
               PROVE  r.packet # c[1]
    BY DEF Inserting
  <2>1. c[1] # p
    BY DEF Unwritten
  <2> QED
    BY <1>0, <1>1, <1>3, <2>1 DEF Inserting
<1>19. Updating'
  <2> SUFFICES ASSUME NEW c \in Copies, task'[c].at = "update"
               PROVE  /\ task'[c].row \in 1..lastId'
                      /\ \A r \in table' \cup disk : r.id = task'[c].row => r.packet = c[1]
                      /\ c[1] \notin overlapped => task'[c].count <= Most(c[1])
    BY <1>4 DEF Updating
  <2> QED
    BY <1>0, <1>1, <1>3 DEF Updating
<1> QED
  BY <1>11, <1>12, <1>13, <1>14, <1>15, <1>16, <1>17, <1>18, <1>19

\* The route inserts the row of a message that was sent.
LEMMA RouteInsertsInv ==
  ASSUME RowsInv, NEW s \in Chats, RouteInserts(s) PROVE RowsInv'
<1> USE DEF RowsInv
<1>1. /\ Insert(s) /\ UNCHANGED <<disk, overlapped, task>> /\ s \in Packets
      /\ route[s] = "insert" /\ route' = [route EXCEPT ![s] = "commit"]
  BY DEF RouteInserts, Goto, Packets
<1>2. task' \in [Copies -> Task] /\ route' \in [Chats -> Stops] /\ route'[s] = "commit"
      /\ \A u \in Chats : u # s => route'[u] = route[u]
  BY <1>1 DEF RowTypes, Stops
<1>3. s \notin overlapped => /\ \A r \in table : r.packet # s
                             /\ \A c \in Copies : c[1] = s => task'[c] = Unheard
  BY <1>1 DEF Fresh
<1>4. \A c \in Copies : task'[c] = Unheard => ~ Unwritten(c)' /\ ~ (task'[c].at = "update")
  BY DEF Unwritten, Unheard
<1>5. Most(s) >= 1
  BY MostType
<1> QED
  BY <1>1, <1>2, <1>3, <1>4, <1>5, InsertInv

\* A task that found no row inserts one.
LEMMA TaskInsertsInv ==
  ASSUME RowsInv, NEW c \in Copies, TaskInserts(c) PROVE RowsInv'
<1> USE DEF RowsInv
<1>1. /\ Insert(c[1]) /\ UNCHANGED <<disk, overlapped, route>>
      /\ task[c].at = "insert" /\ task' = [task EXCEPT ![c].at = "commit"]
  BY DEF TaskInserts
<1>0. c[1] \in Packets
  BY DEF Copies
<1>2. /\ task' \in [Copies -> Task] /\ route' \in [Chats -> Stops]
      /\ task'[c].at = "commit" /\ \A d \in Copies : d # c => task'[d] = task[d]
  BY <1>1 DEF RowTypes, Task, Phases
<1>3. c[1] \notin overlapped => /\ \A r \in table : r.packet # c[1]
                                /\ c[1] \in Chats => route'[c[1]] = "done"
                                /\ \A d \in Copies : d[1] = c[1] /\ Busy(d) => d = c
  BY <1>1 DEF Inserting, OneHand, Busy
<1>4. c[1] \notin overlapped =>
         \A d \in Copies : d[1] = c[1] => ~ Unwritten(d)' /\ ~ (task'[d].at = "update")
  BY <1>2, <1>3 DEF Unwritten, Busy
<1>5. Most(c[1]) >= 1
  <2>1. task[c] # Unheard
    BY <1>1 DEF Unheard
  <2> QED
    BY <2>1, HeardSome, MostType
<1> QED
  BY <1>0, <1>1, <1>2, <1>3, <1>4, <1>5, InsertInv

\* A task that found a row counts one more.
LEMMA UpdatesInv == ASSUME RowsInv, NEW c \in Copies, TaskUpdates(c) PROVE RowsInv'
<1> USE DEF RowsInv
<1> DEFINE n == task[c].count
           k == task[c].row
           new(r) == IF r.id = k THEN [r EXCEPT !.count = n] ELSE r
<1>0. /\ task[c].at = "update" /\ task' = [task EXCEPT ![c].at = "commit"]
      /\ table' = {new(r) : r \in table}
      /\ UNCHANGED <<disk, lastId, route, overlapped>>
  BY DEF TaskUpdates
<1>1. /\ task'[c].at = "commit" /\ task' \in [Copies -> Task]
      /\ \A d \in Copies \ {c} : task'[d] = task[d]
  BY <1>0 DEF RowTypes, Task, Phases
<1>2. \A r \in table : /\ new(r) \in Row /\ new(r).id = r.id /\ new(r).packet = r.packet
                       /\ r.id = k => new(r).count = n
                       /\ r.id # k => new(r) = r
                       /\ r \in Row
  <2>1. n \in Nat /\ table \in SUBSET Row
    BY DEF RowTypes, Task
  <2> QED BY <2>1 DEF Row
<1>3. /\ k \in 1..lastId /\ \A r \in table : r.id = k => r.packet = c[1]
      /\ c[1] \notin overlapped => n <= Most(c[1])
  BY <1>0 DEF Updating
<1> HIDE DEF new, n, k
<1>a. \A q \in table' : \E r \in table : q = new(r)
  BY <1>0
<1>4. \A d \in Copies : /\ task'[d] = Unheard <=> task[d] = Unheard
                        /\ Busy(d)' => Busy(d)
                        /\ Unwritten(d)' => Unwritten(d) /\ d # c
                        /\ task'[d].at \in {"insert", "update"} => task'[d] = task[d] /\ d # c
  BY <1>0, <1>1 DEF Busy, Unwritten, Unheard
<1>5. \A p : Most(p)' = Most(p)
  BY <1>4, HeardKept
<1>11. RowTypes'
  BY <1>0, <1>1, <1>2, <1>a DEF RowTypes
<1>12. Ids'
  BY <1>0, <1>2, <1>a DEF Ids
<1>13. Fresh'
  BY <1>0, <1>2, <1>a, <1>4 DEF Fresh
<1>14. OneHand'
  BY <1>0, <1>4 DEF OneHand
<1>15. OneRow'
  BY <1>0, <1>2, <1>a DEF OneRow
<1>16. Counted'
  BY <1>0, <1>2, <1>3, <1>a, <1>5 DEF Counted
<1>17. Uncounted'
  <2> SUFFICES ASSUME NEW r \in table' \cup disk, NEW d \in Copies, d[1] = r.packet,
                      r.packet \notin overlapped, Unwritten(d)'
               PROVE  r.count < Most(r.packet)
    BY <1>0, <1>5 DEF Uncounted
  <2>1. Unwritten(d) /\ d # c /\ Busy(d) /\ Busy(c)
    BY <1>0, <1>4 DEF Busy, Unwritten
  <2>2. d[1] # c[1]
    BY <1>0, <2>1 DEF OneHand
  <2> QED
    BY <1>2, <1>3, <1>a, <2>1, <2>2 DEF Uncounted
<1>18. Inserting'
  BY <1>0, <1>2, <1>a, <1>4 DEF Inserting
<1>19. Updating'
  BY <1>0, <1>2, <1>a, <1>4, <1>5 DEF Updating
<1> QED
  BY <1>11, <1>12, <1>13, <1>14, <1>15, <1>16, <1>17, <1>18, <1>19

\* Every action keeps the rows.
LEMMA RowsNext == RowsInv /\ Airing /\ Sending /\ [MsgNext]_allVars => RowsInv'
<1> SUFFICES ASSUME RowsInv, Airing, Sending, [MsgNext]_allVars PROVE RowsInv'
  OBVIOUS
<1>0. /\ route \in [Chats -> Stops] /\ task \in [Copies -> Task]
      /\ \A s \in Chats : stage[s] # "idle" => route[s] = "sending"
  BY DEF RowsInv, RowTypes, Sending
<1> DEFINE Still == UNCHANGED <<table, disk, lastId, overlapped, task>>
\* The requests.
<1>1. ASSUME NEW s \in Chats, RouteSteps(s) PROVE RowsInv'
  <2>1. ASSUME Still, NEW x \in Stops \ {"commit"}, route[s] # "done", route[s] # "commit",
               route' = [route EXCEPT ![s] = x]
        PROVE  RowsInv'
    BY <1>0, <2>1, CalmInv DEF Calm
  <2>2. ASSUME NEW ms \in Airtimes, Send(s, ms) PROVE RowsInv'
    BY <2>1, <2>2 DEF Send, Goto, Stops
  <2>3. CASE SendFails(s)
    <3>1. route[s] = "sending"
      BY <1>0, <2>3 DEF SendFails, Refuse, EmitFails
    <3> QED BY <2>1, <2>3, <3>1 DEF SendFails, Goto, Stops
  <2>4. CASE OnTheAir(s)
    BY <1>0, <2>4, CalmInv DEF OnTheAir, Calm
  <2>5. CASE Transmitted(s)
    <3>1. route[s] = "sending"
      BY <1>0, <2>5 DEF Transmitted, Record
    <3> QED BY <2>1, <2>5, <3>1 DEF Transmitted, Goto, Stops
  <2>6. CASE RouteLooksUp(s)
    BY <2>1, <2>6 DEF RouteLooksUp, Goto, Stops
  <2>7. CASE RouteInserts(s)
    BY <2>7, RouteInsertsInv
  <2>8. CASE RouteAnswers(s)
    <3>1. /\ disk' = table /\ UNCHANGED <<table, lastId, overlapped, task>>
          /\ route[s] = "commit" /\ route' = [route EXCEPT ![s] = "done"]
      BY <2>8 DEF RouteAnswers, Goto
    <3> QED BY <1>0, <3>1, CalmInv DEF Calm, Stops
  <2> QED
    BY <1>1, <2>2, <2>3, <2>4, <2>5, <2>6, <2>7, <2>8 DEF RouteSteps
\* The tasks.
<1>2. ASSUME NEW c \in Copies, TaskSteps(c) PROVE RowsInv'
  <2>1. CASE Hear(c)
    BY <2>1, HearInv
  <2>2. CASE TaskLooksUp(c)
    <3>1. /\ task[c].at = "lookup" /\ task' = [task EXCEPT ![c].at = "check"]
          /\ disk' \in {disk, table} /\ UNCHANGED <<table, lastId, overlapped, route>>
      BY <2>2 DEF TaskLooksUp
    <3>2. /\ task' \in [Copies -> Task] /\ task'[c].at = "check"
          /\ \A d \in Copies \ {c} : task'[d] = task[d]
      BY <1>0, <3>1 DEF Task, Phases
    <3> QED BY <1>0, <3>1, <3>2, CalmInv DEF Calm
  <2>3. CASE TaskChecks(c)
    BY <2>3, ChecksInv
  <2>4. CASE TaskInserts(c)
    BY <2>4, TaskInsertsInv
  <2>5. CASE TaskUpdates(c)
    BY <2>5, UpdatesInv
  <2>6. CASE TaskEnds(c)
    <3>1. /\ task[c].at = "commit" /\ task' = [task EXCEPT ![c] = Finished]
          /\ disk' = table /\ UNCHANGED <<table, lastId, overlapped, route>>
      BY <2>6 DEF TaskEnds
    <3>2. /\ task' \in [Copies -> Task] /\ task'[c] = Finished /\ task[c] # Unheard
          /\ \A d \in Copies \ {c} : task'[d] = task[d]
      BY <1>0, <3>1 DEF Task, Phases, Finished, Unheard
    <3> QED BY <1>0, <3>1, <3>2, CalmInv DEF Calm
  <2> QED
    BY <1>2, <2>1, <2>2, <2>3, <2>4, <2>5, <2>6 DEF TaskSteps
<1>3. ASSUME NEW p \in Packets, DeleteConversation(p) PROVE RowsInv'
  <2>1. /\ table' \subseteq table /\ disk' \in {disk, table'}
        /\ UNCHANGED <<lastId, overlapped, route, task>>
    BY <1>3 DEF DeleteConversation
  <2> QED BY <1>0, <2>1, CalmInv DEF Calm
<1>4. CASE ServiceRestarts
  <2>1. /\ table' = disk /\ UNCHANGED <<disk, lastId, overlapped>>
        /\ route' = [s \in Chats |-> IF route[s] = "idle" THEN "idle" ELSE "done"]
        /\ task' = [c \in Copies |-> IF task[c] = Unheard THEN Unheard ELSE Finished]
    BY <1>4 DEF ServiceRestarts
  <2>2. /\ route' \in [Chats -> Stops] /\ task' \in [Copies -> Task]
        /\ Unheard.at # "insert"
    BY <2>1 DEF Stops, Task, Phases, Unheard, Finished
  <2>3. \A c \in Copies : \/ task[c] = Unheard /\ task'[c] = Unheard
                          \/ task[c] # Unheard /\ task'[c] = Finished
    BY <2>1
  <2>4. \A s \in Chats : \/ route'[s] = route[s]
                         \/ route[s] # "done" /\ route'[s] = "done"
    BY <1>0, <2>1
  <2> HIDE DEF Still
  <2> QED BY <1>0, <2>1, <2>2, <2>3, <2>4, CalmInv DEF Calm
<1>5. CASE Others \/ UNCHANGED allVars
  <2>1. UNCHANGED messageVars
    BY <1>5 DEF Others, allVars
  <2> QED BY <1>0, <2>1, CalmInv DEF Calm, messageVars
<1> QED
  BY <1>1, <1>2, <1>3, <1>4, <1>5 DEF MsgNext

\* Every action keeps what is on the air and what awaits it in step.
LEMMA AiringNext == Airing /\ Sending /\ [MsgNext]_allVars => Airing'
<1> SUFFICES ASSUME Airing, Sending, [MsgNext]_allVars PROVE Airing'
  OBVIOUS
<1> USE MessagingAssumption DEF MessagingAssumption, Airing, Sending
<1>1. ASSUME NEW s \in Chats, RouteSteps(s) PROVE Airing'
  <2>1. ASSUME NEW ms \in Airtimes, Send(s, ms) PROVE Airing'
    BY <2>1 DEF Send, Goto, Request
  <2>2. CASE SendFails(s)
    BY <2>2 DEF SendFails, Goto, Refuse, EmitFails, Return
  <2>3. CASE OnTheAir(s)
    <3>1. route[s] = "sending"
      BY <2>3 DEF OnTheAir, Emit
    <3> QED BY <2>3, <3>1 DEF OnTheAir, Emit
  <2>4. CASE Transmitted(s)
    BY <2>4 DEF Transmitted, Goto, Record, Return
  <2>5. CASE RouteLooksUp(s)
    BY <2>5 DEF RouteLooksUp, Goto, vars
  <2>6. CASE RouteInserts(s)
    BY <2>6 DEF RouteInserts, Goto, vars
  <2>7. CASE RouteAnswers(s)
    <3>1. s \in aired /\ aired' = aired /\ answered' = answered \cup {s} /\ stage' = stage
          /\ route' = [route EXCEPT ![s] = "done"]
      BY <2>7 DEF RouteAnswers, Goto, vars
    <3> QED BY <3>1
  <2> QED
    BY <1>1, <2>1, <2>2, <2>3, <2>4, <2>5, <2>6, <2>7 DEF RouteSteps
<1>2. ASSUME UNCHANGED <<route, aired, answered, stage>> PROVE Airing'
  BY <1>2
<1>3. ASSUME NEW c \in Copies, TaskSteps(c) PROVE Airing'
  BY <1>2, <1>3 DEF TaskSteps, Hear, TaskLooksUp, TaskChecks, TaskInserts,
                    TaskUpdates, TaskEnds, vars
<1>4. ASSUME NEW p \in Packets, DeleteConversation(p) PROVE Airing'
  BY <1>2, <1>4 DEF DeleteConversation, vars
<1>5. CASE ServiceRestarts
  BY <1>5 DEF ServiceRestarts, Restart
<1>6. CASE Others
  <2>1. UNCHANGED <<route, aired, answered>>
    BY <1>6 DEF Others, messageVars
  <2>2. ASSUME NEW s \in Senders \ Chats,
               \/ \E ms \in Airtimes : Request(s, ms)
               \/ Refuse(s) \/ Emit(s) \/ EmitFails(s) \/ Record(s)
        PROVE  Airing'
    BY <2>1, <2>2 DEF Request, Refuse, Emit, EmitFails, Record, Return
  <2>3. ASSUME NEW s \in Senders, Approve(s) PROVE Airing'
    BY <2>1, <2>3 DEF Approve
  <2>4. CASE Observe \/ Tick
    BY <2>1, <2>4 DEF Observe, Tick
  <2> QED
    BY <1>6, <2>2, <2>3, <2>4 DEF Others
<1>7. CASE UNCHANGED allVars
  BY <1>2, <1>7 DEF allVars, vars, messageVars
<1> QED
  BY <1>1, <1>3, <1>4, <1>5, <1>6, <1>7 DEF MsgNext

RowsIInv == RowsInv /\ Airing /\ Sending

\* There are no rows when the service first starts.
LEMMA RowsInit == MsgInit => RowsIInv
<1> SUFFICES ASSUME MsgInit PROVE RowsIInv
  OBVIOUS
<1>1. /\ table = {} /\ disk = {} /\ lastId = 0 /\ aired = {} /\ answered = {}
      /\ overlapped = {} /\ route = [s \in Chats |-> "idle"]
      /\ task = [c \in Copies |-> Unheard] /\ stage = [s \in Senders |-> "idle"]
  BY DEF MsgInit, Init
<1>2. Sending
  BY InitInv DEF IInv
<1>3. Airing
  BY <1>1, MessagingAssumption DEF Airing, MessagingAssumption
<1>4. \A c \in Copies : task[c].at = "unheard" /\ task[c] = Unheard
  BY <1>1 DEF Unheard
<1>5. RowTypes /\ Ids
  BY <1>1 DEF RowTypes, Ids, Task, Phases, Stops, Unheard
<1>6. Fresh /\ OneHand /\ OneRow /\ Counted /\ Uncounted /\ Inserting /\ Updating
  BY <1>1, <1>4 DEF Fresh, OneHand, Busy, OneRow, Counted, Uncounted, Inserting, Updating
<1> QED
  BY <1>2, <1>3, <1>5, <1>6 DEF RowsIInv, RowsInv

\* The three parts together are inductive.
LEMMA RowsStep == RowsIInv /\ [MsgNext]_allVars => RowsIInv'
  BY RowsNext, AiringNext, SendingInv DEF RowsIInv

\* A packet has one row, which counts no more than was heard of it and sent,
\* unless two of its handlers were at work at the same time (save_received's
\* look at what is stored, the write that follows it and save_sent), for any
\* number of requests, packets, copies and restarts.
THEOREM PacketHasOneRow == MsgSpec => []OneRowUnlessOverlap
<1>1. RowsIInv => OneRowUnlessOverlap
  <2> SUFFICES ASSUME RowsIInv, NEW p \in Packets \ overlapped
               PROVE  /\ Cardinality(RowsOf(table, p)) <= 1
                      /\ \A r \in RowsOf(table, p) : r.count <= Most(p)
    BY DEF OneRowUnlessOverlap, Most
  <2>1. \A q, r \in RowsOf(table, p) : q = r
    BY DEF RowsIInv, RowsInv, OneRow, RowsOf
  <2>2. Cardinality(RowsOf(table, p)) <= 1
    <3>1. CASE RowsOf(table, p) = {}
      BY <3>1, FS_EmptySet
    <3>2. ASSUME NEW r \in RowsOf(table, p) PROVE Cardinality(RowsOf(table, p)) <= 1
      <4>1. RowsOf(table, p) = {r}
        BY <2>1, <3>2
      <4>2. Cardinality({r}) = 1
        BY FS_Singleton
      <4> QED BY <4>1, <4>2
    <3> QED BY <3>1, <3>2
  <2>3. \A r \in RowsOf(table, p) : r.count <= Most(p)
    BY DEF RowsIInv, RowsInv, Counted, RowsOf
  <2> QED BY <2>2, <2>3
<1> QED
  BY <1>1, RowsInit, RowsStep, PTL DEF MsgSpec

-----------------------------------------------------------------------------
(* The types.                                                              *)

\* Pruning leaves the end of the records,
LEMMA PruneSuffix ==
  ASSUME NEW rs, Len(rs) \in Nat, NEW t
  PROVE  \E k \in 0..Len(rs) : Unexpired(rs, t) = SubSeq(rs, k + 1, Len(rs))
<1> DEFINE old == {i \in 1..Len(rs) : \A j \in 1..i : rs[j].at < t - Window}
<1>1. old \in SUBSET (1..Len(rs))
  OBVIOUS
<1>2. Unexpired(rs, t) = SubSeq(rs, Cardinality(old) + 1, Len(rs))
  BY DEF Unexpired
<1> HIDE DEF old
<1>3. Cardinality(old) \in 0..Len(rs)
  <2> DEFINE n == Len(rs)
  <2>1. IsFiniteSet(1..n) /\ Cardinality(1..n) = IF 1 > n THEN 0 ELSE n - 1 + 1
    BY FS_Interval
  <2>2. Cardinality(1..n) = n
    BY <2>1
  <2>3. IsFiniteSet(old) /\ Cardinality(old) <= Cardinality(1..n)
    BY <1>1, <2>1, FS_Subset
  <2> QED BY <2>2, <2>3, FS_CardinalityType
<1> QED
  BY <1>2, <1>3

\* The records, in the order of their times.
Ordered(rs) == /\ \A i \in 1..Len(rs) : rs[i].at \in 0..now
               /\ \A i, j \in 1..Len(rs) : i < j => rs[i].at <= rs[j].at

\* still in the order of time.
LEMMA PruneOrdered ==
  ASSUME NEW rs \in Seq(Record_), Ordered(rs), NEW t
  PROVE  Ordered(Unexpired(rs, t))
<1>1. PICK k \in 0..Len(rs) : Unexpired(rs, t) = SubSeq(rs, k + 1, Len(rs))
  BY PruneSuffix
<1> DEFINE us == SubSeq(rs, k + 1, Len(rs))
<1>2. /\ Len(us) = Len(rs) - k /\ Len(rs) \in Nat
      /\ \A i \in 1..(Len(rs) - k) : us[i] = rs[i + k] /\ i + k \in 1..Len(rs)
  OBVIOUS
<1> HIDE DEF us
<1>3. Ordered(us)
  <2>1. \A i \in 1..Len(us) : i \in 1..(Len(rs) - k)
    BY <1>2
  <2>2. \A i, j \in 1..Len(us) : i < j => i + k < j + k
    BY <1>2
  <2> QED BY <1>2, <2>1, <2>2 DEF Ordered
<1> QED
  BY <1>1, <1>3 DEF us

\* Every action keeps the types of the transmit service.
LEMMA TxTypeNext == TxTypes /\ TxTypeOK /\ [Next]_vars => TxTypeOK'
<1> SUFFICES ASSUME TxTypes, TxTypeOK, [Next]_vars PROVE TxTypeOK'
  OBVIOUS
<1>0. /\ records \in Seq(Record_) /\ Ordered(records) /\ now \in 0..Horizon /\ Horizon \in Nat
      /\ boot \in 1..MaxBoots /\ MaxBoots \in Nat /\ airtime \in [Senders -> Airtimes \cup {0}]
      /\ stage \in [Senders -> Stages]
  BY TxAssumption DEF TxTypes, TxTypeOK, Ordered, TxAssumption
<1>1. Ordered(Unexpired(records, now))
  BY <1>0, PruneOrdered
<1> DEFINE Kept == /\ now' \in 0..Horizon /\ now <= now' /\ boot' \in 1..MaxBoots
                   /\ airtime' \in [Senders -> Airtimes \cup {0}]
                   /\ stage' \in [Senders -> Stages]
<1>2. ASSUME Kept, records' = records \/ (Ordered(records') /\ now' = now)
      PROVE  TxTypeOK'
  BY <1>0, <1>2 DEF TxTypeOK, Ordered
<1>3. ASSUME NEW s \in Senders, NEW ms \in Airtimes, Request(s, ms) PROVE TxTypeOK'
  BY <1>0, <1>2, <1>3 DEF Request, Stages
<1>4. ASSUME NEW s \in Senders, Refuse(s) PROVE TxTypeOK'
  BY <1>0, <1>1, <1>2, <1>4 DEF Refuse, Return, Stages, Ordered
<1>5. ASSUME NEW s \in Senders, Approve(s) PROVE TxTypeOK'
  BY <1>0, <1>1, <1>2, <1>5 DEF Approve, Stages, Ordered
<1>6. ASSUME NEW s \in Senders, Emit(s) PROVE TxTypeOK'
  BY <1>0, <1>2, <1>6 DEF Emit, Stages
<1>7. ASSUME NEW s \in Senders, EmitFails(s) PROVE TxTypeOK'
  BY <1>0, <1>2, <1>7 DEF EmitFails, Return, Stages
<1>8. ASSUME NEW s \in Senders, Record(s) PROVE TxTypeOK'
  <2> DEFINE r == [at |-> now, airtime |-> airtime[s]]
             rs == Append(records, r)
  <2>1. r \in Record_ /\ r.at = now
    BY DEF TxTypes, Record_
  <2>2. /\ rs \in Seq(Record_) /\ Len(rs) = Len(records) + 1 /\ Len(records) \in Nat
        /\ rs[Len(records) + 1] = r /\ \A i \in 1..Len(records) : rs[i] = records[i]
    <3> HIDE DEF r
    <3> QED BY <1>0, <2>1
  <2>3. records' = Unexpired(rs, now) /\ Return(s) /\ UNCHANGED <<now, boot>>
    BY <1>8 DEF Record
  <2> HIDE DEF r, rs
  <2>4. Ordered(rs)
    <3> DEFINE n == Len(records)
    <3>1. /\ n \in Nat /\ now \in Nat /\ \A i \in 1..n : records[i].at \in 0..now
          /\ \A i, j \in 1..n : i < j => records[i].at <= records[j].at
      BY <1>0, <2>2 DEF Ordered
    <3>2. \A i \in 1..(n + 1) : (i \in 1..n /\ rs[i] = records[i]) \/ (i = n + 1 /\ rs[i] = r)
      BY <2>2
    <3> HIDE DEF n
    <3>3. \A i \in 1..(n + 1) : rs[i].at \in 0..now
      BY <2>1, <3>1, <3>2
    <3>4. ASSUME NEW i \in 1..(n + 1), NEW j \in 1..(n + 1), i < j
          PROVE  rs[i].at <= rs[j].at
      <4>1. i \in 1..n /\ rs[i] = records[i]
        BY <3>1, <3>2, <3>4
      <4>2. CASE j \in 1..n
        BY <3>1, <3>2, <3>4, <4>1, <4>2
      <4>3. CASE j = n + 1
        BY <2>1, <3>1, <3>2, <4>1, <4>3
      <4> QED BY <3>2, <4>2, <4>3
    <3> QED BY <2>2, <3>3, <3>4 DEF Ordered, n
  <2>5. Ordered(records')
    BY <2>2, <2>3, <2>4, PruneOrdered
  <2> QED
    BY <1>0, <1>2, <2>3, <2>5 DEF Return, Stages
<1>9. CASE Observe
  <2>1. now' = now /\ records' = Unexpired(records, now) /\ Ordered(records')
    BY <1>1, <1>9 DEF Observe, Ordered
  <2>2. stage' = stage /\ airtime' = airtime /\ boot' = boot
    BY <1>9 DEF Observe
  <2>3. Kept
    BY <1>0, <2>1, <2>2
  <2> HIDE DEF Kept
  <2> QED BY <1>2, <2>1, <2>3
<1>10. CASE Restart
  <2>1. Ordered(<<>>)
    BY DEF Ordered
  <2> QED BY <1>0, <1>2, <1>10, <2>1 DEF Restart, Stages
<1>11. CASE Tick
  <2>1. now' \in 0..Horizon /\ now <= now'
    BY <1>0, <1>11 DEF Tick
  <2>2. records' = records /\ stage' = stage /\ airtime' = airtime /\ boot' = boot
    BY <1>11 DEF Tick
  <2>3. Kept
    BY <1>0, <2>1, <2>2
  <2> HIDE DEF Kept
  <2> QED BY <1>2, <2>2, <2>3
<1>12. CASE UNCHANGED vars
  BY <1>0, <1>2, <1>12 DEF vars
<1> QED
  BY <1>3, <1>4, <1>5, <1>6, <1>7, <1>8, <1>9, <1>10, <1>11, <1>12 DEF Next

\* Besides the types, the records are in the order of their times, which the
\* pruning from the front relies on (_prune_expired), an id names one row, and a
\* message that is answered was on the air.
THEOREM MessagingTypesCorrect == MsgSpec => []MsgTypeOK
<1>1. Init => TxTypes /\ TxTypeOK
  <2> SUFFICES ASSUME Init PROVE TxTypes /\ TxTypeOK
    OBVIOUS
  <2>1. TxTypes
    BY TxInitInv DEF TxInv
  <2>2. TxTypeOK
    BY TxAssumption DEF TxTypeOK, Init, Stages, TxAssumption
  <2> QED BY <2>1, <2>2
<1>2. TxTypes /\ TxTypeOK /\ [Next]_vars => TxTypes' /\ TxTypeOK'
  BY TxTypesInv, TxTypeNext
<1>3. Spec => []TxTypeOK
  BY <1>1, <1>2, PTL DEF Spec
<1>4. RowsIInv /\ TxTypeOK => MsgTypeOK
  BY DEF RowsIInv, RowsInv, RowTypes, Ids, Airing, Row, MsgTypeOK
<1> QED
  BY <1>3, <1>4, RowsInit, RowsStep, MessagingImplementsTxService, PTL DEF MsgSpec
=============================================================================
