----------------------------- MODULE MemoryProofs -----------------------------
(***************************************************************************)
(* Proofs about MemoryService, for any tasks, any answers of the model and *)
(* any number of crashes: the mutex around the embedding session and the   *)
(* rows of the table.                                                      *)
(***************************************************************************)
EXTENDS MemoryService, FiniteSetTheorems, SequenceTheorems, TLAPS

Labels == {"free", "locking", "running", "panicked", "opening", "creating", "adding", "committed"}

TypeOK ==
    /\ pc \in [Task -> Labels]
    /\ session \in Task \cup {"free", "poisoned"}
    /\ malformed \in BOOLEAN

IInv == TypeOK /\ PanicsAccounted

LEMMA InitInv == Init => IInv
  BY TaskAssumption DEF Init, EmbeddingInit, IInv, TypeOK, Labels, PanicsAccounted

\* A step of one task that is no call of the engine, from and to a place where
\* it does not hold the session.
LEMMA OtherStep ==
  ASSUME IInv, NEW t \in Task,
         UNCHANGED <<session, malformed>>,
         \/ UNCHANGED pc
         \/ \E l \in Labels \ {"running", "panicked"} :
               pc[t] \notin {"running", "panicked"} /\ pc' = [pc EXCEPT ![t] = l]
  PROVE  IInv'
  <1>1. \A u \in Task : /\ pc'[u] = "running" <=> pc[u] = "running"
                        /\ pc'[u] = "panicked" <=> pc[u] = "panicked"
    BY DEF IInv, TypeOK, Labels
  <1>2. pc' \in [Task -> Labels]
    BY DEF IInv, TypeOK
  <1> QED
    BY <1>1, <1>2 DEF IInv, TypeOK, PanicsAccounted

LEMMA StoreStep ==
  ASSUME IInv, NEW t \in Task,
         Open(t) \/ Send(t) \/ Commit(t) \/ Hear(t) \/ GiveUp(t) \/ Erase(t) \/ Index(t) \/ Bring(t)
  PROVE  IInv'
  <1>1. CASE Open(t)
    BY <1>1, OtherStep DEF Open, Rest, process, history, Labels,
       Lance!New, Lance!OpenTable, Lance!CreateTable, Lance!At, Lance!Move
  <1>2. CASE Send(t)
    BY <1>2, OtherStep DEF Send, Rest, process, Labels, Lance!InsertBatch, Lance!At, Lance!Move
  <1>3. CASE Commit(t) \/ Hear(t) \/ GiveUp(t)
    BY <1>3, OtherStep DEF Commit, Hear, GiveUp, Rest, process, Labels,
       Lance!Commit, Lance!Inserted, Lance!GiveUp, Lance!At, Lance!Move
  <1>4. CASE Erase(t) \/ Index(t) \/ Bring(t)
    BY <1>4, OtherStep DEF Erase, Index, Bring, Rest, process,
       Lance!Delete, Lance!Clear, Lance!Removing, Lance!CreateIndex
  <1> QED
    BY <1>1, <1>2, <1>3, <1>4

\* Whoever calls the engine moves alone.
LEMMA MoveStep ==
  ASSUME TypeOK, NEW t \in Task, NEW label \in Labels, Goto(t, label)
  PROVE  pc' \in [Task -> Labels] /\ pc'[t] = label /\ \A u \in Task \ {t} : pc'[u] = pc[u]
  BY DEF TypeOK, Goto

LEMMA EngineStep ==
  ASSUME IInv, NEW t \in Task, CallEngine(t)
  PROVE  IInv'
  <1>1. UNCHANGED malformed
    BY DEF CallEngine, process
  <1>2. CASE Embed(t)
    BY <1>1, <1>2, OtherStep DEF Embed, Goto, Labels
  <1>3. CASE LockPanics(t)
    <2>1. /\ pc' \in [Task -> Labels] /\ pc'[t] = "panicked"
          /\ \A u \in Task \ {t} : pc'[u] = pc[u]
      BY <1>3, MoveStep DEF LockPanics, IInv, Labels
    <2>2. pc[t] = "locking" /\ session = "poisoned" /\ session' = session
      BY <1>3 DEF LockPanics
    <2> QED
      BY <1>1, <2>1, <2>2 DEF IInv, TypeOK, PanicsAccounted
  <1>4. CASE Lock(t)
    <2>1. /\ pc' \in [Task -> Labels] /\ pc'[t] = "running"
          /\ \A u \in Task \ {t} : pc'[u] = pc[u]
      BY <1>4, MoveStep DEF Lock, IInv, Labels
    <2>2. pc[t] = "locking" /\ session = "free" /\ session' = t
      BY <1>4 DEF Lock
    <2> QED
      BY <1>1, <2>1, <2>2, TaskAssumption DEF IInv, TypeOK, PanicsAccounted
  <1>5. CASE RunFails(t)
    <2>1. /\ pc' \in [Task -> Labels] /\ pc'[t] = "free"
          /\ \A u \in Task \ {t} : pc'[u] = pc[u]
      BY <1>5, MoveStep DEF RunFails, IInv, Labels
    <2>2. session = t /\ session' = "free"
      BY <1>5 DEF RunFails, IInv, PanicsAccounted
    <2> QED
      BY <1>1, <2>1, <2>2, TaskAssumption DEF IInv, TypeOK, PanicsAccounted
  <1> QED
    BY <1>2, <1>3, <1>4, <1>5 DEF CallEngine

LEMMA AnswerStep ==
  ASSUME IInv, NEW t \in Task, Answered(t)
  PROVE  IInv'
  <1>1. PICK out \in Outputs, seq_len \in Tokens :
          Extract(t, out, seq_len) /\ malformed' = (malformed \/ Panics(out, seq_len))
    BY DEF Answered
  <1>2. session = t /\ ~malformed
    BY <1>1, TaskAssumption DEF Extract, IInv, PanicsAccounted
  <1>3. CASE Panics(out, seq_len)
    <2>1. /\ pc' \in [Task -> Labels] /\ pc'[t] = "panicked"
          /\ \A u \in Task \ {t} : pc'[u] = pc[u]
      BY <1>1, <1>3, MoveStep DEF Extract, IInv, Labels
    <2>2. session' = "poisoned" /\ malformed' = TRUE
      BY <1>1, <1>3 DEF Extract
    <2> QED
      BY <1>2, <2>1, <2>2, TaskAssumption DEF IInv, TypeOK, PanicsAccounted
  <1>4. CASE ~Panics(out, seq_len)
    <2>1. /\ pc' \in [Task -> Labels] /\ pc'[t] = "free"
          /\ \A u \in Task \ {t} : pc'[u] = pc[u]
      BY <1>1, <1>4, MoveStep DEF Extract, IInv, Labels
    <2>2. session' = "free" /\ malformed' = FALSE
      BY <1>1, <1>2, <1>4 DEF Extract
    <2> QED
      BY <1>2, <2>1, <2>2, TaskAssumption DEF IInv, TypeOK, PanicsAccounted
  <1> QED
    BY <1>3, <1>4

LEMMA NextInv == IInv /\ [Next]_vars => IInv'
  <1> SUFFICES ASSUME IInv, [Next]_vars PROVE IInv'
    OBVIOUS
  <1>1. CASE Restart
    BY <1>1, TaskAssumption DEF Restart, IInv, TypeOK, Labels, PanicsAccounted
  <1>2. ASSUME NEW t \in Task, CallEngine(t) \/ Answered(t) PROVE IInv'
    BY <1>2, EngineStep, AnswerStep
  <1>3. ASSUME NEW t \in Task,
               \/ Open(t) \/ Send(t) \/ Commit(t) \/ Hear(t) \/ GiveUp(t)
               \/ Erase(t) \/ Index(t) \/ Bring(t)
        PROVE  IInv'
    BY <1>3, StoreStep
  <1>4. CASE UNCHANGED vars
    BY <1>4 DEF vars, process, IInv, TypeOK, PanicsAccounted
  <1> QED
    BY <1>1, <1>2, <1>3, <1>4 DEF Next

\* The session's holder is the task that runs the model, and a poisoned session
\* means a malformed answer in this process, whatever the tasks do with their
\* stores meanwhile and however often the process crashed (embed_raw,
\* embedding/engine.rs:196-244).
THEOREM PanicsHaveACause == Spec => []PanicsAccounted
  <1>1. IInv => PanicsAccounted
    BY DEF IInv
  <1> QED
    BY InitInv, NextInv, <1>1, PTL DEF Spec

-----------------------------------------------------------------------------
(***************************************************************************)
(* The table.  What is said of rows is said of the nodes they read back as.*)
(***************************************************************************)

Node == [id : Nat \ {0}, role : {"User", "Agent", "System"}, embedding : Seq(Int)]

Row == [uuid : Nat \ {0}, role : 0 .. 2, embedding : Seq(Int)]

Table == [exists : BOOLEAN, dim : Nat, rows : Seq(Row), indexed : BOOLEAN]

StoreType ==
    /\ dim \in Nat
    /\ table \in Table
    /\ batch \in [Task -> Seq(Node)]
    /\ made \in Seq(Node) /\ Len(made) <= MaxNodes
    /\ held \subseteq DOMAIN made
    /\ sent \in [1 .. MaxNodes -> Nat]
    /\ acked \in [1 .. MaxNodes -> Nat]
    /\ removed \subseteq DOMAIN made

\* There is a table as soon as somebody opens it or has a handle.
TableInv ==
    /\ ~table.exists => table.rows = <<>>
    /\ handles # {} => table.exists
    /\ \A t \in Task : pc[t] \in {"opening", "adding", "committed"} => table.exists

\* A batch that is under way: one node or two, of the configured dimension.
Batched(group) ==
    /\ Len(group) \in {1, 2}
    /\ \A k \in DOMAIN group : /\ group[k].id \in DOMAIN made
                               /\ group[k] = made[group[k].id]
                               /\ Len(group[k].embedding) = dim
    /\ \A k, l \in DOMAIN group : group[k].id = group[l].id => k = l

NodesInv ==
    /\ \A i \in DOMAIN made : made[i].id = i
    /\ \A t \in Task : pc[t] \in {"adding", "committed"} => Batched(batch[t])

\* The tasks with a node in the batch they have under way.
Carries(group, i) == \E k \in DOMAIN group : group[k].id = i

With(label, i) == {t \in Task : pc[t] = label /\ Carries(batch[t], i)}

\* AckedKept, with what has been sent but not written, and written but not heard.
Counted(i) ==
    /\ IsFiniteSet(With("adding", i)) /\ IsFiniteSet(With("committed", i))
    /\ Copies(made[i]) + Cardinality(With("adding", i)) <= sent[i]
    /\ i \notin removed => acked[i] + Cardinality(With("committed", i)) <= Copies(made[i])

CountInv ==
    /\ \A i \in DOMAIN made : Counted(i)
    /\ \A i \in 1 .. MaxNodes : i \notin DOMAIN made => acked[i] = 0
    /\ \A r \in DOMAIN table.rows : \E i \in DOMAIN made : Lance!all_nodes[r] = made[i]

StoreInv == TableInv /\ NodesInv /\ CountInv

-----------------------------------------------------------------------------
(***************************************************************************)
(* The operators on rows and batches.                                      *)
(***************************************************************************)

LEMMA SameSize == \A S : Lance!Cardinality(S) = Cardinality(S)
  BY DEF Lance!Cardinality, Cardinality

\* The places of rows among those that are kept.
Places(kept) == [i \in kept |-> Cardinality({j \in kept : j <= i})]

\* Strictly increasing places number a finite set of rows from 1 on.
LEMMA PlacesNumber ==
  ASSUME NEW n \in Nat, NEW kept \in SUBSET (1 .. n)
  PROVE  /\ IsFiniteSet(kept) /\ Cardinality(kept) \in Nat
         /\ \A i \in kept : Places(kept)[i] \in 1 .. Cardinality(kept)
         /\ \A i, j \in kept : i < j => Places(kept)[i] < Places(kept)[j]
         /\ \A k \in 1 .. Cardinality(kept) : \E i \in kept : Places(kept)[i] = k
  <1> DEFINE upto(i) == {j \in kept : j <= i}
             m == Cardinality(kept)
             place == Places(kept)
  <1>0. \A i \in kept : i \in Nat
    OBVIOUS
  <1>1. IsFiniteSet(kept)
    <2>1. IsFiniteSet(1 .. n)
      BY FS_Interval
    <2> QED
      BY <2>1, FS_Subset
  <1>2. m \in Nat
    BY <1>1, FS_CardinalityType
  <1>3. \A i \in kept : IsFiniteSet(upto(i)) /\ Cardinality(upto(i)) \in 1 .. m
    <2> SUFFICES ASSUME NEW i \in kept
                 PROVE  IsFiniteSet(upto(i)) /\ Cardinality(upto(i)) \in 1 .. m
      OBVIOUS
    <2>1. upto(i) \subseteq kept
      OBVIOUS
    <2>2. i \in upto(i)
      BY <1>0
    <2>3. IsFiniteSet(upto(i)) /\ Cardinality(upto(i)) <= m
      BY <1>1, <2>1, FS_Subset
    <2>4. Cardinality(upto(i)) \in Nat /\ Cardinality(upto(i)) # 0
      BY <2>2, <2>3, FS_CardinalityType, FS_EmptySet
    <2> QED
      BY <1>2, <2>3, <2>4
  <1>4. \A i, j \in kept : i < j => Cardinality(upto(i)) < Cardinality(upto(j))
    <2> SUFFICES ASSUME NEW i \in kept, NEW j \in kept, i < j
                 PROVE  Cardinality(upto(i)) < Cardinality(upto(j))
      OBVIOUS
    <2>1. \A l \in upto(i) : l \in upto(j)
      BY <1>0
    <2>2. j \in upto(j) /\ j \notin upto(i)
      BY <1>0
    <2> HIDE DEF upto
    <2>3. /\ Cardinality(upto(i)) <= Cardinality(upto(j))
          /\ Cardinality(upto(i)) # Cardinality(upto(j))
      <3>1. upto(i) \in SUBSET upto(j) /\ upto(i) # upto(j) /\ IsFiniteSet(upto(j))
        BY <1>3, <2>1, <2>2
      <3> QED
        BY <3>1, FS_Subset
    <2> QED
      BY <1>3, <2>3
  <1>5. \A i \in kept : place[i] = Cardinality(upto(i))
    BY DEF Places
  <1> HIDE DEF upto, m, place
  <1>6. place \in Injection(kept, 1 .. m)
    <2>1. place \in [kept -> 1 .. m]
      BY <1>3, <1>5 DEF Places, place
    <2>2. \A i, j \in kept : place[i] = place[j] => i = j
      <3> SUFFICES ASSUME NEW i \in kept, NEW j \in kept, place[i] = place[j]
                   PROVE  i = j
        OBVIOUS
      <3>1. i \in Nat /\ j \in Nat /\ place[i] \in Nat /\ place[j] \in Nat
        BY <2>1
      <3>2. ~ (i < j) /\ ~ (j < i)
        BY <1>4, <1>5, <3>1
      <3> QED
        BY <3>1, <3>2
    <2> QED
      BY <2>1, <2>2 DEF Injection, IsInjective
  <1>7. IsFiniteSet(1 .. m) /\ Cardinality(1 .. m) = m
    BY <1>2, FS_Interval
  <1>8. place \in Surjection(kept, 1 .. m)
    BY <1>6, <1>7, FS_Injection DEF m
  <1> QED
    BY <1>1, <1>2, <1>3, <1>4, <1>5, <1>8 DEF Surjection, m, place

LEMMA WithoutErases ==
  ASSUME NEW S, NEW rows \in Seq(S), NEW id
  PROVE  /\ Lance!Without(rows, id) \in Seq(S)
         /\ Erased(id, rows, Lance!Without(rows, id))
  <1> DEFINE kept == {i \in DOMAIN rows : rows[i].uuid # id}
             place == Places(kept)
             n == Cardinality(kept)
             origin == [k \in 1 .. n |-> CHOOSE i \in kept : place[i] = k]
             new == [k \in 1 .. n |-> rows[origin[k]]]
  <1>1. Lance!Without(rows, id) = new
    <2> DEFINE there == [i \in kept |-> Lance!Cardinality({j \in kept : j <= i})]
    <2>1. Lance!Without(rows, id) =
            [k \in 1 .. Lance!Cardinality(kept) |-> rows[CHOOSE i \in kept : there[i] = k]]
      BY DEF Lance!Without
    <2> HIDE DEF kept
    <2>2. there = place /\ Lance!Cardinality(kept) = n
      BY SameSize DEF Places
    <2> HIDE DEF there, place, n
    <2>3. Lance!Without(rows, id) = [k \in 1 .. n |-> rows[CHOOSE i \in kept : place[i] = k]]
      BY <2>1, <2>2
    <2> QED
      BY <2>3
  <1>2. Len(rows) \in Nat /\ DOMAIN rows = 1 .. Len(rows) /\ kept \subseteq 1 .. Len(rows)
        /\ \A i \in kept : rows[i] \in S
    OBVIOUS
  <1> HIDE DEF place, n
  <1>3. /\ n \in Nat
        /\ \A i \in kept : place[i] \in 1 .. n
        /\ \A i, j \in kept : i < j => place[i] < place[j]
        /\ \A k \in 1 .. n : \E i \in kept : place[i] = k
    <2>1. kept \in SUBSET (1 .. Len(rows)) /\ Len(rows) \in Nat
      BY <1>2
    <2> HIDE DEF kept
    <2> QED
      BY <2>1, PlacesNumber DEF n, place
  <1>4. \A k \in 1 .. n : origin[k] \in kept /\ place[origin[k]] = k
    BY <1>3
  <1>5. \A i \in kept : origin[place[i]] = i
    <2> SUFFICES ASSUME NEW i \in kept
                 PROVE  origin[place[i]] = i
      OBVIOUS
    <2> DEFINE j == origin[place[i]]
    <2>1. j \in kept /\ place[j] = place[i]
      BY <1>3, <1>4
    <2> HIDE DEF j
    <2>2. ~ (i < j) /\ ~ (j < i) /\ i \in Nat /\ j \in Nat
      BY <1>2, <1>3, <2>1
    <2> QED
      BY <2>2 DEF j
  <1>6. \A k, l \in 1 .. n : k < l => origin[k] < origin[l]
    <2> SUFFICES ASSUME NEW k \in 1 .. n, NEW l \in 1 .. n, k < l, ~ (origin[k] < origin[l])
                 PROVE  FALSE
      OBVIOUS
    <2> DEFINE i == origin[k]
               j == origin[l]
    <2>1. i \in kept /\ j \in kept /\ place[i] = k /\ place[j] = l
      BY <1>4
    <2> HIDE DEF i, j
    <2>2. i \in Nat /\ j \in Nat /\ ~ (i < j)
      BY <1>2, <2>1 DEF i, j
    <2>3. j = i \/ j < i
      BY <2>2
    <2> QED
      BY <1>3, <2>1, <2>3
  <1> HIDE DEF kept, origin
  <1>7. origin \in [1 .. n -> DOMAIN rows]
    BY <1>2, <1>4 DEF origin
  <1>8. DOMAIN new = 1 .. n /\ \A k \in 1 .. n : new[k] = rows[origin[k]]
    OBVIOUS
  <1>9. new \in Seq(S)
    <2>1. new \in [1 .. n -> S]
      BY <1>2, <1>4
    <2> HIDE DEF new
    <2> QED
      BY <1>3, <2>1, SeqDef
  <1>10. \A r \in DOMAIN rows : rows[r].uuid # id <=> \E k \in 1 .. n : origin[k] = r
    BY <1>3, <1>4, <1>5 DEF kept
  <1> HIDE DEF new
  <1>11. Erased(id, rows, new)
    <2>1. DOMAIN new = 1 .. n
      BY <1>8
    <2>2. origin \in [DOMAIN new -> DOMAIN rows]
      BY <1>7, <2>1
    <2> SUFFICES
          \E o \in [DOMAIN new -> DOMAIN rows] :
             /\ \A k, l \in DOMAIN new : k < l => o[k] < o[l]
             /\ \A r \in DOMAIN rows : rows[r].uuid # id <=> \E k \in DOMAIN new : o[k] = r
             /\ \A k \in DOMAIN new : new[k] = rows[o[k]]
      BY DEF Erased
    <2> WITNESS origin \in [DOMAIN new -> DOMAIN rows]
    <2> QED
      BY <1>6, <1>8, <1>10, <2>1
  <1> QED
    BY <1>1, <1>9, <1>11

\* One or two sequences laid end to end.
LEMMA FlattenOne ==
  ASSUME NEW s, Len(s) = 1
  PROVE  Lance!FlattenSeq(s) = s[1]
  <1> DEFINE Recurs(f) == f = [i \in 1 .. Len(s) |-> IF i = 1 THEN s[i] ELSE f[i - 1] \o s[i]]
             flatten == CHOOSE f : Recurs(f)
             g == [i \in 1 .. Len(s) |-> s[i]]
  <1>1. Recurs(g)
    <2>1. \A i \in 1 .. Len(s) : i = 1
      <3>1. \A i \in 1 .. 1 : i = 1
        OBVIOUS
      <3> QED
        BY <3>1
    <2> QED
      BY <2>1
  <1>2. Recurs(flatten)
    BY <1>1
  <1>3. Lance!FlattenSeq(s) = flatten[Len(s)]
    BY DEF Lance!FlattenSeq
  <1> HIDE DEF flatten
  <1>4. flatten[1] = s[1]
    BY <1>2
  <1> QED
    BY <1>3, <1>4

LEMMA FlattenTwo ==
  ASSUME NEW s, Len(s) = 2
  PROVE  Lance!FlattenSeq(s) = s[1] \o s[2]
  <1> DEFINE Recurs(f) == f = [i \in 1 .. Len(s) |-> IF i = 1 THEN s[i] ELSE f[i - 1] \o s[i]]
             flatten == CHOOSE f : Recurs(f)
             g == [i \in 1 .. Len(s) |-> IF i = 1 THEN s[1] ELSE s[1] \o s[2]]
  <1>1. Recurs(g)
    <2>1. \A i \in 1 .. Len(s) : g[i] = IF i = 1 THEN s[i] ELSE g[i - 1] \o s[i]
      <3> SUFFICES ASSUME NEW i \in 1 .. Len(s)
                   PROVE  g[i] = IF i = 1 THEN s[i] ELSE g[i - 1] \o s[i]
        OBVIOUS
      <3>1. CASE i = 1
        BY <3>1
      <3>2. CASE i # 1
        <4>1. i \in 1 .. 2 /\ 1 \in 1 .. 2
          OBVIOUS
        <4>2. i = 2 /\ i - 1 = 1
          BY <3>2, <4>1
        <4>3. g[1] = s[1] /\ g[i] = s[1] \o s[2]
          BY <4>1, <4>2
        <4> HIDE DEF g
        <4> QED
          BY <3>2, <4>2, <4>3
      <3> QED
        BY <3>1, <3>2
    <2>2. g = [i \in 1 .. Len(s) |-> g[i]]
      OBVIOUS
    <2> HIDE DEF g
    <2> QED
      BY <2>1, <2>2
  <1>2. Recurs(flatten)
    BY <1>1
  <1>3. Lance!FlattenSeq(s) = flatten[Len(s)]
    BY DEF Lance!FlattenSeq
  <1> HIDE DEF flatten
  <1>4. flatten[1] = s[1]
    BY <1>2
  <1>5. flatten[2] = s[1] \o s[2]
    BY <1>2, <1>4
  <1> QED
    BY <1>3, <1>5

\* A piece cut out of a sequence.
LEMMA CutOut ==
  ASSUME NEW u \in Seq(Int), NEW v \in Seq(Int), NEW d \in Nat, Len(v) = d,
         NEW m \in Nat, Len(u) >= m + d, \A p \in 1 .. d : u[m + p] = v[p]
  PROVE  SubSeq(u, m + 1, m + d) = v
  <1>1. \A q \in m + 1 .. m + d : u[q] \in Int
    <2> SUFFICES ASSUME NEW q \in m + 1 .. m + d
                 PROVE  u[q] \in Int
      OBVIOUS
    <2>1. q \in 1 .. Len(u)
      OBVIOUS
    <2> QED
      BY <2>1, ElementOfSeq
  <1>2. /\ SubSeq(u, m + 1, m + d) \in Seq(Int)
        /\ Len(SubSeq(u, m + 1, m + d)) = d
        /\ \A p \in 1 .. d : SubSeq(u, m + 1, m + d)[p] = u[m + p]
    <2>1. m + 1 \in Int /\ m + d \in Int
      OBVIOUS
    <2>2. /\ SubSeq(u, m + 1, m + d) \in Seq(Int)
          /\ Len(SubSeq(u, m + 1, m + d)) =
                IF m + 1 <= m + d THEN m + d - (m + 1) + 1 ELSE 0
          /\ \A p \in 1 .. m + d - (m + 1) + 1 : SubSeq(u, m + 1, m + d)[p] = u[m + 1 + p - 1]
      BY <1>1, <2>1, SubSeqProperties
    <2>3. m + d - (m + 1) + 1 = d /\ \A p \in 1 .. d : m + 1 + p - 1 = m + p
      OBVIOUS
    <2> QED
      BY <2>2, <2>3
  <1> QED
    BY <1>2, SeqEqual

LEMMA CutBoth ==
  ASSUME NEW u \in Seq(Int), NEW v \in Seq(Int), NEW d \in Nat, Len(u) = d, Len(v) = d
  PROVE  SubSeq(u \o v, 0 + 1, 0 + d) = u /\ SubSeq(u \o v, d + 1, d + d) = v
  <1> DEFINE both == u \o v
  <1>1. /\ both \in Seq(Int) /\ Len(both) = d + d
        /\ \A i \in 1 .. d + d : both[i] = IF i <= d THEN u[i] ELSE v[i - d]
    <2>1. /\ both \in Seq(Int)
          /\ Len(both) = Len(u) + Len(v)
          /\ \A i \in 1 .. Len(u) + Len(v) : both[i] = IF i <= Len(u) THEN u[i] ELSE v[i - Len(u)]
      BY ConcatProperties, Zenon
    <2> QED
      BY <2>1
  <1>2. \A p \in 1 .. d : /\ 0 + p \in 1 .. d + d /\ 0 + p <= d /\ 0 + p = p
                         /\ d + p \in 1 .. d + d /\ ~ (d + p <= d) /\ d + p - d = p
    OBVIOUS
  <1> HIDE DEF both
  <1>3. \A p \in 1 .. d : both[0 + p] = u[p] /\ both[d + p] = v[p]
    BY <1>1, <1>2
  <1>4. SubSeq(both, d + 1, d + d) = v
    <2>1. both \in Seq(Int) /\ Len(both) >= d + d /\ \A p \in 1 .. d : both[d + p] = v[p]
      BY <1>1, <1>3
    <2> HIDE DEF both
    <2> QED
      BY <2>1, CutOut
  <1>5. SubSeq(both, 0 + 1, 0 + d) = u
    <2>1. 0 \in Nat /\ Len(both) >= 0 + d
      BY <1>1
    <2> QED
      BY <1>1, <1>3, <2>1, CutOut
  <1> QED
    BY <1>4, <1>5 DEF both

\* What is laid end to end is found again in its place.
LEMMA FlatPieces ==
  ASSUME NEW d \in Nat, dim = d, NEW group \in Seq(Node), Len(group) \in {1, 2},
         \A k \in DOMAIN group : Len(group[k].embedding) = d
  PROVE  \A k \in DOMAIN group :
            SubSeq(Lance!Flat(group), (k - 1) * d + 1, k * d) = group[k].embedding
  <1> DEFINE s == [k \in DOMAIN group |-> group[k].embedding]
  <1>1. DOMAIN group = 1 .. Len(group) /\ Len(group) \in Nat
    BY LenProperties
  <1>2. \A k \in DOMAIN group : s[k] = group[k].embedding /\ s[k] \in Seq(Int) /\ Len(s[k]) = d
    <2>1. \A k \in DOMAIN group : group[k] \in Node
      BY <1>1, ElementOfSeq
    <2> QED
      BY <2>1 DEF Node
  <1>3. Lance!Flat(group) = Lance!FlattenSeq(s)
    BY DEF Lance!Flat
  <1>4. Len(s) = Len(group)
    <2>1. s \in [1 .. Len(group) -> Seq(Int)]
      BY <1>1, <1>2
    <2> HIDE DEF s
    <2>2. s \in Seq(Seq(Int))
      BY <1>1, <2>1, SeqDef
    <2> QED
      BY <1>1, <2>1, <2>2, LenProperties
  <1> HIDE DEF s
  <1>5. CASE Len(group) = 1
    <2>1. DOMAIN group = {1}
      BY <1>1, <1>5
    <2>2. Lance!Flat(group) = s[1]
      BY <1>3, <1>4, <1>5, FlattenOne
    <2>3. SubSeq(s[1], 0 + 1, 0 + d) = s[1]
      BY <1>2, <2>1, CutOut
    <2>4. (1 - 1) * d + 1 = 0 + 1 /\ 1 * d = 0 + d
      OBVIOUS
    <2> QED
      BY <1>2, <2>1, <2>2, <2>3, <2>4
  <1>6. CASE Len(group) = 2
    <2>1. DOMAIN group = {1, 2}
      BY <1>1, <1>6
    <2>2. Lance!Flat(group) = s[1] \o s[2]
      BY <1>3, <1>4, <1>6, FlattenTwo
    <2>3. s[1] \in Seq(Int) /\ s[2] \in Seq(Int) /\ Len(s[1]) = d /\ Len(s[2]) = d
      BY <1>2, <2>1
    <2> DEFINE both == s[1] \o s[2]
    <2>4. SubSeq(both, 0 + 1, 0 + d) = s[1] /\ SubSeq(both, d + 1, d + d) = s[2]
      BY <2>3, CutBoth
    <2>6. (1 - 1) * d + 1 = 0 + 1 /\ 1 * d = 0 + d /\ (2 - 1) * d + 1 = d + 1 /\ 2 * d = d + d
      OBVIOUS
    <2> QED
      BY <1>2, <2>1, <2>2, <2>4, <2>6
  <1> QED
    BY <1>5, <1>6

\* What is read back from a row, and the rows that read back as a node.
Back(row) == [id |-> row.uuid, role |-> Lance!from_u8(row.role), embedding |-> row.embedding]

RowsOf(rows, node) == {r \in DOMAIN rows : Back(rows[r]) = node}

\* The rows of a batch read back as its nodes.
LEMMA RowsOfBatch ==
  ASSUME StoreType, NEW group \in Seq(Node), Batched(group)
  PROVE  /\ Lance!nodes_to_batch(group) \in Seq(Row)
         /\ Len(Lance!nodes_to_batch(group)) = Len(group)
         /\ \A k \in DOMAIN group : Back(Lance!nodes_to_batch(group)[k]) = group[k]
  <1> DEFINE row(k) == [uuid |-> group[k].id, role |-> Lance!as_u8(group[k].role),
                        embedding |-> group[k].embedding]
             rows == Lance!nodes_to_batch(group)
  <1>1. DOMAIN group = 1 .. Len(group) /\ Len(group) \in Nat /\ dim \in Nat
    BY LenProperties DEF StoreType
  <1>2. \A k \in DOMAIN group :
           SubSeq(Lance!Flat(group), (k - 1) * dim + 1, k * dim) = group[k].embedding
    BY <1>1, FlatPieces DEF Batched
  <1>3. DOMAIN rows = DOMAIN group /\ \A k \in DOMAIN group : rows[k] = row(k)
    BY <1>2 DEF Lance!nodes_to_batch
  <1>4. \A k \in DOMAIN group : group[k] \in Node
    BY <1>1, ElementOfSeq
  <1>5. \A role \in {"User", "Agent", "System"} :
           Lance!as_u8(role) \in 0 .. 2 /\ Lance!from_u8(Lance!as_u8(role)) = role
    BY DEF Lance!as_u8, Lance!from_u8
  <1>6. \A k \in DOMAIN group : row(k) \in Row
    BY <1>4, <1>5 DEF Node, Row
  <1>7. rows \in [1 .. Len(group) -> Row]
    <2>1. rows = [k \in DOMAIN group |-> rows[k]]
      BY DEF Lance!nodes_to_batch
    <2> HIDE DEF rows, row
    <2> QED
      BY <1>1, <1>3, <1>6, <2>1
  <1>8. rows \in Seq(Row) /\ Len(rows) = Len(group)
    <2> HIDE DEF rows
    <2>1. rows \in Seq(Row)
      BY <1>1, <1>7, SeqDef
    <2> QED
      BY <1>1, <1>7, <2>1, LenProperties
  <1>9. \A k \in DOMAIN group : Back(rows[k]) = group[k]
    <2> SUFFICES ASSUME NEW k \in DOMAIN group
                 PROVE  Back(rows[k]) = group[k]
      OBVIOUS
    <2> HIDE DEF rows
    <2>1. group[k] \in Node /\ rows[k] = row(k)
      BY <1>3, <1>4
    <2>2. /\ row(k).uuid = group[k].id /\ row(k).embedding = group[k].embedding
          /\ row(k).role = Lance!as_u8(group[k].role)
      OBVIOUS
    <2>3. Lance!from_u8(Lance!as_u8(group[k].role)) = group[k].role
      BY <1>5, <2>1 DEF Node
    <2> HIDE DEF row
    <2> QED
      BY <2>1, <2>2, <2>3 DEF Node, Back
  <1> QED
    BY <1>8, <1>9

ReadBack ==
    /\ \A node : Copies(node) = Cardinality(RowsOf(table.rows, node))
    /\ \A i : Copies(made[i]) = Cardinality(RowsOf(table.rows, made[i]))
    /\ \A r \in DOMAIN table.rows : Lance!all_nodes[r] = Back(table.rows[r])

LEMMA CopiesAreRows == ReadBack
  <1>1. /\ DOMAIN Lance!all_nodes = DOMAIN table.rows
        /\ \A r \in DOMAIN table.rows : Lance!all_nodes[r] = Back(table.rows[r])
    BY DEF Lance!all_nodes, Back
  <1>2. \A node : {r \in DOMAIN Lance!all_nodes : Lance!all_nodes[r] = node}
                     = RowsOf(table.rows, node)
    BY <1>1 DEF RowsOf
  <1> QED
    BY <1>1, <1>2 DEF Copies, ReadBack

LEMMA CopiesAreRowsNext == ReadBack'
  BY CopiesAreRows, PTL

LEMMA RowsOfFinite ==
  ASSUME NEW rows \in Seq(Row), NEW node
  PROVE  /\ IsFiniteSet(RowsOf(rows, node))
         /\ Cardinality(RowsOf(rows, node)) \in Nat
  <1>1. IsFiniteSet(1 .. Len(rows)) /\ DOMAIN rows = 1 .. Len(rows)
    BY LenProperties, FS_Interval
  <1>2. RowsOf(rows, node) \in SUBSET (1 .. Len(rows))
    BY <1>1 DEF RowsOf
  <1> QED
    BY <1>1, <1>2, FS_Subset, FS_CardinalityType

\* More rows at the end: a node is found there once more, or not.
LEMMA RowsOfMore ==
  ASSUME NEW rows \in Seq(Row), NEW more \in Seq(Row), NEW node
  PROVE  /\ (\A k \in DOMAIN more : Back(more[k]) # node) =>
              RowsOf(rows \o more, node) = RowsOf(rows, node)
         /\ \A k \in DOMAIN more :
              Back(more[k]) = node /\ (\A l \in DOMAIN more : Back(more[l]) = node => l = k) =>
                Cardinality(RowsOf(rows \o more, node)) = Cardinality(RowsOf(rows, node)) + 1
  <1> DEFINE n == Len(rows)
             all == rows \o more
  <1>1. /\ n \in Nat /\ Len(more) \in Nat /\ DOMAIN rows = 1 .. n /\ DOMAIN more = 1 .. Len(more)
        /\ DOMAIN all = 1 .. n + Len(more)
        /\ \A r \in 1 .. n : all[r] = rows[r]
        /\ \A k \in 1 .. Len(more) : all[n + k] = more[k]
    OBVIOUS
  <1> HIDE DEF n, all
  <1>2. \A r \in DOMAIN all : r \in DOMAIN rows \/ (r - n \in DOMAIN more /\ r = n + (r - n))
    BY <1>1
  <1>3. ASSUME \A k \in DOMAIN more : Back(more[k]) # node
        PROVE  RowsOf(all, node) = RowsOf(rows, node)
    <2>1. \A r \in DOMAIN all : Back(all[r]) = node => r \in DOMAIN rows
      BY <1>1, <1>2, <1>3
    <2>2. \A r \in DOMAIN rows : r \in DOMAIN all
      BY <1>1
    <2> QED
      BY <1>1, <2>1, <2>2 DEF RowsOf
  <1>4. ASSUME NEW k \in DOMAIN more, Back(more[k]) = node,
               \A l \in DOMAIN more : Back(more[l]) = node => l = k
        PROVE  Cardinality(RowsOf(all, node)) = Cardinality(RowsOf(rows, node)) + 1
    <2>1. n + k \in DOMAIN all /\ n + k \notin DOMAIN rows /\ Back(all[n + k]) = node
      BY <1>1, <1>4
    <2>2. \A r \in DOMAIN all : Back(all[r]) = node => r \in DOMAIN rows \/ r = n + k
      BY <1>1, <1>2, <1>4
    <2>3. \A r \in DOMAIN rows : r \in DOMAIN all
      BY <1>1
    <2>4. RowsOf(all, node) = RowsOf(rows, node) \cup {n + k}
      BY <1>1, <2>1, <2>2, <2>3 DEF RowsOf
    <2>5. n + k \notin RowsOf(rows, node)
      BY <2>1 DEF RowsOf
    <2> QED
      BY <2>4, <2>5, RowsOfFinite, FS_AddElement
  <1> QED
    BY <1>3, <1>4 DEF all

\* Erasing a node leaves the rows of every other.
LEMMA RowsOfErased ==
  ASSUME NEW old \in Seq(Row), NEW new \in Seq(Row), NEW id, Erased(id, old, new), NEW node
  PROVE  /\ node.id = id => RowsOf(new, node) = {}
         /\ node.id # id => Cardinality(RowsOf(new, node)) = Cardinality(RowsOf(old, node))
         /\ \A k \in DOMAIN new : \E r \in DOMAIN old : new[k] = old[r]
  <1>1. PICK origin \in [DOMAIN new -> DOMAIN old] :
          /\ \A k, l \in DOMAIN new : k < l => origin[k] < origin[l]
          /\ \A r \in DOMAIN old : old[r].uuid # id <=> \E k \in DOMAIN new : origin[k] = r
          /\ \A k \in DOMAIN new : new[k] = old[origin[k]]
    BY DEF Erased
  <1>2. /\ \A k \in DOMAIN new : k \in Nat
        /\ \A r \in DOMAIN old : r \in Nat
    <2>1. DOMAIN new = 1 .. Len(new) /\ DOMAIN old = 1 .. Len(old)
      BY LenProperties
    <2> QED
      BY <2>1
  <1>3. \A k, l \in DOMAIN new : origin[k] = origin[l] => k = l
    <2> SUFFICES ASSUME NEW k \in DOMAIN new, NEW l \in DOMAIN new, origin[k] = origin[l]
                 PROVE  k = l
      OBVIOUS
    <2>1. origin[k] \in Nat /\ origin[l] \in Nat /\ k \in Nat /\ l \in Nat
      BY <1>1, <1>2
    <2>2. ~ (k < l) /\ ~ (l < k)
      BY <1>1, <2>1
    <2> QED
      BY <2>1, <2>2
  <1>4. \A k \in DOMAIN new : new[k].uuid # id
    BY <1>1
  <1>5. ASSUME node.id = id
        PROVE  RowsOf(new, node) = {}
    BY <1>4, <1>5 DEF RowsOf, Back
  <1>6. ASSUME node.id # id
        PROVE  Cardinality(RowsOf(new, node)) = Cardinality(RowsOf(old, node))
    <2> DEFINE f == [k \in RowsOf(new, node) |-> origin[k]]
    <2>1. f \in [RowsOf(new, node) -> RowsOf(old, node)]
      BY <1>1 DEF RowsOf
    <2>2. \A k, l \in RowsOf(new, node) : f[k] = f[l] => k = l
      BY <1>3 DEF RowsOf
    <2>3. \A r \in RowsOf(old, node) : \E k \in RowsOf(new, node) : f[k] = r
      <3> SUFFICES ASSUME NEW r \in RowsOf(old, node)
                   PROVE  \E k \in RowsOf(new, node) : f[k] = r
        OBVIOUS
      <3>1. r \in DOMAIN old /\ Back(old[r]) = node /\ old[r].uuid # id
        BY <1>6 DEF RowsOf, Back
      <3>2. PICK k \in DOMAIN new : origin[k] = r
        BY <1>1, <3>1
      <3>3. k \in RowsOf(new, node)
        BY <1>1, <3>1, <3>2 DEF RowsOf
      <3> QED
        BY <3>2, <3>3
    <2>4. f \in Bijection(RowsOf(new, node), RowsOf(old, node))
      BY <2>1, <2>2, <2>3 DEF Bijection, Injection, Surjection, IsInjective
    <2> HIDE DEF f
    <2>5. ExistsBijection(RowsOf(new, node), RowsOf(old, node))
      BY <2>4 DEF ExistsBijection
    <2> QED
      BY <2>5, RowsOfFinite, FS_Bijection
  <1> QED
    BY <1>1, <1>5, <1>6

-----------------------------------------------------------------------------
(***************************************************************************)
(* The steps that leave the rows, the nodes and the counts alone.          *)
(***************************************************************************)

LEMMA CountTypes ==
  ASSUME StoreType, NEW i \in DOMAIN made
  PROVE  /\ i \in 1 .. MaxNodes /\ i \in Nat /\ made[i] \in Node
         /\ sent[i] \in Nat /\ acked[i] \in Nat
         /\ Copies(made[i]) \in Nat
  <1>1. made \in Seq(Node) /\ Len(made) <= MaxNodes /\ MaxNodes \in Nat
    BY MemoryAssumption DEF StoreType
  <1>2. i \in 1 .. MaxNodes /\ made[i] \in Node
    BY <1>1
  <1>3. sent[i] \in Nat /\ acked[i] \in Nat
    BY <1>2 DEF StoreType
  <1>4. table.rows \in Seq(Row)
    BY DEF StoreType, Table
  <1>5. Copies(made[i]) \in Nat
    BY <1>4, CopiesAreRows, RowsOfFinite DEF ReadBack
  <1> QED
    BY <1>2, <1>3, <1>5

LEMMA WithShrinks ==
  ASSUME NEW label, NEW i, IsFiniteSet(With(label, i)),
         \A t \in Task : pc'[t] = label => pc[t] = label /\ batch'[t] = batch[t]
  PROVE  /\ IsFiniteSet(With(label, i)')
         /\ Cardinality(With(label, i)') <= Cardinality(With(label, i))
         /\ Cardinality(With(label, i)') \in Nat /\ Cardinality(With(label, i)) \in Nat
  <1>1. With(label, i)' \in SUBSET With(label, i)
    BY DEF With
  <1> QED
    BY <1>1, FS_Subset, FS_CardinalityType

\* A node stays counted while no more is written or heard, and no less is sent.
LEMMA QuietCount ==
  ASSUME StoreType, NEW i \in DOMAIN made, Counted(i), made'[i] = made[i],
         UNCHANGED <<sent, acked, removed>>, table'.rows = table.rows,
         \A t \in Task : pc'[t] \in {"adding", "committed"} => pc'[t] = pc[t] /\ batch'[t] = batch[t]
  PROVE  Counted(i)'
  <1>2. Copies(made[i])' = Copies(made[i])
    <2>1. Copies(made[i])' = Cardinality(RowsOf(table'.rows, made'[i]))
      BY CopiesAreRowsNext DEF ReadBack
    <2>2. Copies(made[i]) = Cardinality(RowsOf(table.rows, made[i]))
      BY CopiesAreRows DEF ReadBack
    <2> QED
      BY <2>1, <2>2
  <1>3. \A label \in {"adding", "committed"} :
          \A t \in Task : pc'[t] = label => pc[t] = label /\ batch'[t] = batch[t]
    OBVIOUS
  <1>4. \A label \in {"adding", "committed"} :
          /\ IsFiniteSet(With(label, i)')
          /\ Cardinality(With(label, i)') <= Cardinality(With(label, i))
          /\ Cardinality(With(label, i)') \in Nat /\ Cardinality(With(label, i)) \in Nat
    BY <1>3, WithShrinks DEF Counted
  <1> HIDE DEF Copies, With
  <1> QED
    BY <1>2, <1>4, CountTypes DEF Counted

LEMMA QuietStore ==
  ASSUME StoreType, NodesInv, CountInv,
         UNCHANGED <<made, sent, acked, removed>>, table'.rows = table.rows,
         \A t \in Task : pc'[t] \in {"adding", "committed"} =>
           pc'[t] = pc[t] /\ batch'[t] = batch[t] /\ dim' = dim
  PROVE  NodesInv' /\ CountInv'
  <1>1. NodesInv'
    BY DEF NodesInv, Batched
  <1>2. \A i \in DOMAIN made : Counted(i)'
    BY QuietCount DEF CountInv
  <1>3. \A r \in DOMAIN table'.rows : \E i \in DOMAIN made' : Lance!all_nodes'[r] = made'[i]
    BY DEF CountInv, Lance!all_nodes
  <1> QED
    BY <1>1, <1>2, <1>3 DEF CountInv

\* A new node: nothing of it has been sent, written or heard.
LEMMA MakeStore ==
  ASSUME StoreType, TableInv, NodesInv, CountInv,
         NEW role \in {"Agent", "System"}, NEW v \in Seq(Int), Make(role, v),
         UNCHANGED <<dim, stored, history>>,
         \A t \in Task : pc'[t] \in {"opening", "adding", "committed"} => pc'[t] = pc[t]
  PROVE  StoreType' /\ TableInv' /\ NodesInv' /\ CountInv'
  <1> SUFFICES ASSUME NEW n, n = Len(made)
               PROVE  StoreType' /\ TableInv' /\ NodesInv' /\ CountInv'
    OBVIOUS
  <1> DEFINE node == [id |-> n + 1, role |-> role, embedding |-> v]
  <1>1. /\ made \in Seq(Node) /\ n \in Nat /\ n < MaxNodes /\ made' = Append(made, node)
        /\ held' = held \cup {n + 1} /\ MaxNodes \in Nat
    BY MemoryAssumption DEF StoreType, Make, node
  <1>2. node \in Node
    BY <1>1 DEF Node, node
  <1> HIDE DEF node
  <1>3. /\ made' \in Seq(Node) /\ Len(made') = n + 1 /\ DOMAIN made' = 1 .. n + 1
        /\ DOMAIN made = 1 .. n
        /\ \A i \in 1 .. n : made'[i] = made[i]
        /\ made'[n + 1] = node
    BY <1>1, <1>2
  <1>4. /\ UNCHANGED <<handles, table, batch, sent, acked, removed>>
    BY DEF stored, history
  <1>5. StoreType'
    BY <1>1, <1>3, <1>4 DEF StoreType
  <1>6. TableInv'
    BY <1>4 DEF TableInv
  <1>7. \A i \in DOMAIN made' : made'[i].id = i
    <2>1. node.id = n + 1
      BY DEF node
    <2> QED
      BY <1>1, <1>3, <2>1 DEF NodesInv
  <1>8. NodesInv'
    <2>1. ASSUME NEW t \in Task, pc'[t] \in {"adding", "committed"}
          PROVE  Batched(batch[t])'
      <3>1. Batched(batch[t]) /\ batch'[t] = batch[t]
        BY <1>4, <2>1 DEF NodesInv
      <3>2. \A k \in DOMAIN batch[t] : /\ batch[t][k].id \in DOMAIN made'
                                      /\ batch[t][k] = made'[batch[t][k].id]
        BY <1>1, <1>3, <3>1 DEF Batched
      <3> QED
        BY <3>1, <3>2 DEF Batched
    <2> QED
      BY <1>7, <2>1 DEF NodesInv
  <1>9. \A i \in 1 .. n : Counted(i)'
    BY <1>3, <1>4, QuietCount DEF CountInv
  <1>10. Counted(n + 1)'
    <2>1. \A label \in {"adding", "committed"} : With(label, n + 1)' = {}
      <3>1. \A t \in Task : pc'[t] \in {"adding", "committed"} =>
               \A k \in DOMAIN batch[t] : batch[t][k].id \in 1 .. n
        BY <1>3 DEF NodesInv, Batched
      <3>2. n + 1 \notin 1 .. n
        BY <1>1
      <3>3. ASSUME NEW label \in {"adding", "committed"}, NEW t \in Task, pc'[t] = label
            PROVE  ~ Carries(batch'[t], n + 1)
        BY <1>4, <3>1, <3>2, <3>3 DEF Carries
      <3> QED
        BY <3>3 DEF With
    <2>2. RowsOf(table.rows, node) = {}
      <3>1. \A r \in DOMAIN table.rows : \E i \in 1 .. n : Back(table.rows[r]) = made[i]
        BY <1>3, CopiesAreRows DEF CountInv, ReadBack
      <3>2. \A i \in 1 .. n : made[i].id = i /\ made[i] # node
        BY <1>1, <1>3 DEF NodesInv, node
      <3> QED
        BY <3>1, <3>2 DEF RowsOf
    <2>3. Copies(made[n + 1])' = Cardinality(RowsOf(table.rows, node))
      <3>1. Copies(made[n + 1])' = Cardinality(RowsOf(table'.rows, made'[n + 1]))
        BY CopiesAreRowsNext DEF ReadBack
      <3> QED
        BY <1>3, <1>4, <3>1
    <2>4. n + 1 \in 1 .. MaxNodes /\ n + 1 \notin DOMAIN made
      BY <1>1, <1>3
    <2>5. acked'[n + 1] = 0 /\ sent'[n + 1] \in Nat
      BY <1>4, <2>4 DEF CountInv, StoreType
    <2>6. IsFiniteSet({}) /\ Cardinality({}) = 0
      BY FS_EmptySet
    <2>7. With("adding", n + 1)' = {} /\ With("committed", n + 1)' = {}
      BY <2>1
    <2>8. Copies(made[n + 1])' = 0
      BY <2>2, <2>3, <2>6
    <2> HIDE DEF Copies
    <2>9. /\ IsFiniteSet(With("adding", n + 1)') /\ IsFiniteSet(With("committed", n + 1)')
          /\ Cardinality(With("adding", n + 1)') = 0 /\ Cardinality(With("committed", n + 1)') = 0
      BY <2>6, <2>7
    <2>10. Copies(made[n + 1])' + Cardinality(With("adding", n + 1)') <= sent'[n + 1]
      BY <2>5, <2>8, <2>9
    <2>11. acked'[n + 1] + Cardinality(With("committed", n + 1)') <= Copies(made[n + 1])'
      BY <2>5, <2>8, <2>9
    <2> QED
      BY <2>9, <2>10, <2>11 DEF Counted
  <1>11. \A i \in 1 .. MaxNodes : i \notin DOMAIN made' => acked'[i] = 0
    <2>1. \A i \in DOMAIN made : i \in DOMAIN made'
      BY <1>1, <1>3
    <2> QED
      BY <1>4, <2>1 DEF CountInv
  <1>12. \A r \in DOMAIN table'.rows : \E i \in DOMAIN made' : Lance!all_nodes'[r] = made'[i]
    <2>1. \A r \in DOMAIN table.rows : \E i \in 1 .. n : Lance!all_nodes[r] = made'[i]
      BY <1>3 DEF CountInv
    <2>2. \A i \in 1 .. n : i \in DOMAIN made'
      BY <1>1, <1>3
    <2>3. Lance!all_nodes' = Lance!all_nodes
      BY <1>4 DEF Lance!all_nodes
    <2> QED
      BY <1>4, <2>1, <2>2, <2>3
  <1>13. \A i \in DOMAIN made' : i \in 1 .. n \/ i = n + 1
    BY <1>1, <1>3
  <1>14. \A i \in DOMAIN made' : Counted(i)'
    BY <1>9, <1>10, <1>13
  <1> QED
    BY <1>5, <1>6, <1>8, <1>11, <1>12, <1>14 DEF CountInv

-----------------------------------------------------------------------------
(***************************************************************************)
(* A batch on its way: sent, written, heard of.                            *)
(***************************************************************************)

Moves(t, from, to) ==
    /\ pc[t] = from /\ pc'[t] = to
    /\ \A u \in Task \ {t} : pc'[u] = pc[u] /\ batch'[u] = batch[u]

LEMMA WithJoins ==
  ASSUME NEW t \in Task, NEW from, NEW to, from # to, Moves(t, from, to),
         NEW i, IsFiniteSet(With(to, i))
  PROVE  /\ IsFiniteSet(With(to, i)')
         /\ Cardinality(With(to, i)) \in Nat
         /\ Cardinality(With(to, i)') =
              Cardinality(With(to, i)) + (IF Carries(batch'[t], i) THEN 1 ELSE 0)
  <1>1. t \notin With(to, i)
    BY DEF With, Moves
  <1>2. Cardinality(With(to, i)) \in Nat
    BY FS_CardinalityType
  <1>3. CASE Carries(batch'[t], i)
    <2>1. With(to, i)' = With(to, i) \cup {t}
      BY <1>3 DEF With, Moves
    <2> QED
      BY <1>1, <1>2, <1>3, <2>1, FS_AddElement
  <1>4. CASE ~ Carries(batch'[t], i)
    <2>1. With(to, i)' = With(to, i)
      BY <1>4 DEF With, Moves
    <2> QED
      BY <1>2, <1>4, <2>1
  <1> QED
    BY <1>3, <1>4

LEMMA WithLeaves ==
  ASSUME NEW t \in Task, NEW from, NEW to, from # to, Moves(t, from, to),
         NEW i, IsFiniteSet(With(from, i))
  PROVE  /\ IsFiniteSet(With(from, i)')
         /\ Cardinality(With(from, i)) \in Nat /\ Cardinality(With(from, i)') \in Nat
         /\ Cardinality(With(from, i)) =
              Cardinality(With(from, i)') + (IF Carries(batch[t], i) THEN 1 ELSE 0)
  <1>1. With(from, i)' = With(from, i) \ {t}
    BY DEF With, Moves
  <1>2. t \in With(from, i) <=> Carries(batch[t], i)
    BY DEF With, Moves
  <1>3. /\ IsFiniteSet(With(from, i)')
        /\ Cardinality(With(from, i)') =
             IF t \in With(from, i) THEN Cardinality(With(from, i)) - 1
                                    ELSE Cardinality(With(from, i))
    BY <1>1, FS_RemoveElement
  <1>4. Cardinality(With(from, i)) \in Nat /\ Cardinality(With(from, i)') \in Nat
    BY <1>3, FS_CardinalityType
  <1> QED
    BY <1>2, <1>3, <1>4

\* Neither here nor there.
LEMMA WithStays ==
  ASSUME NEW t \in Task, NEW from, NEW to, Moves(t, from, to),
         NEW label, label # from, label # to, NEW i
  PROVE  With(label, i)' = With(label, i)
  BY DEF With, Moves

LEMMA MoveMoves ==
  ASSUME IInv, StoreType, NEW t \in Task, NEW from, NEW to \in Labels,
         Lance!At(t, from), Lance!Move(t, to),
         batch' = batch \/ \E group : batch' = [batch EXCEPT ![t] = group]
  PROVE  Moves(t, from, to)
  BY DEF IInv, TypeOK, StoreType, Lance!At, Lance!Move, Moves

\* Sending: the nodes are the process's own, of the right dimension.
LEMMA SendStore ==
  ASSUME IInv, StoreType, TableInv, NodesInv, CountInv, NEW t \in Task, Send(t)
  PROVE  StoreType' /\ TableInv' /\ NodesInv' /\ CountInv'
  <1>1. PICK i \in held, j \in held :
          LET ids == IF i = j THEN <<i>> ELSE <<i, j>>
          IN  /\ Lance!InsertBatch(t, [k \in DOMAIN ids |-> made[ids[k]]])
              /\ sent' = [n \in DOMAIN sent |-> sent[n] + (IF n \in {i, j} THEN 1 ELSE 0)]
    BY DEF Send
  <1> DEFINE ids == IF i = j THEN <<i>> ELSE <<i, j>>
             group == [k \in DOMAIN ids |-> made[ids[k]]]
  <1>2. UNCHANGED <<dim, session, made, held, malformed, acked, removed>>
    BY DEF Send, Rest, nodeVars, process
  <1>3. /\ Lance!At(t, "free") /\ t \in handles /\ Lance!FitsHandle(group)
        /\ batch' = [batch EXCEPT ![t] = group] /\ Lance!Move(t, "adding")
        /\ UNCHANGED <<handles, table>>
        /\ sent' = [n \in DOMAIN sent |-> sent[n] + (IF n \in {i, j} THEN 1 ELSE 0)]
    BY <1>1 DEF Lance!InsertBatch
  <1>4. i \in DOMAIN made /\ j \in DOMAIN made /\ made \in Seq(Node)
    BY DEF StoreType
  <1>5. /\ Len(ids) \in {1, 2} /\ DOMAIN ids = 1 .. Len(ids)
        /\ \A k \in DOMAIN ids : ids[k] \in {i, j}
        /\ \A k, l \in DOMAIN ids : ids[k] = ids[l] => k = l
        /\ \A n \in {i, j} : \E k \in DOMAIN ids : ids[k] = n
    <2>1. CASE i = j
      <3>1. ids = <<i>> /\ DOMAIN <<i>> = {1} /\ Len(<<i>>) = 1 /\ <<i>>[1] = i /\ 1 .. 1 = {1}
        BY <2>1
      <3> HIDE DEF ids
      <3> QED
        BY <2>1, <3>1
    <2>2. CASE i # j
      <3>1. /\ ids = <<i, j>> /\ DOMAIN <<i, j>> = {1, 2} /\ Len(<<i, j>>) = 2
            /\ <<i, j>>[1] = i /\ <<i, j>>[2] = j /\ 1 .. 2 = {1, 2}
        BY <2>2
      <3> HIDE DEF ids
      <3> QED
        BY <2>2, <3>1
    <2> QED
      BY <2>1, <2>2
  <1> HIDE DEF ids
  <1>6. group \in Seq(Node) /\ DOMAIN group = DOMAIN ids /\ Len(group) = Len(ids)
    <2>1. group \in [1 .. Len(ids) -> Node]
      BY <1>4, <1>5
    <2>2. Len(ids) \in Nat
      BY <1>5
    <2> HIDE DEF group
    <2>3. group \in Seq(Node)
      BY <2>1, <2>2, SeqDef
    <2>4. DOMAIN group = DOMAIN ids
      BY <1>5, <2>1
    <2> QED
      BY <1>5, <2>2, <2>3, <2>4, LenProperties
  <1>7. \A k \in DOMAIN group : group[k] = made[ids[k]] /\ group[k].id = ids[k]
    BY <1>4, <1>5 DEF NodesInv
  <1>8. Batched(group)
    <2>1. \A k \in DOMAIN group : Len(group[k].embedding) = dim
      BY <1>3 DEF Lance!FitsHandle
    <2> HIDE DEF group
    <2> QED
      BY <1>4, <1>5, <1>6, <1>7, <2>1 DEF Batched
  <1>9. \A n : Carries(group, n) <=> n \in {i, j}
    <2> HIDE DEF group
    <2> QED
      BY <1>5, <1>6, <1>7 DEF Carries
  <1> HIDE DEF group
  <1>10. Moves(t, "free", "adding") /\ batch'[t] = group /\ batch' \in [Task -> Seq(Node)]
    <2>1. Moves(t, "free", "adding")
      BY <1>3, MoveMoves DEF Labels
    <2> QED
      BY <1>3, <1>6, <2>1 DEF StoreType
  <1>11. sent' \in [1 .. MaxNodes -> Nat]
    BY <1>3 DEF StoreType
  <1>12. StoreType'
    BY <1>2, <1>3, <1>10, <1>11 DEF StoreType
  <1>13. TableInv'
    BY <1>3, <1>10 DEF TableInv, Moves
  <1>14. NodesInv'
    <2>1. ASSUME NEW u \in Task, pc'[u] \in {"adding", "committed"}
          PROVE  Batched(batch[u])'
      <3>1. Batched(batch'[u])
        BY <1>8, <1>10, <2>1 DEF NodesInv, Moves
      <3> QED
        BY <1>2, <3>1 DEF Batched
    <2> QED
      BY <1>2, <2>1 DEF NodesInv
  <1>15. ASSUME NEW n \in DOMAIN made
         PROVE  Counted(n)'
    <2>1. /\ IsFiniteSet(With("adding", n)')
          /\ Cardinality(With("adding", n)) \in Nat
          /\ Cardinality(With("adding", n)') =
               Cardinality(With("adding", n)) + (IF n \in {i, j} THEN 1 ELSE 0)
      BY <1>9, <1>10, <1>15, WithJoins DEF CountInv, Counted
    <2>2. With("committed", n)' = With("committed", n)
      BY <1>10, WithStays
    <2>3. Copies(made[n])' = Copies(made[n])
      BY <1>2, <1>3 DEF Copies, Lance!all_nodes
    <2>4. sent'[n] = sent[n] + (IF n \in {i, j} THEN 1 ELSE 0)
      BY <1>3, CountTypes DEF StoreType
    <2>5. Counted(n) /\ Copies(made[n]) \in Nat /\ sent[n] \in Nat
      BY CountTypes DEF CountInv
    <2>6. Copies(made[n])' + Cardinality(With("adding", n)') <= sent'[n]
      BY <2>1, <2>3, <2>4, <2>5 DEF Counted
    <2> QED
      BY <1>2, <2>1, <2>2, <2>3, <2>5, <2>6 DEF Counted
  <1>16. CountInv'
    BY <1>2, <1>3, <1>15 DEF CountInv, Lance!all_nodes
  <1> QED
    BY <1>12, <1>13, <1>14, <1>16

\* Committing: each node of the batch is a row more, unchanged.
LEMMA CommitStore ==
  ASSUME IInv, StoreType, TableInv, NodesInv, CountInv, NEW t \in Task, Commit(t)
  PROVE  StoreType' /\ TableInv' /\ NodesInv' /\ CountInv'
  <1> DEFINE group == batch[t]
             more == Lance!nodes_to_batch(group)
  <1>1. /\ Lance!At(t, "adding") /\ Lance!Move(t, "committed")
        /\ table' = [table EXCEPT !.rows = @ \o more]
        /\ UNCHANGED <<handles, batch, dim, made, held, sent, acked, removed>>
    BY DEF Commit, Lance!Commit, Rest, nodeVars, history
  <1>2. Moves(t, "adding", "committed")
    BY <1>1, MoveMoves DEF Labels
  <1>3. group \in Seq(Node) /\ Batched(group)
    BY <1>2 DEF StoreType, NodesInv, Moves
  <1>4. /\ more \in Seq(Row) /\ Len(more) = Len(group)
        /\ \A k \in DOMAIN group : Back(more[k]) = group[k]
    BY <1>3, RowsOfBatch
  <1> HIDE DEF group, more
  <1>5. table.rows \in Seq(Row) /\ table \in Table
    BY DEF StoreType, Table
  <1>6. /\ table'.rows = table.rows \o more /\ table'.exists = table.exists
        /\ table'.rows \in Seq(Row) /\ table' \in Table
    <2>1. table.rows \o more \in Seq(Row)
      BY <1>4, <1>5, ConcatProperties
    <2> HIDE DEF more
    <2>2. table' = [table EXCEPT !.rows = table.rows \o more]
      BY <1>1
    <2> QED
      BY <1>5, <2>1, <2>2 DEF Table
  <1>7. StoreType'
    BY <1>1, <1>6 DEF StoreType
  <1>8. TableInv'
    <2>1. table.exists
      BY <1>2 DEF TableInv, Moves
    <2> QED
      BY <1>1, <1>2, <1>6, <2>1 DEF TableInv, Moves
  <1>9. NodesInv'
    <2>1. ASSUME NEW u \in Task, pc'[u] \in {"adding", "committed"}
          PROVE  Batched(batch[u])'
      <3>1. Batched(batch[u])
        BY <1>2, <2>1 DEF NodesInv, Moves
      <3> QED
        BY <1>1, <3>1 DEF Batched
    <2> QED
      BY <1>1, <2>1 DEF NodesInv
  <1>10. DOMAIN more = DOMAIN group
    BY <1>3, <1>4, LenProperties
  <1>11. ASSUME NEW i \in DOMAIN made
         PROVE  /\ Copies(made[i])' \in Nat
                /\ Copies(made[i])' = Copies(made[i]) + (IF Carries(group, i) THEN 1 ELSE 0)
    <2>1. /\ Copies(made[i])' = Cardinality(RowsOf(table'.rows, made[i]))
          /\ Copies(made[i]) = Cardinality(RowsOf(table.rows, made[i]))
      BY <1>1, CopiesAreRows, CopiesAreRowsNext DEF ReadBack
    <2>2. \A k \in DOMAIN more : Back(more[k]) = made[i] <=> group[k].id = i
      <3> SUFFICES ASSUME NEW k \in DOMAIN more
                   PROVE  Back(more[k]) = made[i] <=> group[k].id = i
        OBVIOUS
      <3>1. Back(more[k]) = group[k] /\ group[k].id \in DOMAIN made
            /\ group[k] = made[group[k].id]
        BY <1>3, <1>4, <1>10 DEF Batched
      <3> QED
        BY <3>1 DEF NodesInv
    <2>3. CASE Carries(group, i)
      <3>1. PICK k \in DOMAIN more : group[k].id = i
        BY <1>10, <2>3 DEF Carries
      <3>2. \A l \in DOMAIN more : Back(more[l]) = made[i] => l = k
        BY <1>3, <1>10, <2>2, <3>1 DEF Batched
      <3>3. Back(more[k]) = made[i]
        BY <2>2, <3>1
      <3>4. Cardinality(RowsOf(table.rows \o more, made[i]))
               = Cardinality(RowsOf(table.rows, made[i])) + 1
        BY <1>4, <1>5, <3>2, <3>3, RowsOfMore
      <3> QED
        BY <1>6, <1>11, <2>1, <2>3, <3>4, CountTypes
    <2>4. CASE ~ Carries(group, i)
      <3>1. \A k \in DOMAIN more : Back(more[k]) # made[i]
        BY <1>10, <2>2, <2>4 DEF Carries
      <3>2. RowsOf(table.rows \o more, made[i]) = RowsOf(table.rows, made[i])
        BY <1>4, <1>5, <3>1, RowsOfMore
      <3> QED
        BY <1>6, <1>11, <2>1, <2>4, <3>2, CountTypes
    <2> QED
      BY <2>3, <2>4
  <1>12. ASSUME NEW i \in DOMAIN made
         PROVE  Counted(i)'
    <2>1. Counted(i)
      BY DEF CountInv
    <2>2. /\ IsFiniteSet(With("adding", i)')
          /\ Cardinality(With("adding", i)) \in Nat /\ Cardinality(With("adding", i)') \in Nat
          /\ Cardinality(With("adding", i)) =
               Cardinality(With("adding", i)') + (IF Carries(group, i) THEN 1 ELSE 0)
      BY <1>2, <2>1, WithLeaves DEF Counted, group
    <2>3. /\ IsFiniteSet(With("committed", i)')
          /\ Cardinality(With("committed", i)) \in Nat
          /\ Cardinality(With("committed", i)') =
               Cardinality(With("committed", i)) + (IF Carries(group, i) THEN 1 ELSE 0)
      BY <1>1, <1>2, <2>1, WithJoins DEF Counted, group
    <2>4. Copies(made[i])' = Copies(made[i]) + (IF Carries(group, i) THEN 1 ELSE 0)
      BY <1>11
    <2>5. Copies(made[i]) \in Nat /\ sent[i] \in Nat /\ acked[i] \in Nat
      BY CountTypes
    <2>6. Copies(made[i])' + Cardinality(With("adding", i)') <= sent'[i]
      BY <1>1, <2>1, <2>2, <2>4, <2>5 DEF Counted
    <2>7. i \notin removed' =>
             acked'[i] + Cardinality(With("committed", i)') <= Copies(made[i])'
      BY <1>1, <2>1, <2>3, <2>4, <2>5 DEF Counted
    <2> QED
      BY <2>2, <2>3, <2>6, <2>7 DEF Counted
  <1>13. \A r \in DOMAIN table'.rows : \E i \in DOMAIN made' : Lance!all_nodes'[r] = made'[i]
    <2> SUFFICES ASSUME NEW r \in DOMAIN table'.rows
                 PROVE  \E i \in DOMAIN made : Back(table'.rows[r]) = made[i]
      BY <1>1, CopiesAreRowsNext DEF ReadBack
    <2>1. \/ r \in DOMAIN table.rows /\ table'.rows[r] = table.rows[r]
          \/ \E k \in DOMAIN more : table'.rows[r] = more[k]
      BY <1>4, <1>5, <1>6
    <2>2. CASE r \in DOMAIN table.rows /\ table'.rows[r] = table.rows[r]
      BY <2>2, CopiesAreRows DEF CountInv, ReadBack
    <2>3. ASSUME NEW k \in DOMAIN more, table'.rows[r] = more[k]
          PROVE  \E i \in DOMAIN made : Back(table'.rows[r]) = made[i]
      BY <1>3, <1>4, <1>10, <2>3 DEF Batched
    <2> QED
      BY <2>1, <2>2, <2>3
  <1>14. CountInv'
    BY <1>1, <1>12, <1>13 DEF CountInv
  <1> QED
    BY <1>7, <1>8, <1>9, <1>14

\* Hearing of it: what was written counts as acknowledged.
LEMMA HearStore ==
  ASSUME IInv, StoreType, TableInv, NodesInv, CountInv, NEW t \in Task, Hear(t)
  PROVE  StoreType' /\ TableInv' /\ NodesInv' /\ CountInv'
  <1>1. /\ Lance!At(t, "committed") /\ Lance!Move(t, "free")
        /\ batch' = [batch EXCEPT ![t] = <<>>]
        /\ UNCHANGED <<handles, table, dim, made, held, sent, removed>>
        /\ acked' = [n \in DOMAIN acked |->
                       acked[n] + (IF Carries(batch[t], n) THEN 1 ELSE 0)]
    BY DEF Hear, Lance!Inserted, Rest, nodeVars, Carries
  <1>2. Moves(t, "committed", "free")
    BY <1>1, MoveMoves DEF Labels
  <1>3. acked' \in [1 .. MaxNodes -> Nat]
    BY <1>1 DEF StoreType
  <1>4. batch' \in [Task -> Seq(Node)]
    BY <1>1 DEF StoreType
  <1>5. StoreType'
    BY <1>1, <1>3, <1>4 DEF StoreType
  <1>6. TableInv'
    BY <1>1, <1>2 DEF TableInv, Moves
  <1>7. NodesInv'
    <2>1. ASSUME NEW u \in Task, pc'[u] \in {"adding", "committed"}
          PROVE  Batched(batch[u])'
      <3>1. Batched(batch'[u])
        BY <1>2, <2>1 DEF NodesInv, Moves
      <3> QED
        BY <1>1, <3>1 DEF Batched
    <2> QED
      BY <1>1, <2>1 DEF NodesInv
  <1>8. ASSUME NEW i \in DOMAIN made
        PROVE  Counted(i)'
    <2>1. Counted(i)
      BY DEF CountInv
    <2>2. With("adding", i)' = With("adding", i)
      BY <1>2, WithStays
    <2>3. /\ IsFiniteSet(With("committed", i)')
          /\ Cardinality(With("committed", i)) \in Nat /\ Cardinality(With("committed", i)') \in Nat
          /\ Cardinality(With("committed", i)) =
               Cardinality(With("committed", i)') + (IF Carries(batch[t], i) THEN 1 ELSE 0)
      BY <1>2, <2>1, WithLeaves DEF Counted
    <2>4. Copies(made[i])' = Copies(made[i])
      BY <1>1 DEF Copies, Lance!all_nodes
    <2>5. Copies(made[i]) \in Nat /\ acked[i] \in Nat /\ i \in 1 .. MaxNodes
      BY CountTypes
    <2>6. acked'[i] = acked[i] + (IF Carries(batch[t], i) THEN 1 ELSE 0)
      BY <1>1, <2>5 DEF StoreType
    <2>7. i \notin removed' =>
             acked'[i] + Cardinality(With("committed", i)') <= Copies(made[i])'
      BY <1>1, <2>1, <2>3, <2>4, <2>5, <2>6 DEF Counted
    <2>8. Copies(made[i])' + Cardinality(With("adding", i)') <= sent'[i]
      BY <1>1, <2>1, <2>2, <2>4 DEF Counted
    <2> QED
      BY <2>1, <2>2, <2>3, <2>7, <2>8 DEF Counted
  <1>9. \A i \in 1 .. MaxNodes : i \notin DOMAIN made => acked'[i] = 0
    <2> SUFFICES ASSUME NEW i \in 1 .. MaxNodes, i \notin DOMAIN made
                 PROVE  acked'[i] = 0
      OBVIOUS
    <2>1. ~ Carries(batch[t], i)
      BY <1>2 DEF Carries, NodesInv, Batched, Moves
    <2>2. acked[i] = 0
      BY DEF CountInv
    <2> QED
      BY <1>1, <2>1, <2>2 DEF StoreType
  <1>10. CountInv'
    BY <1>1, <1>8, <1>9 DEF CountInv, Lance!all_nodes
  <1> QED
    BY <1>5, <1>6, <1>7, <1>10

\* Erasing: only what was removed is missed.
LEMMA EraseStore ==
  ASSUME IInv, StoreType, TableInv, NodesInv, CountInv, NEW t \in Task, Erase(t)
  PROVE  StoreType' /\ TableInv' /\ NodesInv' /\ CountInv'
  <1>1. PICK rows :
          /\ Lance!Removing(t, rows)
          /\ \/ \E id \in DOMAIN made : /\ rows = Lance!Without(table.rows, id)
                                        /\ removed' = removed \cup {id}
             \/ rows = <<>> /\ removed' = removed \cup DOMAIN made
    BY DEF Erase, Lance!Delete, Lance!Clear
  <1>2. UNCHANGED <<pc, handles, batch, dim, made, held, sent, acked>>
    BY <1>1 DEF Erase, Lance!Removing, Rest, nodeVars
  <1>3. table.rows \in Seq(Row) /\ table \in Table
    BY DEF StoreType, Table
  <1>4. /\ rows \in Seq(Row)
        /\ removed \subseteq removed' /\ removed' \subseteq DOMAIN made
        /\ \A r \in DOMAIN rows : \E q \in DOMAIN table.rows : rows[r] = table.rows[q]
        /\ \A i \in DOMAIN made :
             \/ Cardinality(RowsOf(rows, made[i])) = Cardinality(RowsOf(table.rows, made[i]))
             \/ RowsOf(rows, made[i]) = {} /\ i \in removed'
    <2>1. CASE rows = <<>> /\ removed' = removed \cup DOMAIN made
      BY <2>1 DEF StoreType, RowsOf
    <2>2. ASSUME NEW id \in DOMAIN made, rows = Lance!Without(table.rows, id),
                 removed' = removed \cup {id}
          PROVE  /\ rows \in Seq(Row)
                 /\ removed \subseteq removed' /\ removed' \subseteq DOMAIN made
                 /\ \A r \in DOMAIN rows : \E q \in DOMAIN table.rows : rows[r] = table.rows[q]
                 /\ \A i \in DOMAIN made :
                      \/ Cardinality(RowsOf(rows, made[i])) = Cardinality(RowsOf(table.rows, made[i]))
                      \/ RowsOf(rows, made[i]) = {} /\ i \in removed'
      <3>1. rows \in Seq(Row) /\ Erased(id, table.rows, rows)
        BY <1>3, <2>2, WithoutErases
      <3>2. \A r \in DOMAIN rows : \E q \in DOMAIN table.rows : rows[r] = table.rows[q]
        BY <1>3, <3>1, RowsOfErased
      <3>3. ASSUME NEW i \in DOMAIN made
            PROVE  \/ Cardinality(RowsOf(rows, made[i])) = Cardinality(RowsOf(table.rows, made[i]))
                   \/ RowsOf(rows, made[i]) = {} /\ i \in removed'
        <4>1. made[i].id = i
          BY DEF NodesInv
        <4> QED
          BY <1>3, <2>2, <3>1, <4>1, RowsOfErased
      <3> QED
        BY <2>2, <3>1, <3>2, <3>3 DEF StoreType
    <2> QED
      BY <1>1, <2>1, <2>2
  <1>5. table'.rows = rows /\ table'.exists = table.exists /\ table' \in Table
    BY <1>1, <1>3, <1>4 DEF Lance!Removing, Table
  <1>6. StoreType'
    BY <1>2, <1>4, <1>5 DEF StoreType
  <1>7. TableInv'
    <2>1. t \in handles
      BY <1>1 DEF Lance!Removing
    <2> QED
      BY <1>2, <1>5, <2>1 DEF TableInv
  <1>8. NodesInv'
    BY <1>2 DEF NodesInv, Batched
  <1>9. ASSUME NEW i \in DOMAIN made
        PROVE  Counted(i)'
    <2>1. Counted(i) /\ Copies(made[i]) \in Nat /\ sent[i] \in Nat
      BY CountTypes DEF CountInv
    <2>2. With("adding", i)' = With("adding", i) /\ With("committed", i)' = With("committed", i)
      BY <1>2 DEF With
    <2>3. /\ Copies(made[i])' = Cardinality(RowsOf(rows, made[i]))
          /\ Copies(made[i]) = Cardinality(RowsOf(table.rows, made[i]))
      BY <1>2, <1>5, CopiesAreRows, CopiesAreRowsNext DEF ReadBack
    <2>4. \/ Copies(made[i])' = Copies(made[i])
          \/ Copies(made[i])' = 0 /\ i \in removed'
      BY <1>4, <2>3, FS_EmptySet
    <2>5. Cardinality(With("adding", i)) \in Nat
      BY <2>1, FS_CardinalityType DEF Counted
    <2>6. Copies(made[i])' + Cardinality(With("adding", i)') <= sent'[i]
      BY <1>2, <2>1, <2>2, <2>4, <2>5 DEF Counted
    <2>7. i \notin removed' =>
             acked'[i] + Cardinality(With("committed", i)') <= Copies(made[i])'
      BY <1>2, <1>4, <2>1, <2>2, <2>4 DEF Counted
    <2> QED
      BY <2>1, <2>2, <2>6, <2>7 DEF Counted
  <1>10. \A r \in DOMAIN table'.rows : \E i \in DOMAIN made' : Lance!all_nodes'[r] = made'[i]
    <2> SUFFICES ASSUME NEW r \in DOMAIN rows
                 PROVE  \E i \in DOMAIN made : Back(rows[r]) = made[i]
      BY <1>2, <1>5, CopiesAreRowsNext DEF ReadBack
    <2> QED
      BY <1>4, CopiesAreRows DEF CountInv, ReadBack
  <1>11. CountInv'
    BY <1>2, <1>9, <1>10 DEF CountInv
  <1> QED
    BY <1>6, <1>7, <1>8, <1>11

-----------------------------------------------------------------------------
(***************************************************************************)
(* The other steps.                                                        *)
(***************************************************************************)

LEMMA StillStore ==
  ASSUME StoreType, StoreInv, UNCHANGED <<dim, stored, nodeVars, history>>,
         \A t \in Task : pc'[t] \in {"opening", "adding", "committed"} => pc'[t] = pc[t]
  PROVE  StoreType' /\ StoreInv'
  <1>1. UNCHANGED <<dim, handles, table, batch, made, held, sent, acked, removed>>
    BY DEF stored, nodeVars, history
  <1>2. StoreType'
    BY <1>1 DEF StoreType
  <1>3. TableInv'
    BY <1>1 DEF StoreInv, TableInv
  <1>4. NodesInv' /\ CountInv'
    BY <1>1, QuietStore DEF StoreInv
  <1> QED
    BY <1>2, <1>3, <1>4 DEF StoreInv

LEMMA CallStore ==
  ASSUME IInv, StoreType, StoreInv, NEW t \in Task, CallEngine(t)
  PROVE  StoreType' /\ StoreInv'
  <1>1. \E label \in {"locking", "running", "panicked", "free"} : Goto(t, label)
    BY DEF CallEngine, Embed, Lock, LockPanics, RunFails
  <1>2. \A u \in Task : pc'[u] \in {"opening", "adding", "committed"} => pc'[u] = pc[u]
    BY <1>1, MoveStep DEF IInv, Labels
  <1> QED
    BY <1>2, StillStore DEF CallEngine

\* Whatever the model's answer is, what becomes a node is a vector.
LEMMA EmbeddingIsVector ==
  ASSUME NEW out, NEW seq_len, dim \in Nat
  PROVE  Embedding(out, seq_len) \in Seq(Int)
  <1> DEFINE v == SubSeq(full_embedding(out, seq_len), 1, dim)
  <1>1. DOMAIN v = 1 .. dim
    OBVIOUS
  <1> HIDE DEF v
  <1>2. l2_normalize(v) \in [1 .. dim -> Int]
    BY <1>1 DEF l2_normalize
  <1>3. l2_normalize(v) \in Seq(Int)
    BY <1>2, SeqDef
  <1> QED
    BY <1>3 DEF Embedding, v

LEMMA AnswerStore ==
  ASSUME IInv, StoreType, StoreInv, NEW t \in Task, Answered(t)
  PROVE  StoreType' /\ StoreInv'
  <1>1. PICK out \in Outputs, seq_len \in Tokens :
          /\ Extract(t, out, seq_len)
          /\ IF Succeeds(out, seq_len)
             THEN Make("Agent", Embedding(out, seq_len)) ELSE UNCHANGED nodeVars
          /\ UNCHANGED <<dim, stored, history, restarts>>
    BY DEF Answered
  <1>2. \E label \in {"panicked", "free"} : Goto(t, label)
    BY <1>1 DEF Extract
  <1>3. \A u \in Task : pc'[u] \in {"opening", "adding", "committed"} => pc'[u] = pc[u]
    BY <1>2, MoveStep DEF IInv, Labels
  <1>4. CASE Succeeds(out, seq_len)
    <2>1. Embedding(out, seq_len) \in Seq(Int)
      BY EmbeddingIsVector DEF StoreType
    <2> QED
      BY <1>1, <1>3, <1>4, <2>1, MakeStore DEF StoreInv
  <1>5. CASE ~ Succeeds(out, seq_len)
    BY <1>1, <1>3, <1>5, StillStore
  <1> QED
    BY <1>4, <1>5

LEMMA BringStore ==
  ASSUME IInv, StoreType, StoreInv, NEW t \in Task, Bring(t)
  PROVE  StoreType' /\ StoreInv'
  <1>1. PICK v \in Foreign : Make("System", v)
    BY DEF Bring
  <1>2. v \in Seq(Int)
    BY MemoryAssumption
  <1>3. UNCHANGED <<pc, dim, stored, history>>
    BY DEF Bring
  <1> QED
    BY <1>1, <1>2, <1>3, MakeStore DEF StoreInv

\* The table that is created replaces none: there was no row.
LEMMA OpenStore ==
  ASSUME IInv, StoreType, StoreInv, NEW t \in Task, Open(t)
  PROVE  StoreType' /\ StoreInv'
  <1>1. UNCHANGED <<dim, batch, made, held, sent, acked, removed>>
    BY DEF Open, Rest, nodeVars, history, Lance!New, Lance!OpenTable, Lance!CreateTable
  <1>2. PICK label \in {"opening", "creating", "free"} :
          Goto(t, label) /\ (label = "opening" => table.exists /\ UNCHANGED table)
    BY DEF Open, Goto, Lance!Move, Lance!New, Lance!OpenTable, Lance!CreateTable
  <1>3. /\ pc'[t] = label
        /\ \A u \in Task \ {t} : pc'[u] = pc[u]
    BY <1>2, MoveStep DEF IInv, Labels
  <1>4. /\ table'.rows = table.rows /\ table' \in Table
        /\ table.exists => table'.exists
        /\ handles' # {} => table'.exists
        /\ ~table'.exists => table'.rows = <<>>
    <2>1. CASE Lance!New(t)
      BY <2>1 DEF Lance!New, StoreType, StoreInv, TableInv
    <2>2. CASE Lance!OpenTable(t)
      BY <2>2 DEF Lance!OpenTable, Lance!At, StoreType, StoreInv, TableInv
    <2>3. CASE Lance!CreateTable(t)
      <3>1. /\ ~table.exists /\ table.rows = <<>>
            /\ table' = [Lance!NoTable EXCEPT !.exists = TRUE, !.dim = dim]
        BY <2>3 DEF Lance!CreateTable, StoreInv, TableInv
      <3>2. /\ table'.exists = TRUE /\ table'.rows = <<>>
            /\ table' = [exists |-> TRUE, dim |-> dim, rows |-> <<>>, indexed |-> FALSE]
        BY <3>1 DEF Lance!NoTable
      <3>3. <<>> \in Seq(Row) /\ dim \in Nat
        BY DEF StoreType
      <3>4. table' \in Table
        BY <3>2, <3>3 DEF Table
      <3> QED
        BY <3>1, <3>2, <3>4
    <2> QED
      BY <2>1, <2>2, <2>3 DEF Open
  <1>5. StoreType'
    BY <1>1, <1>4 DEF StoreType
  <1>6. TableInv'
    BY <1>2, <1>3, <1>4 DEF StoreInv, TableInv
  <1>7. NodesInv' /\ CountInv'
    BY <1>1, <1>3, <1>4, QuietStore DEF StoreInv
  <1> QED
    BY <1>5, <1>6, <1>7 DEF StoreInv

LEMMA GiveUpStore ==
  ASSUME IInv, StoreType, StoreInv, NEW t \in Task, GiveUp(t)
  PROVE  StoreType' /\ StoreInv'
  <1>1. /\ Goto(t, "free") /\ batch' = [batch EXCEPT ![t] = <<>>]
        /\ UNCHANGED <<dim, handles, table, made, held, sent, acked, removed>>
    BY DEF GiveUp, Lance!GiveUp, Lance!Move, Goto, Rest, nodeVars, history
  <1>2. /\ pc'[t] = "free"
        /\ \A u \in Task \ {t} : pc'[u] = pc[u] /\ batch'[u] = batch[u]
    BY <1>1, MoveStep DEF IInv, Labels, StoreType
  <1>3. StoreType'
    <2>1. batch' \in [Task -> Seq(Node)]
      BY <1>1 DEF StoreType
    <2> QED
      BY <1>1, <2>1 DEF StoreType
  <1>4. TableInv'
    BY <1>1, <1>2 DEF StoreInv, TableInv
  <1>5. NodesInv' /\ CountInv'
    BY <1>1, <1>2, QuietStore DEF StoreInv
  <1> QED
    BY <1>3, <1>4, <1>5 DEF StoreInv

LEMMA IndexStore ==
  ASSUME IInv, StoreType, StoreInv, NEW t \in Task, Index(t)
  PROVE  StoreType' /\ StoreInv'
  <1>1. /\ table' = [table EXCEPT !.indexed = TRUE]
        /\ UNCHANGED <<pc, dim, handles, batch, made, held, sent, acked, removed>>
    BY DEF Index, Lance!CreateIndex, Rest, nodeVars, history
  <1>2. table' \in Table /\ table'.rows = table.rows /\ table'.exists = table.exists
    BY <1>1 DEF StoreType, Table
  <1>3. StoreType'
    BY <1>1, <1>2 DEF StoreType
  <1>4. TableInv'
    BY <1>1, <1>2 DEF StoreInv, TableInv
  <1>5. NodesInv' /\ CountInv'
    BY <1>1, <1>2, QuietStore DEF StoreInv
  <1> QED
    BY <1>3, <1>4, <1>5 DEF StoreInv

\* After a crash the table is all that is left, and it is all that is needed.
LEMMA RestartStore ==
  ASSUME IInv, StoreType, StoreInv, Restart
  PROVE  StoreType' /\ StoreInv'
  <1>1. /\ UNCHANGED <<table, made, sent, acked, removed>>
        /\ handles' = {} /\ held' = {} /\ dim' \in Dims
        /\ batch' = [t \in Task |-> <<>>]
        /\ \A t \in Task : pc'[t] = "free"
    BY DEF Restart, history
  <1>2. StoreType'
    BY <1>1, MemoryAssumption DEF StoreType
  <1>3. TableInv'
    BY <1>1 DEF StoreInv, TableInv
  <1>4. NodesInv' /\ CountInv'
    BY <1>1, QuietStore DEF StoreInv
  <1> QED
    BY <1>2, <1>3, <1>4 DEF StoreInv

-----------------------------------------------------------------------------

MemInv == IInv /\ StoreType /\ StoreInv

LEMMA InitMem == Init => MemInv
  <1> SUFFICES ASSUME Init PROVE MemInv
    OBVIOUS
  <1>1. /\ dim \in Nat /\ made = <<>> /\ held = {} /\ removed = {} /\ handles = {}
        /\ sent \in [1 .. MaxNodes -> Nat] /\ acked = [i \in 1 .. MaxNodes |-> 0]
        /\ batch = [t \in Task |-> <<>>] /\ \A t \in Task : pc[t] = "free"
    BY MemoryAssumption DEF Init, EmbeddingInit, Lance!LanceInit
  <1>2. table = [exists |-> FALSE, dim |-> 0, rows |-> <<>>, indexed |-> FALSE]
    BY DEF Init, Lance!LanceInit, Lance!NoTable
  <1>3. table \in Table /\ ~table.exists /\ table.rows = <<>>
    BY <1>2 DEF Table
  <1>4. DOMAIN made = {} /\ DOMAIN table.rows = {}
    BY <1>1, <1>3
  <1>5. StoreType
    BY <1>1, <1>3, <1>4, MemoryAssumption DEF StoreType
  <1>6. TableInv /\ NodesInv
    BY <1>1, <1>3, <1>4 DEF TableInv, NodesInv
  <1>7. CountInv
    BY <1>1, <1>4 DEF CountInv
  <1> QED
    BY <1>5, <1>6, <1>7, InitInv DEF MemInv, StoreInv

LEMMA NextMem == MemInv /\ [Next]_vars => MemInv'
  <1> SUFFICES ASSUME MemInv, [Next]_vars PROVE MemInv'
    OBVIOUS
  <1>1. IInv'
    BY NextInv DEF MemInv
  <1>2. CASE Restart
    BY <1>1, <1>2, RestartStore DEF MemInv
  <1>3. ASSUME NEW t \in Task, CallEngine(t) \/ Answered(t) \/ Bring(t)
        PROVE  MemInv'
    BY <1>1, <1>3, CallStore, AnswerStore, BringStore DEF MemInv
  <1>4. ASSUME NEW t \in Task, Open(t) \/ GiveUp(t) \/ Index(t)
        PROVE  MemInv'
    BY <1>1, <1>4, OpenStore, GiveUpStore, IndexStore DEF MemInv
  <1>5. ASSUME NEW t \in Task, Send(t) \/ Commit(t) \/ Hear(t) \/ Erase(t)
        PROVE  MemInv'
    BY <1>1, <1>5, SendStore, CommitStore, HearStore, EraseStore DEF MemInv, StoreInv
  <1>6. CASE UNCHANGED vars
    BY <1>1, <1>6, StillStore DEF MemInv, vars
  <1> QED
    BY <1>2, <1>3, <1>4, <1>5, <1>6 DEF Next

-----------------------------------------------------------------------------

\* Read back after any crash, lost answer or repeated insertion, the table holds
\* every node at least as often as its insertion was acknowledged, unless it was
\* removed, at most as often as it was sent, and nothing else (insert_batch(),
\* delete(), clear() and all_nodes(), lance_store.rs:318-588).
THEOREM AcknowledgedIsKept == Spec => []AckedKept
  <1>1. MemInv => AckedKept
    <2> SUFFICES ASSUME MemInv PROVE AckedKept
      OBVIOUS
    <2>1. ASSUME NEW i \in DOMAIN made
          PROVE  /\ Copies(made[i]) <= sent[i]
                 /\ i \notin removed => acked[i] <= Copies(made[i])
      <3>1. Counted(i) /\ Copies(made[i]) \in Nat /\ sent[i] \in Nat /\ acked[i] \in Nat
        BY CountTypes DEF MemInv, StoreInv, CountInv
      <3>2. Cardinality(With("adding", i)) \in Nat /\ Cardinality(With("committed", i)) \in Nat
        BY <3>1, FS_CardinalityType DEF Counted
      <3> HIDE DEF Copies, With
      <3> QED
        BY <3>1, <3>2 DEF Counted
    <2>2. \A r \in DOMAIN Lance!all_nodes : \E i \in DOMAIN made : Lance!all_nodes[r] = made[i]
      BY DEF MemInv, StoreInv, CountInv, Lance!all_nodes
    <2> QED
      BY <2>1, <2>2 DEF AckedKept
  <1> QED
    BY InitMem, NextMem, <1>1, PTL DEF Spec

LEMMA MoreIsLonger ==
  ASSUME NEW S, NEW rows \in Seq(S), NEW more \in Seq(S)
  PROVE  Len(rows \o more) = Len(rows) + Len(more) /\ IsPrefix(rows, rows \o more)
  <1> DEFINE all == rows \o more
  <1>1. /\ Len(rows) \in Nat /\ Len(more) \in Nat
        /\ Len(all) = Len(rows) + Len(more)
        /\ \A r \in 1 .. Len(rows) : all[r] = rows[r]
    BY ConcatProperties, LenProperties
  <1> HIDE DEF all
  <1>2. SubSeq(rows, 1, Len(rows)) = SubSeq(all, 1, Len(rows))
    BY <1>1
  <1> QED
    BY <1>1, <1>2 DEF IsPrefix, all

\* What is written is the batch, in its order, after the rows there are.
LEMMA CommitWhole ==
  ASSUME MemInv, NEW t \in Task, Commit(t)
  PROVE  /\ pc[t] = "adding" /\ Len(table'.rows) = Len(table.rows) + Len(batch[t])
         /\ IsPrefix(table.rows, table'.rows)
  <1>1. pc[t] = "adding" /\ table' = [table EXCEPT !.rows = @ \o Lance!nodes_to_batch(batch[t])]
    BY DEF Commit, Lance!Commit, Lance!At
  <1>2. batch[t] \in Seq(Node) /\ Batched(batch[t]) /\ table.rows \in Seq(Row) /\ table \in Table
    BY <1>1 DEF MemInv, StoreType, StoreInv, NodesInv, Table
  <1> DEFINE more == Lance!nodes_to_batch(batch[t])
  <1>3. more \in Seq(Row) /\ Len(more) = Len(batch[t])
    BY <1>2, RowsOfBatch DEF MemInv
  <1>4. table' = [table EXCEPT !.rows = table.rows \o more]
    BY <1>1
  <1> HIDE DEF more
  <1>5. table'.rows = table.rows \o more
    BY <1>2, <1>4 DEF Table
  <1>6. /\ Len(table.rows \o more) = Len(table.rows) + Len(more)
        /\ IsPrefix(table.rows, table.rows \o more)
    BY <1>2, <1>3, MoreIsLonger
  <1> QED
    BY <1>1, <1>3, <1>5, <1>6

LEMMA EraseWhole ==
  ASSUME MemInv, NEW t \in Task, Erase(t)
  PROVE  \/ \E id \in removed' : Erased(id, table.rows, table'.rows)
         \/ table'.rows = <<>> /\ removed' = DOMAIN made
  <1>1. table.rows \in Seq(Row) /\ table \in Table /\ removed \subseteq DOMAIN made
    BY DEF MemInv, StoreType, Table
  <1>2. ASSUME NEW id \in DOMAIN made, Lance!Delete(t, id), removed' = removed \cup {id}
        PROVE  Erased(id, table.rows, table'.rows)
    <2>1. table'.rows = Lance!Without(table.rows, id)
      BY <1>1, <1>2 DEF Lance!Delete, Lance!Removing, Table
    <2> QED
      BY <1>1, <2>1, WithoutErases
  <1>3. CASE Lance!Clear(t) /\ removed' = removed \cup DOMAIN made
    <2>1. table'.rows = <<>>
      BY <1>1, <1>3 DEF Lance!Clear, Lance!Removing, Table
    <2> QED
      BY <1>1, <1>3, <2>1
  <1> QED
    BY <1>2, <1>3 DEF Erase

LEMMA OthersKeepRows ==
  ASSUME MemInv,
         \/ Restart \/ UNCHANGED vars
         \/ \E t \in Task : \/ CallEngine(t) \/ Answered(t) \/ Bring(t)
                            \/ Open(t) \/ Send(t) \/ Hear(t) \/ GiveUp(t) \/ Index(t)
  PROVE  table'.rows = table.rows
  <1>1. CASE Restart \/ UNCHANGED vars
    BY <1>1 DEF Restart, vars, stored
  <1>2. ASSUME NEW t \in Task, CallEngine(t) \/ Answered(t) \/ Bring(t)
        PROVE  table'.rows = table.rows
    BY <1>2 DEF CallEngine, Answered, Bring, stored
  <1>3. ASSUME NEW t \in Task, Send(t) \/ Hear(t) \/ GiveUp(t)
        PROVE  table'.rows = table.rows
    BY <1>3 DEF Send, Hear, GiveUp, Lance!InsertBatch, Lance!Inserted, Lance!GiveUp
  <1>4. ASSUME NEW t \in Task, Index(t)
        PROVE  table'.rows = table.rows
    BY <1>4 DEF Index, Lance!CreateIndex, MemInv, StoreType, Table
  <1>5. ASSUME NEW t \in Task, Open(t)
        PROVE  table'.rows = table.rows
    <2>1. CASE Lance!New(t) \/ Lance!OpenTable(t)
      BY <2>1 DEF Lance!New, Lance!OpenTable
    <2>2. CASE Lance!CreateTable(t)
      <3>1. table.rows = <<>> /\ table' = [Lance!NoTable EXCEPT !.exists = TRUE, !.dim = dim]
        BY <2>2 DEF Lance!CreateTable, MemInv, StoreInv, TableInv
      <3> QED
        BY <3>1 DEF Lance!NoTable
    <2> QED
      BY <1>5, <2>1, <2>2 DEF Open
  <1> QED
    BY <1>1, <1>2, <1>3, <1>4, <1>5

\* No step of any task, and no crash, changes the table's rows but by one whole
\* batch at their end, by one node with all its copies, or by all of them: a
\* creation that loses the race never replaces the winner's table
\* (open_or_create_table(), lance_store.rs:188-222, insert_batch(), 318-349).
THEOREM WritesAreWhole == Spec => RowsChangeWhole
  <1> DEFINE Whole ==
        \/ table'.rows = table.rows
        \/ \E t \in Task : pc[t] = "adding" /\ Len(table'.rows) = Len(table.rows) + Len(batch[t])
                              /\ IsPrefix(table.rows, table'.rows)
        \/ \E id \in removed' : Erased(id, table.rows, table'.rows)
        \/ table'.rows = <<>> /\ removed' = DOMAIN made
  <1>1. ASSUME MemInv, [Next]_vars PROVE Whole
    <2>1. ASSUME NEW t \in Task, Commit(t) PROVE Whole
      BY <1>1, <2>1, CommitWhole
    <2>2. ASSUME NEW t \in Task, Erase(t) PROVE Whole
      BY <1>1, <2>2, EraseWhole
    <2>3. CASE \/ Restart \/ UNCHANGED vars
               \/ \E t \in Task : \/ CallEngine(t) \/ Answered(t) \/ Bring(t)
                                  \/ Open(t) \/ Send(t) \/ Hear(t) \/ GiveUp(t) \/ Index(t)
      <3>1. table'.rows = table.rows
        BY <1>1, <2>3, OthersKeepRows
      <3> QED
        BY <3>1
    <2> QED
      BY <1>1, <2>1, <2>2, <2>3 DEF Next
  <1>2. MemInv /\ [Next]_vars => [Whole]_table
    BY <1>1
  <1> QED
    BY InitMem, NextMem, <1>2, PTL DEF Spec, RowsChangeWhole
=============================================================================
