-------------------------- MODULE BroadcastProofs --------------------------
(***************************************************************************)
(* Proofs about the messages to many users (module SupportBroadcast).      *)
(***************************************************************************)
EXTENDS SupportBroadcast, SequenceTheorems, FiniteSetTheorems, FunctionTheorems, TLAPS

-----------------------------------------------------------------------------
(* The order of the users.  The rank of a user in a set is the number of   *)
(* those before it; the pages of a query and the lists they make are built *)
(* from ranks.                                                             *)

Rank(u, S) == Cardinality(Before(u, S))

\* A larger member has a larger rank.
LEMMA RankGrows ==
    ASSUME NEW S \in SUBSET Nat, IsFiniteSet(S), NEW u \in S, NEW v \in Nat, u < v
    PROVE  /\ Rank(u, S) \in Nat /\ Rank(v, S) \in Nat
           /\ Rank(u, S) + 1 <= Rank(v, S)
           /\ Rank(v, S) <= Cardinality(S)
  <1> DEFINE A == Before(u, S)
             B == Before(v, S)
  <1>1. IsFiniteSet(A) /\ IsFiniteSet(B) /\ Cardinality(B) <= Cardinality(S)
    <2>1. A \in SUBSET S /\ B \in SUBSET S
      BY DEF Before
    <2> QED
      BY <2>1, FS_Subset
  <1>2. u \notin A /\ A \cup {u} \in SUBSET B
    <2>1. \A w \in S : w \in Nat
      OBVIOUS
    <2>2. \A w \in S : w < u => w < v
      BY <2>1
    <2>3. ~(u < u)
      BY <2>1
    <2> QED
      BY <2>2, <2>3 DEF Before
  <1>3. Cardinality(A) \in Nat /\ Cardinality(B) \in Nat
    BY <1>1, FS_CardinalityType
  <1>4. Cardinality(A \cup {u}) = Cardinality(A) + 1
    BY <1>1, <1>2, FS_AddElement
  <1>5. Cardinality(A \cup {u}) <= Cardinality(B)
    BY <1>1, <1>2, FS_Subset
  <1> QED
    BY <1>1, <1>3, <1>4, <1>5 DEF Rank

\* The ranks of the members are the numbers below the size of the set, each
\* taken by one member.
LEMMA RanksAreIndices ==
    ASSUME NEW S \in SUBSET Nat, IsFiniteSet(S)
    PROVE  /\ Cardinality(S) \in Nat
           /\ \A u \in S : Rank(u, S) \in 0 .. (Cardinality(S) - 1)
           /\ \A k \in 0 .. (Cardinality(S) - 1) : \E u \in S : Rank(u, S) = k
  <1> DEFINE n == Cardinality(S)
             f == [u \in S |-> Rank(u, S)]
             T == 0 .. (n - 1)
  <1>1. n \in Nat
    BY FS_CardinalityType
  <1>2. ASSUME NEW u \in S PROVE Rank(u, S) \in 0 .. (n - 1)
    <2> DEFINE A == Before(u, S)
    <2>1. A \in SUBSET S /\ u \notin A
      BY DEF Before
    <2>2. IsFiniteSet(A) /\ Cardinality(A) <= n /\ Cardinality(A) # n
      BY <2>1, FS_Subset
    <2>3. Cardinality(A) \in Nat
      BY <2>2, FS_CardinalityType
    <2> QED
      BY <1>1, <2>2, <2>3 DEF Rank
  <1>3. f \in Injection(S, T)
    <2>1. f \in [S -> T]
      BY <1>2
    <2>2. ASSUME NEW u \in S, NEW v \in S, f[u] = f[v] PROVE u = v
      <3>1. u \in Nat /\ v \in Nat /\ Rank(u, S) = Rank(v, S)
        BY <2>2
      <3>2. ~(u < v)
        BY <3>1, RankGrows
      <3>3. ~(v < u)
        BY <3>1, RankGrows
      <3> QED
        BY <3>1, <3>2, <3>3
    <2> QED
      BY <2>1, <2>2 DEF Injection, IsInjective
  <1>4. IsFiniteSet(T) /\ Cardinality(T) = n
    <2>1. /\ IsFiniteSet(0 .. (n - 1))
          /\ Cardinality(0 .. (n - 1)) = IF 0 > n - 1 THEN 0 ELSE n - 1 - 0 + 1
      <3> HIDE DEF n
      <3>1. 0 \in Int /\ n - 1 \in Int
        BY <1>1
      <3> QED
        BY <3>1, FS_Interval
    <2> QED
      BY <1>1, <2>1
  <1>5. f \in Surjection(S, T)
    <2> HIDE DEF f, T
    <2> QED
      BY <1>3, <1>4, FS_Injection
  <1>6. \A k \in T : \E u \in S : f[u] = k
    BY <1>5 DEF Surjection
  <1> QED
    BY <1>1, <1>2, <1>6

\* A list in which nobody stands twice.
Once(list) == \A i, j \in DOMAIN list : list[i] = list[j] => i = j

\* The list of a set holds its members, each once.
LEMMA SortedFacts ==
    ASSUME NEW S \in SUBSET Nat, IsFiniteSet(S)
    PROVE  Sorted(S) \in Seq(S) /\ ToSet(Sorted(S)) = S /\ Once(Sorted(S))
  <1> DEFINE n == Cardinality(S)
             At(i) == CHOOSE u \in S : Cardinality(Before(u, S)) = i - 1
  <1>1. n \in Nat
    BY RanksAreIndices
  <1>2. ASSUME NEW i \in 1 .. n PROVE At(i) \in S /\ Rank(At(i), S) = i - 1
    <2>1. i - 1 \in 0 .. (n - 1)
      BY <1>1
    <2>2. PICK u \in S : Rank(u, S) = i - 1
      BY <2>1, RanksAreIndices
    <2> QED
      BY <2>2 DEF Rank
  <1>3. Sorted(S) = [i \in 1 .. n |-> At(i)]
    BY DEF Sorted
  <1> HIDE DEF n, At
  <1>4. Sorted(S) \in Seq(S) /\ DOMAIN Sorted(S) = 1 .. n
    BY <1>1, <1>2, <1>3
  <1>5. ASSUME NEW u \in S PROVE u \in ToSet(Sorted(S))
    <2> DEFINE i == Rank(u, S) + 1
    <2>1. i \in 1 .. n
      BY <1>1, RanksAreIndices DEF n
    <2>2. At(i) \in S /\ Rank(At(i), S) = Rank(u, S)
      <3>1. Rank(u, S) \in Nat
        BY RanksAreIndices
      <3> QED
        BY <1>2, <2>1, <3>1
    <2>3. At(i) = u
      <3>1. u \in Nat /\ At(i) \in Nat
        BY <2>2
      <3>2. ~(u < At(i))
        BY <2>2, <3>1, RankGrows
      <3>3. ~(At(i) < u)
        BY <2>2, <3>1, RankGrows
      <3> QED
        BY <3>1, <3>2, <3>3
    <2> HIDE DEF i
    <2>4. Sorted(S)[i] = u
      BY <1>3, <2>1, <2>3
    <2> QED
      BY <1>4, <2>1, <2>4 DEF ToSet
  <1>6. ToSet(Sorted(S)) \subseteq S
    BY <1>2, <1>3 DEF ToSet
  <1>7. ASSUME NEW i, i \in 1 .. n, NEW j, j \in 1 .. n, At(i) = At(j) PROVE i = j
    <2>1. i - 1 = j - 1
      BY <1>2, <1>7
    <2> QED
      BY <1>1, <1>7, <2>1
  <1>8. Once(Sorted(S))
    BY <1>3, <1>7 DEF Once
  <1> QED
    BY <1>4, <1>5, <1>6, <1>8

\* A set with members has a least and a largest one.
LEMMA Extremes ==
    ASSUME NEW S \in SUBSET Nat, IsFiniteSet(S), S # {}
    PROVE  /\ Max(S) \in S /\ \A u \in S : u <= Max(S)
           /\ \E u \in S : Rank(u, S) = 0 /\ \A v \in S : u <= v
  <1>1. Cardinality(S) \in Nat /\ Cardinality(S) # 0
    BY FS_CardinalityType, FS_EmptySet
  <1>2. PICK top \in S : Rank(top, S) = Cardinality(S) - 1
    BY <1>1, RanksAreIndices
  <1>3. PICK low \in S : Rank(low, S) = 0
    BY <1>1, RanksAreIndices
  <1>4. ASSUME NEW u \in S PROVE u <= top
    <2>1. ~(top < u)
      <3>1. Rank(u, S) \in 0 .. (Cardinality(S) - 1)
        BY RanksAreIndices
      <3> QED
        BY <1>1, <1>2, <3>1, RankGrows
    <2> QED
      BY <2>1
  <1>5. ASSUME NEW u \in S PROVE low <= u
    <2>1. ~(u < low)
      BY <1>3, RankGrows
    <2> QED
      BY <2>1
  <1>6. \E x \in S : \A y \in S : x >= y
    BY <1>4
  <1>7. Max(S) \in S /\ \A y \in S : Max(S) >= y
    BY <1>6 DEF Max
  <1> QED
    BY <1>3, <1>5, <1>7

\* A page of a query holds the first rows: it is closed downwards in the set,
\* and empty only if the set is.
LEMMA SmallestFacts ==
    ASSUME NEW S \in SUBSET Nat, IsFiniteSet(S), NEW n \in Nat \ {0}
    PROVE  /\ Smallest(n, S) \subseteq S
           /\ \A u \in Smallest(n, S), v \in S : v <= u => v \in Smallest(n, S)
           /\ S # {} => Smallest(n, S) # {}
  <1>1. ASSUME NEW u \in Smallest(n, S), NEW v \in S, v <= u
        PROVE  v \in Smallest(n, S)
    <2>1. u \in S /\ Rank(u, S) < n
      BY DEF Smallest, Rank
    <2>2. CASE v = u
      BY <2>2
    <2>3. CASE v < u
      <3>1. /\ Rank(v, S) \in Nat /\ Rank(u, S) \in Nat
            /\ Rank(v, S) + 1 <= Rank(u, S)
        BY <2>1, <2>3, RankGrows
      <3> QED
        BY <2>1, <3>1 DEF Smallest, Rank
    <2> QED
      BY <1>1, <2>1, <2>2, <2>3
  <1>2. ASSUME S # {} PROVE Smallest(n, S) # {}
    <2>1. PICK u \in S : Rank(u, S) = 0
      BY <1>2, Extremes
    <2> QED
      BY <2>1 DEF Smallest, Rank
  <1> QED
    BY <1>1, <1>2 DEF Smallest

\* The first row from the cursor on is the row of the cursor.
LEMMA FirstIsCursor ==
    ASSUME NEW M \in SUBSET Nat, IsFiniteSet(M), NEW c \in M
    PROVE  Smallest(1, {u \in M : u >= c}) = {c}
  <1> DEFINE S == {u \in M : u >= c}
  <1>1. S \in SUBSET M /\ S \in SUBSET Nat /\ IsFiniteSet(S) /\ c \in S
    <2>1. S \in SUBSET M /\ S \in SUBSET Nat
      OBVIOUS
    <2>2. IsFiniteSet(S)
      <3> HIDE DEF S
      <3> QED
        BY <2>1, FS_Subset
    <2>3. c \in Nat /\ c >= c
      OBVIOUS
    <2> QED
      BY <2>1, <2>2, <2>3
  <1>2. Before(c, S) = {}
    <2>1. \A u \in S : u \in Nat /\ c \in Nat /\ u >= c
      OBVIOUS
    <2>2. \A u \in S : ~(u < c)
      BY <2>1
    <2> QED
      BY <2>2 DEF Before
  <1>3. Rank(c, S) = 0
    BY <1>2, FS_EmptySet DEF Rank
  <1>4. ASSUME NEW u \in S, u # c PROVE Rank(u, S) \in Nat /\ 1 <= Rank(u, S)
    <2>1. c < u
      BY <1>4
    <2> HIDE DEF S
    <2> QED
      BY <1>1, <1>3, <2>1, RankGrows
  <1>5. \A u \in S : Rank(u, S) < 1 <=> u = c
    BY <1>3, <1>4
  <1> QED
    BY <1>1, <1>5 DEF Smallest, Rank

-----------------------------------------------------------------------------
(* The invariant.                                                          *)

SendRow ==
    [admin : Admins, kind : SendKinds,
     step : {"sent", "max", "rows", "back", "ok", "failed", "taken"},
     chosen : SUBSET Users, stayed : SUBSET Users, recipients : Seq(Users),
     cursor : Nat, done : Nat, maxId : Nat, count : Nat]

MessageRow == [from : Admins, to : Users, send : Nat]

DeskRow ==
    [selected : SUBSET Members, dialog : {"closed", "selected", "all"},
     sendingBulk : BOOLEAN, broadcasting : BOOLEAN]

CastShape ==
    /\ status \in [Users -> {"on", "off", "gone"}]
    /\ messages \in Seq(MessageRow)
    /\ sends \in Seq(SendRow)
    /\ desk \in [Admins -> DeskRow]

\* User u has a row of request s among these messages and bells.
Reached(msgs, rows, s, u) ==
    \/ \E id \in DOMAIN msgs : msgs[id].send = s /\ msgs[id].to = u
    \/ [to |-> u, send |-> s] \in rows

Others(r) == Users \ {r.admin}

\* The requests that write to everyone who stays: the recipients of a bulk
\* message are read in one query, and those of an announcement in pages, of
\* users none of whom is suspended.
Covered(r) == r.kind = "bulk" \/ "off" \notin Changes

\* The pages read so far hold every active user up to the cursor.
PagesRead(r, on) ==
    /\ r.cursor \in {0} \cup (Others(r) \cap ToSet(r.recipients))
    /\ Covered(r) =>
          \A u \in Others(r) \cap on : u <= r.cursor => u \in ToSet(r.recipients)

\* The positions of the list that have their row.
Upto(r) == IF r.step = "back" THEN r.done + Len(BatchOf(r)) ELSE r.done

\* One of those to come has left: if deleted, the announcement fails there.
Doomed(r, on) ==
    /\ r.kind # "bulk"
    /\ \E i \in 1 .. Len(r.recipients) : Upto(r) < i /\ r.recipients[i] \notin on

\* Who was asked for, and who of them is still active.
ChosenInv(r, on) ==
    /\ IF r.kind = "bulk" THEN r.chosen \subseteq Members ELSE r.chosen = Others(r)
    /\ r.stayed \subseteq r.chosen
    /\ r.step \notin {"ok", "failed", "taken"} => r.stayed \subseteq on

\* The list of recipients, while it is read and while it is worked off.
ListInv(r, on) ==
    /\ r.done <= Len(r.recipients)
    /\ r.step = "sent" => r.done = 0 /\ (r.kind # "bulk" => PagesRead(r, on))
    /\ r.step \in {"max", "rows", "back"} => r.done < Len(r.recipients)
    /\ r.step \in {"max", "rows", "back"} /\ Covered(r) =>
          r.stayed \subseteq ToSet(r.recipients) \/ Doomed(r, on)

\* Those before done have their row, and those of a batch inserted.
DeliveredInv(r, s, msgs, rows) ==
    /\ \A i \in 1 .. r.done : Reached(msgs, rows, s, r.recipients[i])
    /\ r.step = "back" =>
          \A i \in 1 .. Len(BatchOf(r)) : Reached(msgs, rows, s, BatchOf(r)[i])
    /\ r.step = "ok" /\ Covered(r) => \A u \in r.stayed : Reached(msgs, rows, s, u)

RequestInv(r, s, on, msgs, rows) ==
    ChosenInv(r, on) /\ ListInv(r, on) /\ DeliveredInv(r, s, msgs, rows)

CastInv ==
    /\ CastShape
    /\ "off" \notin Changes => \A u \in Users : status[u] # "off"
    /\ \A s \in SendIds : RequestInv(sends[s], s, Active, messages, bells)

-----------------------------------------------------------------------------
(* What the steps are made of.                                             *)

LEMMA UsersAre ==
    ASSUME SupportBroadcastConstants, NEW S \in SUBSET Users
    PROVE  S \in SUBSET Nat /\ IsFiniteSet(S) /\ 0 \notin S
  BY FS_Subset DEF SupportBroadcastConstants

\* A batch is the next stretch of the list, and not empty.
LEMMA BatchFacts ==
    ASSUME SupportBroadcastConstants, NEW r \in SendRow, r.done < Len(r.recipients)
    PROVE  LET b == BatchOf(r)
           IN  /\ b \in Seq(Users) /\ Len(b) \in Nat /\ DOMAIN b = 1 .. Len(b)
               /\ r.done + Len(b) <= Len(r.recipients)
               /\ \A i \in 1 .. Len(b) : b[i] = r.recipients[r.done + i]
  <1> DEFINE list == r.recipients
             d == r.done
             n == Len(list)
             hi == Min({d + BatchSize, n})
  <1>1. list \in Seq(Users) /\ d \in Nat /\ n \in Nat /\ d < n
    BY DEF SendRow
  <1>2. BatchSize \in Nat \ {0}
    BY DEF SupportBroadcastConstants
  <1>3. hi \in {d + BatchSize, n} /\ hi <= n /\ hi <= d + BatchSize
    <2> HIDE DEF d, n
    <2>1. \E x \in {d + BatchSize, n} : \A y \in {d + BatchSize, n} : x =< y
      <3>1. CASE n <= d + BatchSize
        BY <1>1, <1>2, <3>1
      <3>2. CASE d + BatchSize <= n
        BY <1>1, <1>2, <3>2
      <3> QED
        BY <1>1, <1>2, <3>1, <3>2
    <2> QED
      BY <2>1 DEF Min
  <1>4. \A i \in (d + 1) .. n : list[i] \in Users
    <2>1. \A i \in 1 .. n : list[i] \in Users
      BY <1>1
    <2> HIDE DEF list, n, d
    <2> QED
      BY <1>1, <2>1
  <1>5. BatchOf(r) = SubSeq(list, d + 1, hi)
    BY DEF BatchOf
  <1> HIDE DEF list, d, n, hi
  <1>6. hi \in Nat /\ d + 1 <= hi
    BY <1>1, <1>2, <1>3
  <1>7. /\ SubSeq(list, d + 1, hi) \in Seq(Users)
        /\ Len(SubSeq(list, d + 1, hi)) = hi - d
        /\ \A i \in 1 .. (hi - d) : SubSeq(list, d + 1, hi)[i] = list[d + i]
    <2>1. d + 1 \in Int /\ hi \in Int /\ \A i \in (d + 1) .. hi : list[i] \in Users
      BY <1>1, <1>3, <1>4, <1>6
    <2>2. /\ SubSeq(list, d + 1, hi) \in Seq(Users)
          /\ Len(SubSeq(list, d + 1, hi)) = IF d + 1 <= hi THEN hi - (d + 1) + 1 ELSE 0
          /\ \A i \in 1 .. (hi - (d + 1) + 1) :
                SubSeq(list, d + 1, hi)[i] = list[(d + 1) + i - 1]
      BY <2>1, SubSeqProperties
    <2>3. hi - (d + 1) + 1 = hi - d /\ \A i \in 1 .. (hi - d) : (d + 1) + i - 1 = d + i
      BY <1>1, <1>6
    <2>4. Len(SubSeq(list, d + 1, hi)) = hi - d
      BY <1>6, <2>2, <2>3
    <2>5. ASSUME NEW i, i \in 1 .. (hi - d) PROVE SubSeq(list, d + 1, hi)[i] = list[d + i]
      <3>1. SubSeq(list, d + 1, hi)[i] = list[(d + 1) + i - 1]
        BY <2>2, <2>3, <2>5
      <3> QED
        BY <2>3, <2>5, <3>1
    <2> QED
      BY <2>2, <2>4, <2>5
  <1> DEFINE b == BatchOf(r)
  <1>8. b \in Seq(Users) /\ Len(b) = hi - d /\ \A i \in 1 .. (hi - d) : b[i] = list[d + i]
    BY <1>5, <1>7
  <1>9. hi - d \in Nat /\ d + (hi - d) <= n
    BY <1>1, <1>3, <1>6
  <1>10. DOMAIN b = 1 .. Len(b)
    BY <1>8
  <1> HIDE DEF b
  <1>11. /\ b \in Seq(Users) /\ Len(b) \in Nat /\ DOMAIN b = 1 .. Len(b)
         /\ d + Len(b) <= n
         /\ \A i \in 1 .. Len(b) : b[i] = list[d + i]
    BY <1>8, <1>9, <1>10
  <1> QED
    BY <1>11 DEF b, list, d, n

\* Those before the end of the batch have their row once the batch has.
LEMMA BatchDone ==
    ASSUME SupportBroadcastConstants, NEW r \in SendRow, r.done < Len(r.recipients),
           NEW s, NEW msgs, NEW rows,
           \A i \in 1 .. r.done : Reached(msgs, rows, s, r.recipients[i]),
           \A i \in 1 .. Len(BatchOf(r)) : Reached(msgs, rows, s, BatchOf(r)[i])
    PROVE  /\ r.done + Len(BatchOf(r)) \in Nat
           /\ r.done + Len(BatchOf(r)) <= Len(r.recipients)
           /\ \A i \in 1 .. (r.done + Len(BatchOf(r))) : Reached(msgs, rows, s, r.recipients[i])
  <1> DEFINE d == r.done
             n == Len(BatchOf(r))
  <1>1. /\ n \in Nat /\ d + n <= Len(r.recipients)
        /\ \A i \in 1 .. n : BatchOf(r)[i] = r.recipients[d + i]
    BY BatchFacts
  <1>2. d \in Nat
    BY DEF SendRow
  <1>3. ASSUME NEW i, i \in 1 .. (d + n) PROVE Reached(msgs, rows, s, r.recipients[i])
    <2>1. CASE i \in 1 .. d
      BY <2>1
    <2>2. CASE i \notin 1 .. d
      <3> DEFINE j == i - d
      <3>1. j \in 1 .. n /\ d + j = i
        <4> HIDE DEF d, n
        <4> QED
          BY <1>1, <1>2, <1>3, <2>2
      <3>2. BatchOf(r)[j] = r.recipients[i]
        BY <1>1, <3>1
      <3> HIDE DEF j
      <3> QED
        BY <3>1, <3>2
    <2> QED
      BY <2>1, <2>2
  <1>4. d + n \in Nat
    <2> HIDE DEF d, n
    <2> QED
      BY <1>1, <1>2
  <1> QED
    BY <1>1, <1>3, <1>4

\* A page holds users the query asks for, beyond the cursor, whoever left.
LEMMA PageIsBeyond ==
    ASSUME SupportBroadcastConstants, NEW r \in SendRow, PagesRead(r, Active),
           NEW u \in NextPage(r)
    PROVE  u \in Others(r) /\ u \in Nat /\ r.cursor < u
  <1> DEFINE M == Active \ {r.admin}
             c == r.cursor
             S == {v \in M : v >= c}
  <1>1. M \in SUBSET Users /\ M \subseteq Others(r)
    BY DEF Active, Others
  <1>2. M \in SUBSET Nat /\ IsFiniteSet(M) /\ 0 \notin M
    BY <1>1, UsersAre
  <1>3. BatchSize \in Nat \ {0} /\ c \in Nat
    BY DEF SupportBroadcastConstants, SendRow
  <1>4. CASE c = 0
    <2>1. u \in M
      BY <1>4 DEF NextPage, Smallest
    <2>2. u \in Nat /\ u # 0
      BY <1>2, <2>1
    <2> QED
      BY <1>1, <1>4, <2>1, <2>2
  <1>5. CASE c # 0
    <2>1. u \in S \ Smallest(1, S)
      BY <1>5 DEF NextPage, Smallest
    <2>2. u \in Nat /\ u \in M /\ u >= c
      BY <1>2, <2>1
    <2>3. u # c
      <3> SUFFICES ASSUME u = c PROVE FALSE
        OBVIOUS
      <3>1. Smallest(1, S) = {c}
        <4> HIDE DEF M, c
        <4> QED
          BY <1>2, <2>2, FirstIsCursor
      <3> QED
        BY <2>1, <3>1
    <2>4. c < u
      <3> HIDE DEF c
      <3> QED
        BY <1>3, <2>2, <2>3
    <2> QED
      BY <1>1, <2>2, <2>4
  <1> QED
    BY <1>4, <1>5

\* While none is suspended, an empty page comes when the list has all who are
\* active or the user of the cursor is no more, and after another the list has
\* all who are active up to its last.
LEMMA PageFacts ==
    ASSUME SupportBroadcastConstants, NEW r \in SendRow, PagesRead(r, Active), Covered(r),
           \A u \in Users : status[u] # "off", status \in [Users -> {"on", "off", "gone"}]
    PROVE  LET page == NextPage(r)
           IN  /\ page = {} => \/ Others(r) \cap Active \subseteq ToSet(r.recipients)
                              \/ r.cursor \in ToSet(r.recipients) \ Active
               /\ page # {} =>
                     \A u \in Others(r) \cap Active :
                        u <= Max(page) => u \in ToSet(r.recipients) \cup page
  <1> DEFINE M == Others(r) \cap Active
             c == r.cursor
             page == NextPage(r)
  <1>1. M \in SUBSET Users /\ M \in SUBSET Nat /\ IsFiniteSet(M) /\ 0 \notin M
    <2>1. M \in SUBSET Users
      BY DEF Others
    <2> QED
      BY <2>1, UsersAre
  <1>2. BatchSize \in Nat \ {0}
    BY DEF SupportBroadcastConstants
  <1>3. Active \ {r.admin} = M
    BY DEF Others, Active
  <1>4. /\ c \in Nat /\ c \in {0} \cup (Others(r) \cap ToSet(r.recipients))
        /\ \A u \in M : u <= c => u \in ToSet(r.recipients)
    BY DEF PagesRead, SendRow
  <1>0. CASE c # 0 /\ c \notin Active
    <2>1. c \in Users /\ c \in ToSet(r.recipients)
      BY <1>4, <1>0 DEF Others
    <2>2. status[c] = "gone"
      BY <1>0, <2>1 DEF Active
    <2>3. page = {}
      BY <1>0, <2>2 DEF NextPage
    <2> QED
      BY <1>0, <2>1, <2>3
  <1>10. CASE c = 0 \/ c \in M
    <2>0. PICK T \in SUBSET M :
             /\ page = Smallest(BatchSize, T)
             /\ \A u \in M \ T : u \in ToSet(r.recipients)
      <3>1. CASE c = 0
        <4>1. page = Smallest(BatchSize, M)
          BY <1>3, <3>1 DEF NextPage
        <4> QED
          BY <4>1
      <3>2. CASE c # 0
        <4> DEFINE S == {u \in M : u >= c}
                   T == S \ {c}
        <4>1. c \in M
          BY <1>10, <3>2
        <4>2. status[c] # "gone"
          BY <4>1 DEF Active
        <4>3. page = Smallest(BatchSize, S \ Smallest(1, S))
          BY <1>3, <3>2, <4>2 DEF NextPage
        <4>4. Smallest(1, S) = {c}
          <5> HIDE DEF M, c
          <5> QED
            BY <1>1, <4>1, FirstIsCursor
        <4>5. ASSUME NEW u \in M \ T PROVE u \in ToSet(r.recipients)
          <5>1. u <= c
            <6>1. u \in Nat /\ c \in Nat
              BY <1>1, <1>4
            <6>2. ~(u >= c) \/ u = c
              OBVIOUS
            <6> HIDE DEF c
            <6> QED
              BY <6>1, <6>2
          <5> QED
            BY <1>4, <5>1
        <4> QED
          BY <4>3, <4>4, <4>5
      <3> QED
        BY <3>1, <3>2
    <2>6. T \in SUBSET Nat /\ IsFiniteSet(T)
      BY <1>1, FS_Subset
    <2>7. /\ page \subseteq T
          /\ \A u \in page, v \in T : v <= u => v \in page
          /\ T # {} => page # {}
      BY <1>2, <2>0, <2>6, SmallestFacts
    <2> HIDE DEF page, M
    <2>8. ASSUME page # {}
          PROVE  \A u \in M : u <= Max(page) => u \in ToSet(r.recipients) \cup page
      <3>1. page \in SUBSET Nat /\ IsFiniteSet(page)
        BY <2>6, <2>7, FS_Subset
      <3>2. Max(page) \in page
        BY <2>8, <3>1, Extremes
      <3> QED
        BY <2>0, <2>7, <3>2
    <2>9. page = {} => M \subseteq ToSet(r.recipients)
      BY <2>0, <2>7
    <2> QED
      BY <2>8, <2>9 DEF page, M
  <1>11. \/ c # 0 /\ c \notin Active
         \/ c = 0 \/ c \in M
    BY <1>4
  <1> QED
    BY <1>0, <1>10, <1>11

\* The list after a page.
LEMMA ListGrows ==
    ASSUME NEW list \in Seq(Users), NEW more \in Seq(Users)
    PROVE  list \o more \in Seq(Users) /\ ToSet(list \o more) = ToSet(list) \cup ToSet(more)
  <1> DEFINE m == Len(list)
             n == Len(more)
             both == list \o more
  <1>1. m \in Nat /\ n \in Nat /\ DOMAIN list = 1 .. m /\ DOMAIN more = 1 .. n
    OBVIOUS
  <1>2. /\ both \in Seq(Users) /\ Len(both) = m + n
        /\ \A i \in 1 .. (m + n) : both[i] = IF i <= m THEN list[i] ELSE more[i - m]
    BY ConcatProperties
  <1>3. DOMAIN both = 1 .. (m + n)
    BY <1>2
  <1> HIDE DEF m, n, both
  <1>4. ASSUME NEW i, i \in 1 .. m PROVE i \in DOMAIN both /\ both[i] = list[i]
    BY <1>1, <1>2, <1>3, <1>4
  <1>5. ASSUME NEW i, i \in 1 .. n PROVE m + i \in DOMAIN both /\ both[m + i] = more[i]
    <2> DEFINE k == m + i
    <2>1. k \in 1 .. (m + n) /\ ~(k <= m) /\ k - m = i
      BY <1>1, <1>5
    <2> HIDE DEF k
    <2>2. both[k] = more[k - m]
      BY <1>2, <2>1
    <2>3. k \in DOMAIN both /\ both[k] = more[i]
      BY <1>3, <2>1, <2>2
    <2> QED
      BY <2>3 DEF k
  <1>6. ASSUME NEW i, i \in DOMAIN both PROVE both[i] \in ToSet(list) \cup ToSet(more)
    <2>1. CASE i <= m
      <3>1. i \in 1 .. m /\ both[i] = list[i]
        BY <1>1, <1>2, <1>3, <1>6, <2>1
      <3> QED
        BY <1>1, <3>1 DEF ToSet
    <2>2. CASE ~(i <= m)
      <3>1. i - m \in 1 .. n /\ both[i] = more[i - m]
        BY <1>1, <1>2, <1>3, <1>6, <2>2
      <3> QED
        BY <1>1, <3>1 DEF ToSet
    <2> QED
      BY <2>1, <2>2
  <1>7. ToSet(both) \subseteq ToSet(list) \cup ToSet(more)
    BY <1>6 DEF ToSet
  <1>8. ToSet(list) \subseteq ToSet(both)
    BY <1>1, <1>4 DEF ToSet
  <1>9. ToSet(more) \subseteq ToSet(both)
    BY <1>1, <1>5 DEF ToSet
  <1> QED
    BY <1>2, <1>7, <1>8, <1>9 DEF both

-----------------------------------------------------------------------------
(* Steps.                                                                  *)

\* What was reached stays reached: no row goes.
LEMMA MoreReached ==
    ASSUME NEW s, NEW u, NEW msgs \in Seq(MessageRow), NEW more \in Seq(MessageRow),
           NEW rows, NEW others
    PROVE  Reached(msgs, rows, s, u) => Reached(msgs \o more, rows \cup others, s, u)
  <1> SUFFICES ASSUME Reached(msgs, rows, s, u)
               PROVE  Reached(msgs \o more, rows \cup others, s, u)
    OBVIOUS
  <1>1. CASE [to |-> u, send |-> s] \in rows
    BY <1>1 DEF Reached
  <1>2. CASE \E id \in DOMAIN msgs : msgs[id].send = s /\ msgs[id].to = u
    <2>1. PICK id \in DOMAIN msgs : msgs[id].send = s /\ msgs[id].to = u
      BY <1>2
    <2>2. id \in DOMAIN (msgs \o more) /\ (msgs \o more)[id] = msgs[id]
      BY ConcatProperties, LenProperties
    <2> QED
      BY <2>1, <2>2 DEF Reached
  <1> QED
    BY <1>1, <1>2 DEF Reached

\* A step of one request keeps the invariant if its row does.
LEMMA OneRequest ==
    ASSUME CastInv, NEW s \in SendIds, NEW r \in SendRow,
           sends' = [sends EXCEPT ![s] = r], status' = status,
           desk' \in [Admins -> DeskRow], messages' \in Seq(MessageRow),
           \A t, u : Reached(messages, bells, t, u) => Reached(messages', bells', t, u),
           RequestInv(r, s, Active, messages', bells')
    PROVE  CastInv'
  <1>1. sends' \in Seq(SendRow) /\ Len(sends') = Len(sends) /\ sends'[s] = r
        /\ \A t \in SendIds \ {s} : sends'[t] = sends[t]
    BY ExceptSeq DEF CastInv, CastShape, SendIds
  <1>2. SendIds' = SendIds /\ Active' = Active
    BY <1>1 DEF SendIds, Active
  <1>3. ASSUME NEW t \in SendIds, t # s
        PROVE  RequestInv(sends[t], t, Active, messages', bells')
    <2>1. RequestInv(sends[t], t, Active, messages, bells)
      BY DEF CastInv
    <2>2. ChosenInv(sends[t], Active) /\ ListInv(sends[t], Active)
          /\ DeliveredInv(sends[t], t, messages, bells)
      BY <2>1 DEF RequestInv
    <2>3. DeliveredInv(sends[t], t, messages', bells')
      <3> HIDE DEF CastInv
      <3> QED
        BY <2>2 DEF DeliveredInv
    <2> QED
      BY <2>2, <2>3 DEF RequestInv
  <1>4. \A t \in SendIds : RequestInv(sends'[t], t, Active, messages', bells')
    BY <1>1, <1>3
  <1> QED
    BY <1>1, <1>2, <1>4 DEF CastInv, CastShape

\* Nothing is delivered by a step of a request that creates no row.
LEMMA RequestMoves ==
    ASSUME CastInv, NEW s \in SendIds, NEW r \in SendRow,
           sends' = [sends EXCEPT ![s] = r], status' = status,
           desk' \in [Admins -> DeskRow], UNCHANGED <<messages, bells>>,
           RequestInv(r, s, Active, messages, bells)
    PROVE  CastInv'
  <1>1. messages' \in Seq(MessageRow)
    BY DEF CastInv, CastShape
  <1> QED
    BY <1>1, OneRequest

LEMMA RequestIs ==
    ASSUME CastInv, NEW s \in SendIds
    PROVE  /\ sends[s] \in SendRow
           /\ RequestInv(sends[s], s, Active, messages, bells)
           /\ s \in Nat \ {0}
  BY DEF CastInv, CastShape, SendIds

\* The recipients of a bulk message: everyone chosen who has stayed is found.
LEMMA ReadRecipientsKeeps ==
    ASSUME SupportBroadcastConstants, CastInv, NEW s \in SendIds, ReadRecipients(s)
    PROVE  CastInv'
  <1> DEFINE r == sends[s]
             U == BulkRecipients(r)
             found == Sorted(U)
             q == [r EXCEPT !.recipients = found,
                            !.step = IF found = <<>> THEN "ok" ELSE "max"]
  <1>1. r \in SendRow /\ RequestInv(r, s, Active, messages, bells)
    BY RequestIs
  <1>2. /\ r.step = "sent" /\ r.kind = "bulk" /\ sends' = [sends EXCEPT ![s] = q]
        /\ status' = status /\ desk' = desk /\ UNCHANGED <<messages, bells>>
    BY DEF ReadRecipients, InStep, Proceed
  <1>3. U \in SUBSET Users /\ r.stayed \subseteq U
    BY <1>1, <1>2 DEF RequestInv, ChosenInv, BulkRecipients, SendRow, Members
  <1>4. found \in Seq(Users) /\ ToSet(found) = U
    <2>1. U \in SUBSET Nat /\ IsFiniteSet(U)
      BY <1>3, UsersAre
    <2>2. found \in Seq(U) /\ ToSet(found) = U
      <3> HIDE DEF U
      <3> QED
        BY <2>1, SortedFacts
    <2> QED
      BY <1>3, <2>2, SeqMonotonic
  <1>5. r.done = 0
    BY <1>1, <1>2 DEF RequestInv, ListInv
  <1> HIDE DEF found, U
  <1>6. /\ q \in SendRow /\ q.kind = r.kind /\ q.chosen = r.chosen /\ q.admin = r.admin
        /\ q.stayed = r.stayed /\ q.done = 0 /\ q.recipients = found
        /\ q.step = IF found = <<>> THEN "ok" ELSE "max"
    BY <1>1, <1>4, <1>5 DEF SendRow
  <1> HIDE DEF q
  <1>7. ChosenInv(q, Active)
    BY <1>1, <1>2, <1>6 DEF RequestInv, ChosenInv, Others
  <1>8. CASE found = <<>>
    <2>1. r.stayed = {}
      BY <1>3, <1>4, <1>8 DEF ToSet
    <2>2. q.step = "ok" /\ Len(q.recipients) = 0
      BY <1>6, <1>8
    <2>3. ListInv(q, Active)
      BY <1>6, <2>2 DEF ListInv
    <2>4. DeliveredInv(q, s, messages, bells)
      BY <1>6, <2>1, <2>2 DEF DeliveredInv
    <2> QED
      BY <1>2, <1>6, <1>7, <2>3, <2>4, RequestMoves DEF RequestInv, CastInv, CastShape
  <1>9. CASE found # <<>>
    <2>1. Len(found) \in Nat /\ 0 < Len(found)
      BY <1>4, <1>9, EmptySeq
    <2>2. ListInv(q, Active) /\ DeliveredInv(q, s, messages, bells)
      BY <1>3, <1>4, <1>6, <1>9, <2>1 DEF ListInv, DeliveredInv
    <2> QED
      BY <1>2, <1>6, <1>7, <2>2, RequestMoves DEF RequestInv, CastInv, CastShape
  <1> QED
    BY <1>8, <1>9

\* A page of an announcement.
LEMMA ReadPageKeeps ==
    ASSUME SupportBroadcastConstants, CastInv, NEW s \in SendIds, ReadPage(s)
    PROVE  CastInv'
  <1> DEFINE r == sends[s]
             page == NextPage(r)
             next == IF r.recipients = <<>> THEN "ok"
                     ELSE IF r.kind = "inbox" THEN "max" ELSE "rows"
             end == [r EXCEPT !.step = next]
             on == [r EXCEPT !.cursor = Max(page), !.recipients = @ \o Sorted(page)]
  <1>1. r \in SendRow /\ RequestInv(r, s, Active, messages, bells)
    BY RequestIs
  <1>2. /\ r.step = "sent" /\ r.kind # "bulk"
        /\ sends' = [sends EXCEPT ![s] = IF page = {} THEN end ELSE on]
        /\ status' = status /\ desk' = desk /\ UNCHANGED <<messages, bells>>
    BY DEF ReadPage, InStep, Proceed
  <1>3. Covered(r) => \A u \in Users : status[u] # "off"
    BY <1>2 DEF Covered, CastInv
  <1>4. /\ r.chosen = Others(r) /\ r.stayed \subseteq Others(r) /\ r.stayed \subseteq Active
        /\ r.done = 0 /\ PagesRead(r, Active)
    BY <1>1, <1>2 DEF RequestInv, ChosenInv, ListInv
  <1>5. /\ page \in SUBSET Others(r)
        /\ page # {} => Max(page) \in Others(r)
    <2>1. page \in SUBSET Others(r)
      BY <1>1, <1>4, PageIsBeyond
    <2>2. page \in SUBSET Nat /\ IsFiniteSet(page)
      BY <2>1, UsersAre DEF Others
    <2> HIDE DEF page
    <2> QED
      BY <2>1, <2>2, Extremes
  <1>9. ASSUME Covered(r)
        PROVE  /\ page = {} => \/ Others(r) \cap Active \subseteq ToSet(r.recipients)
                              \/ r.cursor \in ToSet(r.recipients) \ Active
               /\ page # {} =>
                     \A u \in Others(r) \cap Active :
                        u <= Max(page) => u \in ToSet(r.recipients) \cup page
    BY <1>1, <1>3, <1>4, <1>9, PageFacts DEF CastInv, CastShape
  <1>6. desk' \in [Admins -> DeskRow]
    BY <1>2 DEF CastInv, CastShape
  <1> HIDE DEF page
  <1>7. CASE page = {}
    <2>1. /\ end \in SendRow /\ end.kind = r.kind /\ end.chosen = r.chosen
          /\ end.admin = r.admin /\ end.stayed = r.stayed /\ end.done = 0
          /\ end.recipients = r.recipients /\ end.step = next
      BY <1>1, <1>4 DEF SendRow
    <2> HIDE DEF end
    <2>2. ChosenInv(end, Active)
      BY <1>2, <1>4, <2>1 DEF ChosenInv, Others
    <2>3. Covered(r) => \/ r.stayed \subseteq ToSet(r.recipients)
                        \/ \E u \in ToSet(r.recipients) : u \notin Active
      BY <1>4, <1>9, <1>7
    <2>8. Covered(end) <=> Covered(r)
      BY <2>1 DEF Covered
    <2>4. r.recipients \in Seq(Users)
      BY <1>1 DEF SendRow
    <2>9. ASSUME end.step # "back", NEW u \in ToSet(r.recipients), u \notin Active
          PROVE  Doomed(end, Active)
      <3>1. PICK i \in DOMAIN r.recipients : r.recipients[i] = u
        BY DEF ToSet
      <3>2. i \in 1 .. Len(r.recipients) /\ 0 < i
        BY <2>4, <3>1, LenProperties
      <3>3. Upto(end) = 0
        BY <2>1, <2>9 DEF Upto
      <3> QED
        BY <1>2, <2>1, <2>9, <3>1, <3>2, <3>3 DEF Doomed
    <2>5. ListInv(end, Active) /\ DeliveredInv(end, s, messages, bells)
      <3>1. CASE r.recipients = <<>>
        <4>1. end.step = "ok" /\ Len(end.recipients) = 0
          BY <2>1, <3>1
        <4>2. Covered(end) => end.stayed = {}
          BY <2>1, <2>3, <2>8, <3>1 DEF ToSet
        <4> QED
          BY <2>1, <4>1, <4>2 DEF ListInv, DeliveredInv
      <3>2. CASE r.recipients # <<>>
        <4>1. Len(r.recipients) \in Nat /\ 0 < Len(r.recipients)
          BY <2>4, <3>2, EmptySeq
        <4>2. end.step \in {"max", "rows"}
          BY <2>1, <3>2
        <4>3. Covered(end) =>
                 end.stayed \subseteq ToSet(end.recipients) \/ Doomed(end, Active)
          BY <2>1, <2>3, <2>8, <2>9, <4>2
        <4> QED
          BY <2>1, <4>1, <4>2, <4>3 DEF ListInv, DeliveredInv
      <3> QED
        BY <3>1, <3>2
    <2>6. sends' = [sends EXCEPT ![s] = end] /\ UNCHANGED <<messages, bells>>
      BY <1>2, <1>7 DEF end
    <2>7. RequestInv(end, s, Active, messages, bells)
      BY <2>2, <2>5 DEF RequestInv
    <2> QED
      BY <1>2, <1>6, <2>1, <2>6, <2>7, RequestMoves
  <1>8. CASE page # {}
    <2>1. page \in SUBSET Users /\ r.recipients \in Seq(Users)
      BY <1>1, <1>5 DEF SendRow, Others
    <2>2. Sorted(page) \in Seq(Users) /\ ToSet(Sorted(page)) = page
      <3>1. page \in SUBSET Nat /\ IsFiniteSet(page)
        BY <2>1, UsersAre
      <3>2. Sorted(page) \in Seq(page) /\ ToSet(Sorted(page)) = page
        BY <3>1, SortedFacts
      <3> QED
        BY <2>1, <3>2, SeqMonotonic
    <2> DEFINE longer == r.recipients \o Sorted(page)
    <2>3. longer \in Seq(Users) /\ ToSet(longer) = ToSet(r.recipients) \cup page
      BY <2>1, <2>2, ListGrows
    <2>4. Max(page) \in Others(r) /\ Max(page) \in Nat
      <3>1. Max(page) \in Others(r)
        BY <1>5, <1>8
      <3> QED
        BY <3>1 DEF Others, SupportBroadcastConstants
    <2>5. Covered(r) => \A u \in Others(r) \cap Active : u <= Max(page) => u \in ToSet(longer)
      BY <1>8, <1>9, <2>3
    <2>6. sends' = [sends EXCEPT ![s] = on]
      BY <1>2, <1>8
    <2> HIDE DEF longer
    <2>7. /\ on \in SendRow /\ on.kind = r.kind /\ on.chosen = r.chosen
          /\ on.admin = r.admin /\ on.stayed = r.stayed /\ on.done = 0
          /\ on.recipients = longer /\ on.step = "sent" /\ on.cursor = Max(page)
      BY <1>1, <1>2, <1>4, <2>3, <2>4 DEF SendRow, longer
    <2> HIDE DEF on
    <2>8. ChosenInv(on, Active)
      BY <1>2, <1>4, <2>7 DEF ChosenInv, Others
    <2>9. PagesRead(on, Active)
      <3>1. Max(page) \in ToSet(longer)
        <4>1. page \in SUBSET Nat /\ IsFiniteSet(page)
          BY <2>1, UsersAre
        <4>2. Max(page) \in page
          BY <1>8, <4>1, Extremes
        <4> QED
          BY <2>3, <4>2
      <3>2. Others(on) = Others(r) /\ (Covered(on) <=> Covered(r))
        BY <2>7 DEF Others, Covered
      <3> HIDE DEF page
      <3> QED
        BY <2>4, <2>5, <2>7, <3>1, <3>2 DEF PagesRead
    <2>10. ListInv(on, Active) /\ DeliveredInv(on, s, messages, bells)
      <3>1. Len(longer) \in Nat
        BY <2>3
      <3> QED
        BY <2>7, <2>9, <3>1 DEF ListInv, DeliveredInv
    <2>11. RequestInv(on, s, Active, messages, bells)
      BY <2>8, <2>10 DEF RequestInv
    <2> QED
      BY <1>2, <1>6, <2>6, <2>7, <2>11, RequestMoves
  <1> QED
    BY <1>7, <1>8

\* The batch before the insertion.
LEMMA ReadMaxIdKeeps ==
    ASSUME SupportBroadcastConstants, CastInv, NEW s \in SendIds, ReadMaxId(s)
    PROVE  CastInv'
  <1> DEFINE r == sends[s]
             q == [r EXCEPT !.maxId = Len(messages), !.step = "rows"]
  <1>1. r \in SendRow /\ RequestInv(r, s, Active, messages, bells)
    BY RequestIs
  <1>2. /\ r.step = "max" /\ sends' = [sends EXCEPT ![s] = q]
        /\ status' = status /\ desk' = desk /\ UNCHANGED <<messages, bells>>
    BY DEF ReadMaxId, InStep, Proceed
  <1>3. Len(messages) \in Nat /\ desk' \in [Admins -> DeskRow]
    BY <1>2, LenProperties DEF CastInv, CastShape
  <1>4. /\ q \in SendRow /\ q.kind = r.kind /\ q.chosen = r.chosen /\ q.admin = r.admin
        /\ q.stayed = r.stayed /\ q.done = r.done /\ q.recipients = r.recipients
        /\ q.step = "rows"
    BY <1>1, <1>3 DEF SendRow
  <1> HIDE DEF q
  <1>5. ChosenInv(q, Active) /\ ListInv(q, Active)
    BY <1>1, <1>2, <1>4 DEF RequestInv, ChosenInv, ListInv, Others, Covered, Doomed, Upto
  <1>6. DeliveredInv(q, s, messages, bells)
    BY <1>1, <1>4 DEF RequestInv, DeliveredInv, Covered
  <1> QED
    BY <1>2, <1>3, <1>4, <1>5, <1>6, RequestMoves DEF RequestInv

\* A batch that could be inserted is of users who are still there.
LEMMA BatchIsOn ==
    ASSUME SupportBroadcastConstants, CastInv, NEW r \in SendRow, r.done < Len(r.recipients),
           HasRows(BatchOf(r)), "off" \notin Changes
    PROVE  \A i \in 1 .. Len(BatchOf(r)) : BatchOf(r)[i] \in Active
  <1> DEFINE b == BatchOf(r)
  <1>1. b \in Seq(Users) /\ DOMAIN b = 1 .. Len(b)
    BY BatchFacts
  <1>2. ASSUME NEW i, i \in 1 .. Len(b) PROVE b[i] \in Active
    <2> DEFINE u == b[i]
    <2>1. u \in Users /\ u \in ToSet(b)
      BY <1>1, <1>2 DEF ToSet
    <2>2. status[u] # "gone"
      BY <2>1 DEF HasRows
    <2> HIDE DEF u
    <2>3. status[u] = "on"
      BY <2>1, <2>2 DEF CastInv, CastShape
    <2> QED
      BY <2>1, <2>3 DEF Active, u
  <1> QED
    BY <1>2

\* A user who has left and has no row is beyond a batch of users who have not.
LEMMA StillDoomed ==
    ASSUME SupportBroadcastConstants, NEW r \in SendRow, r.done < Len(r.recipients), NEW on,
           Doomed(r, on),
           r.step = "back" \/ \A i \in 1 .. Len(BatchOf(r)) : BatchOf(r)[i] \in on
    PROVE  \E i \in 1 .. Len(r.recipients) :
              r.done + Len(BatchOf(r)) < i /\ r.recipients[i] \notin on
  <1> DEFINE d == r.done
             n == Len(BatchOf(r))
  <1>1. /\ n \in Nat /\ d \in Nat
        /\ \A i \in 1 .. n : BatchOf(r)[i] = r.recipients[d + i]
    BY BatchFacts DEF SendRow
  <1>2. PICK i \in 1 .. Len(r.recipients) : Upto(r) < i /\ r.recipients[i] \notin on
    BY DEF Doomed
  <1>3. CASE r.step = "back"
    BY <1>2, <1>3 DEF Upto
  <1>4. CASE r.step # "back"
    <2>1. d < i
      BY <1>2, <1>4 DEF Upto
    <2>2. d + n < i
      <3> SUFFICES ASSUME ~(d + n < i) PROVE FALSE
        OBVIOUS
      <3> DEFINE j == i - d
      <3>1. j \in 1 .. n /\ d + j = i
        <4> HIDE DEF d, n
        <4> QED
          BY <1>1, <2>1
      <3>2. BatchOf(r)[j] = r.recipients[i] /\ BatchOf(r)[j] \in on
        BY <1>1, <1>4, <3>1
      <3> QED
        BY <1>2, <3>2
    <2> QED
      BY <1>2, <2>2
  <1> QED
    BY <1>3, <1>4

\* The row of a request after a batch: the next batch, or the answer.
LEMMA AfterBatch ==
    ASSUME SupportBroadcastConstants, NEW r \in SendRow, NEW q \in SendRow, NEW s,
           NEW msgs, NEW rows, NEW on, r.step \in {"rows", "back"}, ListInv(r, on),
           \A i \in 1 .. r.done : Reached(msgs, rows, s, r.recipients[i]),
           \A i \in 1 .. Len(BatchOf(r)) : Reached(msgs, rows, s, BatchOf(r)[i]),
           \/ r.step = "back"
           \/ "off" \in Changes
           \/ \A i \in 1 .. Len(BatchOf(r)) : BatchOf(r)[i] \in on,
           q.kind = r.kind, q.recipients = r.recipients, q.stayed = r.stayed,
           q.done = r.done + Len(BatchOf(r)),
           q.step \in {"ok", "max", "rows"},
           q.step = "ok" <=> q.done = Len(r.recipients)
    PROVE  ListInv(q, on) /\ DeliveredInv(q, s, msgs, rows)
  <1>1. /\ r.done < Len(r.recipients)
        /\ Covered(r) => r.stayed \subseteq ToSet(r.recipients) \/ Doomed(r, on)
        /\ Covered(q) <=> Covered(r)
    BY DEF ListInv, Covered
  <1>2. /\ q.done \in Nat /\ q.done <= Len(r.recipients)
        /\ \A i \in 1 .. q.done : Reached(msgs, rows, s, r.recipients[i])
    BY <1>1, BatchDone
  <1>3. Len(r.recipients) \in Nat /\ DOMAIN r.recipients = 1 .. Len(r.recipients)
    BY LenProperties DEF SendRow
  <1>6. ASSUME Covered(r), Doomed(r, on)
        PROVE  \E i \in 1 .. Len(r.recipients) : q.done < i /\ r.recipients[i] \notin on
    <2>1. r.step = "back" \/ \A i \in 1 .. Len(BatchOf(r)) : BatchOf(r)[i] \in on
      BY <1>6 DEF Doomed, Covered
    <2> QED
      BY <1>1, <1>6, <2>1, StillDoomed
  <1>7. ASSUME Covered(r), Doomed(r, on) PROVE Doomed(q, on) /\ q.step # "ok"
    <2>1. PICK i \in 1 .. Len(r.recipients) : q.done < i /\ r.recipients[i] \notin on
      BY <1>6, <1>7
    <2>2. Upto(q) = q.done
      BY DEF Upto
    <2>3. q.step # "ok"
      BY <1>2, <1>3, <2>1
    <2> QED
      BY <1>7, <2>1, <2>2, <2>3 DEF Doomed
  <1>4. ListInv(q, on)
    <2>1. Covered(q) => q.stayed \subseteq ToSet(q.recipients) \/ Doomed(q, on)
      BY <1>1, <1>7
    <2> QED
      BY <1>1, <1>2, <1>3, <2>1 DEF ListInv
  <1>5. ASSUME q.step = "ok", Covered(q), NEW u \in r.stayed
        PROVE  Reached(msgs, rows, s, u)
    <2>1. PICK i \in DOMAIN r.recipients : r.recipients[i] = u
      BY <1>1, <1>5, <1>7 DEF ToSet
    <2> QED
      BY <1>2, <1>3, <1>5, <2>1
  <1> QED
    BY <1>2, <1>4, <1>5 DEF DeliveredInv

\* The rows of a batch are inserted, or the request has failed.
LEMMA CreateMessagesKeeps ==
    ASSUME SupportBroadcastConstants, CastInv, NEW s \in SendIds, CreateMessages(s)
    PROVE  CastInv'
  <1> DEFINE r == sends[s]
             b == BatchOf(r)
             rows == [i \in DOMAIN b |-> [from |-> r.admin, to |-> b[i], send |-> s]]
             back == [r EXCEPT !.step = "back"]
             lost == [r EXCEPT !.step = "failed"]
  <1>1. r \in SendRow /\ RequestInv(r, s, Active, messages, bells) /\ s \in Nat
    BY RequestIs
  <1>2. /\ r.step = "rows" /\ status' = status /\ desk' = desk /\ bells' = bells
        /\ \/ /\ messages' = messages \o rows /\ sends' = [sends EXCEPT ![s] = back]
              /\ HasRows(b)
           \/ messages' = messages /\ sends' = [sends EXCEPT ![s] = lost]
    BY DEF CreateMessages, InStep, Proceed
  <1>3. messages \in Seq(MessageRow) /\ desk' \in [Admins -> DeskRow]
    BY <1>2 DEF CastInv, CastShape
  <1>4. r.done < Len(r.recipients)
    BY <1>1, <1>2 DEF RequestInv, ListInv
  <1>5. b \in Seq(Users) /\ Len(b) \in Nat /\ DOMAIN b = 1 .. Len(b)
    BY <1>1, <1>4, BatchFacts
  <1>6. CASE /\ messages' = messages \o rows /\ sends' = [sends EXCEPT ![s] = back]
             /\ HasRows(b)
    <2> DEFINE n == Len(b)
    <2>1. /\ back \in SendRow /\ back.kind = r.kind /\ back.chosen = r.chosen
          /\ back.admin = r.admin /\ back.stayed = r.stayed /\ back.done = r.done
          /\ back.recipients = r.recipients /\ back.step = "back"
      BY <1>1 DEF SendRow
    <2>2. BatchOf(back) = b
      BY <2>1 DEF BatchOf
    <2>3. \A i \in 1 .. n : [from |-> r.admin, to |-> b[i], send |-> s] \in MessageRow
      <3>1. r.admin \in Admins /\ \A i \in 1 .. n : b[i] \in Users
        BY <1>1, <1>5 DEF SendRow
      <3> QED
        BY <1>1, <3>1 DEF MessageRow
    <2>4. /\ rows \in Seq(MessageRow) /\ Len(rows) = n
          /\ \A i \in 1 .. n : rows[i].to = b[i] /\ rows[i].send = s
      <3> DEFINE Row(i) == [from |-> r.admin, to |-> b[i], send |-> s]
      <3>1. rows = [i \in 1 .. n |-> Row(i)]
        BY <1>5
      <3>2. \A i \in 1 .. n : Row(i).to = b[i] /\ Row(i).send = s
        OBVIOUS
      <3>3. \A i \in 1 .. n : Row(i) \in MessageRow
        BY <2>3
      <3> HIDE DEF rows, b, r, Row, n
      <3>4. n \in Nat
        BY <1>5 DEF n
      <3>5. rows \in Seq(MessageRow) /\ Len(rows) = n
        BY <3>1, <3>3, <3>4
      <3> QED
        BY <3>1, <3>2, <3>5
    <2> DEFINE all == messages \o rows
    <2> HIDE DEF rows, b, r, back, n
    <2>5. /\ all \in Seq(MessageRow) /\ Len(all) = Len(messages) + n
          /\ \A i \in 1 .. (Len(messages) + n) :
                all[i] = IF i <= Len(messages) THEN messages[i] ELSE rows[i - Len(messages)]
      BY <1>3, <2>4, ConcatProperties
    <2>6. ASSUME NEW i, i \in 1 .. n PROVE Reached(all, bells, s, b[i])
      <3> DEFINE m == Len(messages)
                 k == m + i
      <3>1. m \in Nat /\ n \in Nat
        BY <1>3, <1>5 DEF n
      <3> HIDE DEF m, all
      <3>2. k \in 1 .. (m + n) /\ ~(k <= m) /\ k - m = i
        BY <2>6, <3>1
      <3> HIDE DEF k
      <3>3. all[k] = rows[k - m]
        BY <2>5, <3>2 DEF m
      <3>4. all[k] = rows[i]
        BY <3>2, <3>3
      <3>5. k \in DOMAIN all
        BY <2>5, <3>2 DEF m
      <3> QED
        BY <2>4, <2>6, <3>4, <3>5 DEF Reached
    <2>7. \A t, u : Reached(messages, bells, t, u) => Reached(all, bells, t, u)
      <3> SUFFICES ASSUME NEW t, NEW u
                   PROVE  Reached(messages, bells, t, u) => Reached(all, bells, t, u)
        OBVIOUS
      <3>1. Reached(messages, bells, t, u) => Reached(messages \o rows, bells \cup {}, t, u)
        BY ONLY <1>3, <2>4, MoreReached
      <3> QED
        BY <3>1
    <2> HIDE DEF all
    <2>8. ChosenInv(back, Active) /\ ListInv(back, Active)
      <3>1. Covered(back) <=> Covered(r)
        BY <2>1 DEF Covered
      <3>2. ASSUME Covered(r), Doomed(r, Active) PROVE Doomed(back, Active)
        <4>1. \A i \in 1 .. Len(BatchOf(r)) : BatchOf(r)[i] \in Active
          BY <1>1, <1>4, <1>6, <3>2, BatchIsOn DEF Covered, Doomed, b
        <4>2. \E i \in 1 .. Len(r.recipients) :
                 r.done + Len(BatchOf(r)) < i /\ r.recipients[i] \notin Active
          BY ONLY SupportBroadcastConstants, <1>1, <1>4, <3>2, <4>1, StillDoomed
        <4>3. Upto(back) = r.done + Len(BatchOf(r))
          BY <2>1, <2>2 DEF Upto, b
        <4> QED
          BY <2>1, <3>2, <4>2, <4>3 DEF Doomed
      <3>3. ChosenInv(r, Active) /\ ListInv(r, Active)
        BY <1>1 DEF RequestInv
      <3>4. ChosenInv(back, Active)
        BY <1>2, <2>1, <3>3 DEF ChosenInv, Others
      <3> QED
        BY <1>2, <2>1, <3>1, <3>2, <3>3, <3>4 DEF ListInv
    <2>9. DeliveredInv(back, s, all, bells)
      BY <1>1, <2>1, <2>2, <2>6, <2>7 DEF RequestInv, DeliveredInv, n
    <2>10. RequestInv(back, s, Active, all, bells)
      BY <2>8, <2>9 DEF RequestInv
    <2>11. messages' = all
      BY <1>6 DEF all
    <2> QED
      BY <1>2, <1>3, <1>6, <2>1, <2>5, <2>7, <2>10, <2>11, OneRequest
  <1>7. CASE messages' = messages /\ sends' = [sends EXCEPT ![s] = lost]
    <2>1. /\ lost \in SendRow /\ lost.kind = r.kind /\ lost.chosen = r.chosen
          /\ lost.admin = r.admin /\ lost.stayed = r.stayed /\ lost.done = r.done
          /\ lost.recipients = r.recipients /\ lost.step = "failed"
      BY <1>1 DEF SendRow
    <2> HIDE DEF lost
    <2>2. ChosenInv(lost, Active) /\ ListInv(lost, Active)
      BY <1>1, <1>2, <2>1 DEF RequestInv, ChosenInv, ListInv, Others, Covered
    <2>3. DeliveredInv(lost, s, messages, bells)
      BY <1>1, <2>1 DEF RequestInv, DeliveredInv
    <2>4. RequestInv(lost, s, Active, messages, bells)
      BY <2>2, <2>3 DEF RequestInv
    <2> QED
      BY <1>2, <1>3, <1>7, <2>1, <2>4, RequestMoves
  <1> QED
    BY <1>2, <1>6, <1>7

\* The rows of a batch are read back.
LEMMA NotifyBatchKeeps ==
    ASSUME SupportBroadcastConstants, CastInv, NEW s \in SendIds, NotifyBatch(s)
    PROVE  CastInv'
  <1> DEFINE r == sends[s]
             done == r.done + Len(BatchOf(r))
             written == Cardinality(ReadBack(r))
             q == [r EXCEPT !.done = done, !.count = @ + written,
                            !.step = IF done = Len(r.recipients) THEN "ok" ELSE "max"]
  <1>1. r \in SendRow /\ RequestInv(r, s, Active, messages, bells)
    BY RequestIs
  <1>2. /\ r.step = "back" /\ sends' = [sends EXCEPT ![s] = q]
        /\ status' = status /\ desk' = desk /\ UNCHANGED <<messages, bells>>
    BY DEF NotifyBatch, InStep, Proceed
  <1>3. desk' \in [Admins -> DeskRow]
    BY <1>2 DEF CastInv, CastShape
  <1>4. written \in Nat
    <2>1. DOMAIN messages = 1 .. Len(messages) /\ Len(messages) \in Nat
      BY LenProperties DEF CastInv, CastShape
    <2>2. IsFiniteSet(DOMAIN messages)
      BY <2>1, FS_Interval
    <2>3. IsFiniteSet(ReadBack(r))
      <3>1. ReadBack(r) \in SUBSET DOMAIN messages
        BY DEF ReadBack
      <3> QED
        BY <2>2, <3>1, FS_Subset
    <2> QED
      BY <2>3, FS_CardinalityType
  <1>5. /\ ListInv(r, Active) /\ r.done < Len(r.recipients)
        /\ \A i \in 1 .. r.done : Reached(messages, bells, s, r.recipients[i])
        /\ \A i \in 1 .. Len(BatchOf(r)) : Reached(messages, bells, s, BatchOf(r)[i])
    BY <1>1, <1>2 DEF RequestInv, ListInv, DeliveredInv
  <1>6. done \in Nat
    BY <1>1, <1>5, BatchDone
  <1> HIDE DEF written, done
  <1>7. /\ q \in SendRow /\ q.kind = r.kind /\ q.chosen = r.chosen /\ q.admin = r.admin
        /\ q.stayed = r.stayed /\ q.done = done /\ q.recipients = r.recipients
        /\ q.step = IF done = Len(r.recipients) THEN "ok" ELSE "max"
    <2>1. r.count + written \in Nat
      BY <1>1, <1>4 DEF SendRow
    <2> HIDE DEF r
    <2> QED
      BY <1>1, <1>6, <2>1 DEF SendRow
  <1> HIDE DEF q
  <1>8. ChosenInv(q, Active)
    BY <1>1, <1>2, <1>7 DEF RequestInv, ChosenInv, Others
  <1>9. ListInv(q, Active) /\ DeliveredInv(q, s, messages, bells)
    <2>1. q.step \in {"ok", "max", "rows"} /\ (q.step = "ok" <=> q.done = Len(r.recipients))
      BY <1>7
    <2> QED
      BY <1>1, <1>2, <1>5, <1>7, <2>1, AfterBatch DEF done
  <1> QED
    BY <1>2, <1>3, <1>7, <1>8, <1>9, RequestMoves DEF RequestInv

\* The bells of a batch.
LEMMA CreateNotificationsKeeps ==
    ASSUME SupportBroadcastConstants, CastInv, NEW s \in SendIds, CreateNotifications(s)
    PROVE  CastInv'
  <1> DEFINE r == sends[s]
             b == BatchOf(r)
             done == r.done + Len(b)
             rung == bells \cup [to : ToSet(b), send : {s}]
             q == [r EXCEPT !.done = done, !.count = @ + Len(b),
                            !.step = IF done = Len(r.recipients) THEN "ok" ELSE "rows"]
             lost == [r EXCEPT !.step = "failed"]
  <1>1. r \in SendRow /\ RequestInv(r, s, Active, messages, bells)
    BY RequestIs
  <1>2. /\ r.step = "rows" /\ status' = status /\ desk' = desk /\ messages' = messages
        /\ \/ bells' = rung /\ sends' = [sends EXCEPT ![s] = q] /\ HasRows(b)
           \/ bells' = bells /\ sends' = [sends EXCEPT ![s] = lost]
    BY DEF CreateNotifications, InStep, Proceed
  <1>3. messages \in Seq(MessageRow) /\ desk' \in [Admins -> DeskRow]
    BY <1>2 DEF CastInv, CastShape
  <1>4. /\ ListInv(r, Active) /\ r.done < Len(r.recipients)
        /\ \A i \in 1 .. r.done : Reached(messages, bells, s, r.recipients[i])
    BY <1>1, <1>2 DEF RequestInv, ListInv, DeliveredInv
  <1>5. b \in Seq(Users) /\ Len(b) \in Nat /\ DOMAIN b = 1 .. Len(b)
    BY <1>1, <1>4, BatchFacts
  <1>6. CASE bells' = rung /\ sends' = [sends EXCEPT ![s] = q] /\ HasRows(b)
    <2>1. ASSUME NEW i, i \in 1 .. Len(b) PROVE Reached(messages, rung, s, b[i])
      <3>1. b[i] \in ToSet(b)
        BY <1>5, <2>1 DEF ToSet
      <3> QED
        BY <3>1 DEF Reached
    <2>2. \A t, u : Reached(messages, bells, t, u) => Reached(messages, rung, t, u)
      BY DEF Reached
    <2>3. \A i \in 1 .. r.done : Reached(messages, rung, s, r.recipients[i])
      <3> HIDE DEF rung
      <3> QED
        BY <1>4, <2>2
    <2>4. done \in Nat
      <3>1. r.done \in Nat
        BY <1>1 DEF SendRow
      <3> QED
        BY <1>5, <3>1
    <2> HIDE DEF done, rung
    <2>5. /\ q \in SendRow /\ q.kind = r.kind /\ q.chosen = r.chosen /\ q.admin = r.admin
          /\ q.stayed = r.stayed /\ q.done = done /\ q.recipients = r.recipients
          /\ q.step = IF done = Len(r.recipients) THEN "ok" ELSE "rows"
      <3>1. r.count + Len(b) \in Nat
        BY <1>1, <1>5 DEF SendRow
      <3> HIDE DEF r, b
      <3> QED
        BY <1>1, <2>4, <3>1 DEF SendRow
    <2> HIDE DEF q
    <2>6. ChosenInv(q, Active)
      BY <1>1, <1>2, <2>5 DEF RequestInv, ChosenInv, Others
    <2>7. ListInv(q, Active) /\ DeliveredInv(q, s, messages, rung)
      <3>1. q.step \in {"ok", "max", "rows"} /\ (q.step = "ok" <=> q.done = Len(r.recipients))
        BY <2>5
      <3>2. q.done = r.done + Len(b)
        BY <2>5 DEF done
      <3>3. "off" \in Changes \/ \A i \in 1 .. Len(b) : b[i] \in Active
        BY <1>1, <1>4, <1>6, BatchIsOn
      <3> HIDE DEF r
      <3> QED
        BY ONLY SupportBroadcastConstants, <1>1, <1>2, <1>4, <2>1, <2>3, <2>5, <3>1, <3>2, <3>3,
           AfterBatch
    <2>8. RequestInv(q, s, Active, messages, rung)
      BY <2>6, <2>7 DEF RequestInv
    <2> QED
      BY <1>2, <1>3, <1>6, <2>2, <2>5, <2>8, OneRequest
  <1>7. CASE bells' = bells /\ sends' = [sends EXCEPT ![s] = lost]
    <2>1. /\ lost \in SendRow /\ lost.kind = r.kind /\ lost.chosen = r.chosen
          /\ lost.admin = r.admin /\ lost.stayed = r.stayed /\ lost.done = r.done
          /\ lost.recipients = r.recipients /\ lost.step = "failed"
      BY <1>1 DEF SendRow
    <2> HIDE DEF lost
    <2>2. ChosenInv(lost, Active) /\ ListInv(lost, Active)
      BY <1>1, <1>2, <2>1 DEF RequestInv, ChosenInv, ListInv, Others, Covered
    <2>3. DeliveredInv(lost, s, messages, bells)
      BY <1>1, <2>1 DEF RequestInv, DeliveredInv
    <2>4. RequestInv(lost, s, Active, messages, bells)
      BY <2>2, <2>3 DEF RequestInv
    <2> QED
      BY <1>2, <1>3, <1>7, <2>1, <2>4, RequestMoves
  <1> QED
    BY <1>2, <1>6, <1>7

\* The answer is taken.
LEMMA TakeAnswerKeeps ==
    ASSUME SupportBroadcastConstants, CastInv, NEW s \in SendIds, TakeAnswer(s)
    PROVE  CastInv'
  <1> DEFINE r == sends[s]
             q == [r EXCEPT !.step = "taken"]
  <1>1. r \in SendRow /\ RequestInv(r, s, Active, messages, bells)
    BY RequestIs
  <1>2. /\ r.step \in {"ok", "failed"} /\ sends' = [sends EXCEPT ![s] = q]
        /\ status' = status /\ UNCHANGED <<messages, bells>>
    BY DEF TakeAnswer
  <1>3. desk' \in [Admins -> DeskRow]
    <2>1. r.admin \in Admins /\ desk \in [Admins -> DeskRow]
      BY <1>1 DEF SendRow, CastInv, CastShape
    <2> DEFINE d == desk[r.admin]
               e == IF r.kind # "bulk" THEN [d EXCEPT !.broadcasting = FALSE]
                    ELSE IF r.step = "ok"
                         THEN [d EXCEPT !.sendingBulk = FALSE, !.dialog = "closed",
                                        !.selected = {}]
                         ELSE [d EXCEPT !.sendingBulk = FALSE]
    <2>2. desk' = [desk EXCEPT ![r.admin] = e]
      BY DEF TakeAnswer
    <2>3. e \in DeskRow
      <3>1. d \in DeskRow
        BY <2>1
      <3> HIDE DEF d
      <3> QED
        BY <3>1 DEF DeskRow
    <2> QED
      BY <2>1, <2>2, <2>3
  <1>4. /\ q \in SendRow /\ q.kind = r.kind /\ q.chosen = r.chosen /\ q.admin = r.admin
        /\ q.stayed = r.stayed /\ q.done = r.done /\ q.recipients = r.recipients
        /\ q.step = "taken"
    BY <1>1 DEF SendRow
  <1> HIDE DEF q
  <1>5. ChosenInv(q, Active) /\ ListInv(q, Active)
    BY <1>1, <1>2, <1>4 DEF RequestInv, ChosenInv, ListInv, Others, Covered
  <1>6. DeliveredInv(q, s, messages, bells)
    BY <1>1, <1>4 DEF RequestInv, DeliveredInv, Covered
  <1> QED
    BY <1>2, <1>3, <1>4, <1>5, <1>6, RequestMoves DEF RequestInv

\* A new request has delivered nothing.
LEMMA SubmitKeeps ==
    ASSUME SupportBroadcastConstants, CastInv, NEW a \in Admins, NEW kind \in SendKinds,
           NEW chosen \in SUBSET Users,
           IF kind = "bulk" THEN chosen \subseteq Members ELSE chosen = Users \ {a},
           sends' = Append(sends, NewSend(a, kind, chosen)),
           UNCHANGED <<status, messages, bells>>, desk' \in [Admins -> DeskRow]
    PROVE  CastInv'
  <1> DEFINE q == NewSend(a, kind, chosen)
             n == Len(sends)
  <1>1. /\ q \in SendRow /\ q.kind = kind /\ q.chosen = chosen /\ q.admin = a
        /\ q.stayed = chosen \cap Active /\ q.done = 0 /\ q.cursor = 0
        /\ q.recipients = <<>> /\ q.step = "sent"
    BY DEF NewSend, SendRow
  <1> HIDE DEF q
  <1>2. sends \in Seq(SendRow) /\ n \in Nat
    BY LenProperties DEF CastInv, CastShape
  <1>3. /\ sends' \in Seq(SendRow) /\ Len(sends') = n + 1
        /\ \A t \in 1 .. n : sends'[t] = sends[t]
        /\ sends'[n + 1] = q
    BY <1>1, <1>2, AppendProperties DEF q
  <1>4. Active' = Active
    BY DEF Active
  <1>5. ChosenInv(q, Active)
    BY <1>1 DEF ChosenInv, Others
  <1>6. ListInv(q, Active) /\ DeliveredInv(q, n + 1, messages, bells)
    <2>1. \A u \in Others(q) : ~(u <= 0)
      BY DEF Others, SupportBroadcastConstants
    <2>2. PagesRead(q, Active)
      BY <1>1, <2>1 DEF PagesRead
    <2> QED
      BY <1>1, <2>2 DEF ListInv, DeliveredInv
  <1>7. ASSUME NEW t, t \in 1 .. (n + 1)
        PROVE  RequestInv(sends'[t], t, Active, messages, bells)
    <2>1. CASE t \in 1 .. n
      BY <1>3, <2>1 DEF CastInv, SendIds
    <2>2. CASE t \notin 1 .. n
      <3>1. t = n + 1
        BY <1>2, <1>7, <2>2
      <3> QED
        BY <1>3, <1>5, <1>6, <3>1 DEF RequestInv
    <2> QED
      BY <2>1, <2>2
  <1> HIDE DEF n
  <1>8. \A t \in SendIds' : RequestInv(sends'[t], t, Active', messages', bells')
    BY <1>3, <1>4, <1>7 DEF SendIds
  <1>9. CastShape'
    BY <1>3 DEF CastInv, CastShape
  <1> QED
    BY <1>4, <1>8, <1>9 DEF CastInv

\* The desk alone.
LEMMA DeskKeeps ==
    ASSUME CastInv, NEW a \in Admins, NEW d \in DeskRow, OnDesk(a, d)
    PROVE  CastInv'
  <1>1. /\ desk' = [desk EXCEPT ![a] = d]
        /\ UNCHANGED <<status, messages, bells, sends>>
    BY DEF OnDesk
  <1>2. desk' \in [Admins -> DeskRow]
    BY <1>1 DEF CastInv, CastShape
  <1>3. CastShape' /\ Active' = Active /\ SendIds' = SendIds
    BY <1>1, <1>2 DEF CastInv, CastShape, Active, SendIds
  <1> QED
    BY <1>1, <1>3 DEF CastInv

LEMMA DeskStepKeeps ==
    ASSUME SupportBroadcastConstants, CastInv, NEW a \in Admins, DeskStep(a), "bulk" \in SendKinds
    PROVE  CastInv'
  <1> DEFINE d == desk[a]
  <1>1. d \in DeskRow /\ desk \in [Admins -> DeskRow]
    BY DEF CastInv, CastShape
  <1>2. CASE \E u \in Members : ToggleUserSelection(a, u)
    <2>1. PICK u \in Members : ToggleUserSelection(a, u)
      BY <1>2
    <2> DEFINE e == [d EXCEPT !.selected = IF u \in @ THEN @ \ {u} ELSE @ \cup {u}]
    <2>2. OnDesk(a, e)
      BY <2>1 DEF ToggleUserSelection
    <2>3. e \in DeskRow
      <3> HIDE DEF d
      <3> QED
        BY <1>1 DEF DeskRow
    <2> QED
      BY <2>2, <2>3, DeskKeeps
  <1>3. CASE ToggleSelectAllUsers(a)
    <2> DEFINE e == [d EXCEPT !.selected = IF @ = Members THEN {} ELSE Members]
    <2>1. OnDesk(a, e)
      BY <1>3 DEF ToggleSelectAllUsers
    <2>2. e \in DeskRow
      <3> HIDE DEF d
      <3> QED
        BY <1>1 DEF DeskRow
    <2> QED
      BY <2>1, <2>2, DeskKeeps
  <1>4. CASE \E target \in {"selected", "all"} : OpenBulkMessage(a, target)
    <2>1. PICK target \in {"selected", "all"} : OpenBulkMessage(a, target)
      BY <1>4
    <2> DEFINE e == [d EXCEPT !.dialog = target]
    <2>2. OnDesk(a, e)
      BY <2>1 DEF OpenBulkMessage
    <2>3. e \in DeskRow
      <3> HIDE DEF d
      <3> QED
        BY <1>1 DEF DeskRow
    <2> QED
      BY <2>2, <2>3, DeskKeeps
  <1>5. CASE CloseBulkMessage(a)
    <2> DEFINE e == [d EXCEPT !.dialog = "closed"]
    <2>1. OnDesk(a, e)
      BY <1>5 DEF CloseBulkMessage
    <2>2. e \in DeskRow
      <3> HIDE DEF d
      <3> QED
        BY <1>1 DEF DeskRow
    <2> QED
      BY <2>1, <2>2, DeskKeeps
  <1>6. CASE HandleSendBulkMessage(a)
    <2> DEFINE chosen == IF d.dialog = "all" THEN Members ELSE d.selected
               e == [d EXCEPT !.sendingBulk = TRUE]
    <2>1. /\ sends' = Append(sends, NewSend(a, "bulk", chosen))
          /\ UNCHANGED <<status, messages, bells>>
          /\ desk' = [desk EXCEPT ![a] = e]
      <3>1. desk' = [desk EXCEPT ![a].sendingBulk = TRUE]
        BY <1>6 DEF HandleSendBulkMessage
      <3> QED
        BY <1>1, <1>6, <3>1 DEF HandleSendBulkMessage, Submit
    <2>2. chosen \in SUBSET Users /\ chosen \subseteq Members
      BY <1>1 DEF DeskRow, Members
    <2>3. e \in DeskRow
      <3> HIDE DEF d
      <3> QED
        BY <1>1 DEF DeskRow
    <2>4. desk' \in [Admins -> DeskRow]
      BY <1>1, <2>1, <2>3
    <2> HIDE DEF chosen, e
    <2> QED
      BY <2>1, <2>2, <2>4, SubmitKeeps
  <1> QED
    BY <1>2, <1>3, <1>4, <1>5, <1>6 DEF DeskStep

LEMMA HandleBroadcastKeeps ==
    ASSUME SupportBroadcastConstants, CastInv, NEW a \in Admins, NEW kind \in {"inbox", "bell"},
           HandleBroadcast(a, kind)
    PROVE  CastInv'
  <1> DEFINE e == [desk[a] EXCEPT !.broadcasting = TRUE]
  <1>1. kind \in SendKinds /\ kind # "bulk"
    BY DEF HandleBroadcast
  <1>2. desk \in [Admins -> DeskRow] /\ desk[a] \in DeskRow
    BY DEF CastInv, CastShape
  <1>3. desk' \in [Admins -> DeskRow]
    <2>1. desk' = [desk EXCEPT ![a].broadcasting = TRUE]
      BY DEF HandleBroadcast
    <2>2. e \in DeskRow
      BY <1>2 DEF DeskRow
    <2> QED
      BY <1>2, <2>1, <2>2
  <1>4. /\ sends' = Append(sends, NewSend(a, kind, Users \ {a}))
        /\ UNCHANGED <<status, messages, bells>>
    BY DEF HandleBroadcast, Submit
  <1> QED
    BY <1>1, <1>3, <1>4, SubmitKeeps

\* A single message of an administrator.
LEMMA SendDirectKeeps ==
    ASSUME SupportBroadcastConstants, CastInv, NEW a \in Admins, NEW u \in Members, SendDirect(a, u)
    PROVE  CastInv'
  <1> DEFINE m == [from |-> a, to |-> u, send |-> 0]
  <1>1. /\ messages' = Append(messages, m) /\ UNCHANGED <<status, bells, sends, desk>>
    BY DEF SendDirect
  <1>2. messages \in Seq(MessageRow) /\ m \in MessageRow
    BY DEF CastInv, CastShape, MessageRow, Members
  <1>3. messages' = messages \o <<m>> /\ messages' \in Seq(MessageRow)
    BY <1>1, <1>2, AppendProperties, AppendIsConcat
  <1>4. ASSUME NEW t, NEW v PROVE Reached(messages, bells, t, v) => Reached(messages', bells', t, v)
    <2>1. <<m>> \in Seq(MessageRow)
      BY <1>2
    <2>2. Reached(messages, bells, t, v) => Reached(messages \o <<m>>, bells \cup {}, t, v)
      BY ONLY <1>2, <2>1, MoreReached
    <2> QED
      BY <1>1, <1>3, <2>2
  <1>5. SendIds' = SendIds /\ Active' = Active
    BY <1>1 DEF SendIds, Active
  <1>6. ASSUME NEW t \in SendIds
        PROVE  RequestInv(sends[t], t, Active, messages', bells')
    <2>1. /\ ChosenInv(sends[t], Active) /\ ListInv(sends[t], Active)
          /\ DeliveredInv(sends[t], t, messages, bells)
      BY DEF CastInv, RequestInv
    <2>2. DeliveredInv(sends[t], t, messages', bells')
      BY <1>4, <2>1 DEF DeliveredInv
    <2> QED
      BY <2>1, <2>2 DEF RequestInv
  <1> QED
    BY <1>1, <1>3, <1>5, <1>6 DEF CastInv, CastShape

\* A user who leaves is no longer one who stayed, for the requests under way.
LEMMA UserLeavesKeeps ==
    ASSUME SupportBroadcastConstants, CastInv, NEW u \in Members, NEW to \in Changes,
           UserLeaves(u, to)
    PROVE  CastInv'
  <1> DEFINE Over(r) == r.step \in {"ok", "failed", "taken"}
             Left(r) == IF Over(r) THEN r ELSE [r EXCEPT !.stayed = @ \ {u}]
  <1>1. /\ status' = [status EXCEPT ![u] = to]
        /\ sends' = [t \in SendIds |-> Left(sends[t])]
        /\ UNCHANGED <<messages, bells, desk>>
    BY DEF UserLeaves
  <1>2. Changes # {} /\ to \in {"off", "gone"} /\ u \in Users
    BY DEF SupportBroadcastConstants, Members
  <1>3. status' \in [Users -> {"on", "off", "gone"}] /\ Active' = Active \ {u}
    BY <1>1, <1>2 DEF CastInv, CastShape, Active
  <1>8. "off" \notin Changes => \A v \in Users : status'[v] # "off"
    BY <1>1, <1>2 DEF CastInv, CastShape
  <1>4. \A t \in SendIds : sends[t] \in SendRow /\ RequestInv(sends[t], t, Active, messages, bells)
    BY RequestIs
  <1>5. ASSUME NEW r \in SendRow
        PROVE  /\ Left(r) \in SendRow /\ Left(r).kind = r.kind /\ Left(r).chosen = r.chosen
               /\ Left(r).admin = r.admin /\ Left(r).step = r.step /\ Left(r).done = r.done
               /\ Left(r).recipients = r.recipients /\ Left(r).cursor = r.cursor
               /\ Left(r).stayed = IF Over(r) THEN r.stayed ELSE r.stayed \ {u}
    BY DEF SendRow
  <1> HIDE DEF Left
  <1>6. sends' \in Seq(SendRow) /\ SendIds' = SendIds
    <2>1. Len(sends) \in Nat
      BY LenProperties DEF CastInv, CastShape
    <2>2. sends' = [t \in 1 .. Len(sends) |-> Left(sends[t])]
      BY <1>1 DEF SendIds
    <2>3. \A t \in 1 .. Len(sends) : Left(sends[t]) \in SendRow
      BY <1>4, <1>5 DEF SendIds
    <2>4. sends' \in Seq(SendRow) /\ Len(sends') = Len(sends)
      BY <2>1, <2>2, <2>3
    <2> QED
      BY <2>4 DEF SendIds
  <1>7. ASSUME NEW t \in SendIds
        PROVE  RequestInv(sends'[t], t, Active', messages', bells')
    <2> DEFINE r == sends[t]
               q == Left(r)
    <2>1. r \in SendRow /\ RequestInv(r, t, Active, messages, bells)
      BY <1>4
    <2>2. sends'[t] = q
      BY <1>1
    <2>3. /\ q.kind = r.kind /\ q.chosen = r.chosen /\ q.admin = r.admin /\ q.step = r.step
          /\ q.done = r.done /\ q.recipients = r.recipients /\ q.cursor = r.cursor
          /\ q.stayed = IF Over(r) THEN r.stayed ELSE r.stayed \ {u}
      BY <1>5, <2>1
    <2> HIDE DEF q
    <2>4. ChosenInv(q, Active')
      BY <1>3, <2>1, <2>3 DEF RequestInv, ChosenInv, Others
    <2>6. BatchOf(q) = BatchOf(r)
      BY <2>3 DEF BatchOf
    <2>5. ListInv(q, Active')
      <3>1. (Covered(q) <=> Covered(r)) /\ Others(q) = Others(r) /\ Upto(q) = Upto(r)
        BY <2>3, <2>6 DEF Covered, Others, Upto
      <3>2. PagesRead(r, Active) => PagesRead(q, Active')
        BY <1>3, <2>3, <3>1 DEF PagesRead
      <3>3. Doomed(r, Active) => Doomed(q, Active')
        BY <1>3, <2>3, <3>1 DEF Doomed
      <3>4. ListInv(r, Active) /\ q.stayed \subseteq r.stayed
        BY <2>1, <2>3 DEF RequestInv
      <3> QED
        BY <2>3, <3>1, <3>2, <3>3, <3>4 DEF ListInv
    <2>7. DeliveredInv(q, t, messages, bells)
      BY <2>1, <2>3, <2>6 DEF RequestInv, DeliveredInv, Covered
    <2> QED
      BY <1>1, <2>2, <2>4, <2>5, <2>7 DEF RequestInv
  <1> QED
    BY <1>1, <1>3, <1>6, <1>7, <1>8 DEF CastInv, CastShape

-----------------------------------------------------------------------------
LEMMA CastStart == ASSUME SupportBroadcastConstants, CastInit PROVE CastInv
  <1>1. /\ status \in [Users -> {"on", "off", "gone"}]
        /\ \A u \in Users : status[u] # "off"
    BY DEF CastInit
  <1>2. messages \in Seq(MessageRow) /\ sends \in Seq(SendRow) /\ SendIds = {}
    BY DEF CastInit, SendIds
  <1>3. desk \in [Admins -> DeskRow]
    BY DEF CastInit, DeskRow
  <1> QED
    BY <1>1, <1>2, <1>3 DEF CastInv, CastShape

LEMMA CastStep ==
    ASSUME SupportBroadcastConstants, CastInv, [CastNext]_castVars
    PROVE  CastInv'
  <1>1. CASE "bulk" \in SendKinds /\ \E a \in Admins : DeskStep(a)
    BY <1>1, DeskStepKeeps
  <1>2. CASE \E a \in Admins, kind \in {"inbox", "bell"} : HandleBroadcast(a, kind)
    BY <1>2, HandleBroadcastKeeps
  <1>3. CASE \E s \in SendIds : ServerStep(s) \/ TakeAnswer(s)
    BY <1>3, ReadRecipientsKeeps, ReadPageKeeps, ReadMaxIdKeeps, CreateMessagesKeeps,
       NotifyBatchKeeps, CreateNotificationsKeeps, TakeAnswerKeeps DEF ServerStep
  <1>4. CASE \E a \in Admins, u \in Members : SendDirect(a, u)
    BY <1>4, SendDirectKeeps
  <1>5. CASE \E u \in Members, to \in Changes : UserLeaves(u, to)
    BY <1>5, UserLeavesKeeps
  <1>6. CASE UNCHANGED castVars
    <2>1. UNCHANGED <<status, messages, bells, sends, desk>>
      BY <1>6 DEF castVars
    <2>2. CastShape' /\ Active' = Active /\ SendIds' = SendIds
      BY <2>1 DEF CastInv, CastShape, Active, SendIds
    <2> QED
      BY <2>1, <2>2 DEF CastInv
  <1> QED
    BY <1>1, <1>2, <1>3, <1>4, <1>5, <1>6 DEF CastNext

\* The users that a request still has to reach are on its list or beyond its
\* cursor, and those of the positions worked off have their row, whatever the
\* requests of other administrators and the users do in between
\* (adminController.js, broadcastNotification and sendAdminMessageToUsers).
THEOREM CastInvariance ==
    ASSUME SupportBroadcastConstants
    PROVE  CastSpec => []CastInv
  <1>1. CastInit => CastInv
    BY CastStart
  <1>2. CastInv /\ [CastNext]_castVars => CastInv'
    BY CastStep
  <1> QED
    BY <1>1, <1>2, PTL DEF CastSpec

\* When the desk is told that a bulk message went out, everyone it was asked
\* for who stayed active until then has a row of it (bulkMessageUsers reads
\* the receivers in one query).
BulkReached ==
    \A s \in SendIds : sends[s].kind = "bulk" /\ InStep(s, "ok") =>
        \A u \in sends[s].stayed : Got(s, u)

\* A request that succeeded has worked off its list.
LEMMA ReachedIsGot ==
    ASSUME CastInv, NEW s \in SendIds, InStep(s, "ok"), Covered(sends[s]),
           NEW u \in sends[s].stayed
    PROVE  Got(s, u)
  <1>1. Reached(messages, bells, s, u)
    BY RequestIs DEF RequestInv, DeliveredInv, InStep
  <1> QED
    BY <1>1 DEF Reached, Got, RowsOf

\* A bulk message that is reported as sent has reached everyone it was asked
\* for who stayed active, although users may be suspended or deleted at any
\* point of it, and beside announcements, single messages and the requests of
\* other administrators.
THEOREM EveryBulkReached ==
    ASSUME SupportBroadcastConstants
    PROVE  CastSpec => []BulkReached
  <1>1. CastInv => BulkReached
    BY ReachedIsGot DEF BulkReached, Covered
  <1> QED
    BY <1>1, CastInvariance, PTL

\* The same of announcements, for any number of users, of administrators and
\* of requests under way at once, and any size of a page and of a batch, as long
\* as nobody is suspended: broadcastNotification reads the users page by page
\* from a cursor, and a page that starts at a suspended user skips the one
\* after.  Users may be deleted: a page that starts at one is empty and ends
\* the list too early, but then the insertion of their own row fails, and so
\* does the announcement.
THEOREM EveryoneIsReached ==
    ASSUME SupportBroadcastConstants, "off" \notin Changes \/ SendKinds \subseteq {"bulk"}
    PROVE  CastSpec => []EveryoneReached
  <1>1. CastInv => EveryoneReached
    <2> SUFFICES ASSUME CastInv, NEW s \in SendIds PROVE Covered(sends[s])
      BY ReachedIsGot DEF EveryoneReached
    <2> QED
      BY RequestIs DEF Covered, SendRow
  <1> QED
    BY <1>1, CastInvariance, PTL

-----------------------------------------------------------------------------
(* One row each.                                                           *)

\* The list names users asked for, each once; the pages go up.
ListOnce(r) ==
    /\ Once(r.recipients)
    /\ ToSet(r.recipients) \subseteq r.chosen
    /\ r.step = "sent" /\ r.kind # "bulk" => \A u \in ToSet(r.recipients) : u <= r.cursor

\* The rows of a request are those of the positions worked off.
RowsInv(r, s, msgs, rows) ==
    /\ \A id \in DOMAIN msgs :
          msgs[id].send = s => \E i \in 1 .. Upto(r) : msgs[id].to = r.recipients[i]
    /\ \A u \in Users :
          [to |-> u, send |-> s] \in rows => \E i \in 1 .. Upto(r) : u = r.recipients[i]

\* Rows are of requests made, and no two of one request to one user.
NoTwo(msgs, n) ==
    /\ \A id \in DOMAIN msgs : msgs[id].send <= n
    /\ \A id, jd \in DOMAIN msgs :
          msgs[id].send = msgs[jd].send /\ msgs[id].to = msgs[jd].to /\ msgs[id].send # 0
              => id = jd

OnceInv ==
    /\ \A s \in SendIds : ListOnce(sends[s]) /\ RowsInv(sends[s], s, messages, bells)
    /\ NoTwo(messages, Len(sends))
    /\ bells \in SUBSET [to : Users, send : SendIds]

\* Two lists after one another.
LEMMA ConcatOnce ==
    ASSUME NEW list \in Seq(Users), NEW more \in Seq(Users), Once(list), Once(more),
           ToSet(list) \cap ToSet(more) = {}
    PROVE  Once(list \o more)
  <1> DEFINE m == Len(list)
             n == Len(more)
             both == list \o more
  <1>1. m \in Nat /\ n \in Nat /\ DOMAIN list = 1 .. m /\ DOMAIN more = 1 .. n
    OBVIOUS
  <1>2. /\ DOMAIN both = 1 .. (m + n)
        /\ \A i \in 1 .. (m + n) : both[i] = IF i <= m THEN list[i] ELSE more[i - m]
    BY ConcatProperties, LenProperties
  <1> HIDE DEF m, n, both
  <1>3. ASSUME NEW i, i \in 1 .. (m + n)
        PROVE  \/ i <= m /\ i \in DOMAIN list /\ both[i] = list[i] /\ both[i] \in ToSet(list)
               \/ /\ ~(i <= m) /\ i - m \in DOMAIN more /\ both[i] = more[i - m]
                  /\ both[i] \in ToSet(more)
    <2>1. CASE i <= m
      <3>1. i \in 1 .. m /\ both[i] = list[i]
        BY <1>1, <1>2, <1>3, <2>1
      <3> QED
        BY <1>1, <2>1, <3>1 DEF ToSet
    <2>2. CASE ~(i <= m)
      <3>1. i - m \in 1 .. n /\ both[i] = more[i - m]
        BY <1>1, <1>2, <1>3, <2>2
      <3> QED
        BY <1>1, <2>2, <3>1 DEF ToSet
    <2> QED
      BY <2>1, <2>2
  <1>4. ASSUME NEW i, i \in 1 .. (m + n), NEW j, j \in 1 .. (m + n), both[i] = both[j]
        PROVE  i = j
    <2>1. CASE i <= m /\ j <= m
      BY <1>3, <1>4, <2>1 DEF Once
    <2>2. CASE ~(i <= m) /\ ~(j <= m)
      <3>1. /\ i - m \in DOMAIN more /\ j - m \in DOMAIN more
            /\ more[i - m] = more[j - m]
        BY <1>3, <1>4, <2>2
      <3>2. i - m = j - m
        BY <3>1 DEF Once
      <3> QED
        BY <1>1, <1>4, <3>2
    <2>3. i <= m <=> j <= m
      BY <1>3, <1>4
    <2> QED
      BY <2>1, <2>2, <2>3
  <1> QED
    BY <1>2, <1>4 DEF Once, both

\* A step of one request that creates no row.
LEMMA NoRowStep ==
    ASSUME CastInv, OnceInv, NEW s \in SendIds, NEW r,
           sends' = [sends EXCEPT ![s] = r], UNCHANGED <<messages, bells>>,
           ListOnce(r), RowsInv(r, s, messages, bells)
    PROVE  OnceInv'
  <1>1. /\ Len(sends') = Len(sends) /\ sends'[s] = r
        /\ \A t \in SendIds \ {s} : sends'[t] = sends[t]
    BY DEF CastInv, CastShape, SendIds
  <1>2. SendIds' = SendIds
    BY <1>1 DEF SendIds
  <1>3. \A t \in SendIds : ListOnce(sends'[t]) /\ RowsInv(sends'[t], t, messages, bells)
    BY <1>1 DEF OnceInv
  <1>4. NoTwo(messages, Len(sends))
    BY DEF OnceInv
  <1> QED
    BY <1>1, <1>2, <1>3, <1>4 DEF OnceInv

\* The list and the positions worked off stay.
LEMMA SameListStep ==
    ASSUME CastInv, OnceInv, NEW s \in SendIds, NEW r,
           sends' = [sends EXCEPT ![s] = r], UNCHANGED <<messages, bells>>,
           r.step # "sent", r.recipients = sends[s].recipients, r.chosen = sends[s].chosen,
           Upto(r) = Upto(sends[s])
    PROVE  OnceInv'
  <1>1. ListOnce(sends[s]) /\ RowsInv(sends[s], s, messages, bells)
    BY DEF OnceInv
  <1>2. ListOnce(r) /\ RowsInv(r, s, messages, bells)
    BY <1>1 DEF ListOnce, RowsInv
  <1> QED
    BY <1>2, NoRowStep

\* A list that is being made has no rows.
LEMMA NewListStep ==
    ASSUME CastInv, OnceInv, NEW s \in SendIds, NEW r,
           sends' = [sends EXCEPT ![s] = r], UNCHANGED <<messages, bells>>,
           sends[s].step = "sent", r.step # "back", r.done = 0, ListOnce(r)
    PROVE  OnceInv'
  <1>1. ListInv(sends[s], Active) /\ RowsInv(sends[s], s, messages, bells)
    BY RequestIs DEF OnceInv, RequestInv
  <1>2. Upto(sends[s]) = 0 /\ Upto(r) = 0
    BY <1>1 DEF ListInv, Upto
  <1>3. RowsInv(r, s, messages, bells)
    BY <1>1, <1>2 DEF RowsInv
  <1> QED
    BY <1>3, NoRowStep

LEMMA ReadRecipientsOnce ==
    ASSUME SupportBroadcastConstants, CastInv, OnceInv, NEW s \in SendIds, ReadRecipients(s)
    PROVE  OnceInv'
  <1> DEFINE r == sends[s]
             U == BulkRecipients(r)
             found == Sorted(U)
             q == [r EXCEPT !.recipients = found,
                            !.step = IF found = <<>> THEN "ok" ELSE "max"]
  <1>1. r \in SendRow /\ RequestInv(r, s, Active, messages, bells)
    BY RequestIs
  <1>2. /\ r.step = "sent" /\ sends' = [sends EXCEPT ![s] = q]
        /\ UNCHANGED <<messages, bells>>
    BY DEF ReadRecipients, InStep, Proceed
  <1>3. ToSet(found) = U /\ Once(found)
    <2>1. U \in SUBSET Users
      BY DEF BulkRecipients, Active
    <2>2. U \in SUBSET Nat /\ IsFiniteSet(U)
      BY <2>1, UsersAre
    <2> HIDE DEF U
    <2> QED
      BY <2>2, SortedFacts
  <1>4. U \subseteq r.chosen
    BY DEF BulkRecipients
  <1>5. r.done = 0
    BY <1>1, <1>2 DEF RequestInv, ListInv
  <1> HIDE DEF found, U
  <1>6. q.recipients = found /\ q.step \in {"ok", "max"} /\ q.chosen = r.chosen /\ q.done = 0
    BY <1>1, <1>5 DEF SendRow
  <1> HIDE DEF q
  <1>7. ListOnce(q)
    BY <1>3, <1>4, <1>6 DEF ListOnce
  <1> QED
    BY <1>2, <1>6, <1>7, NewListStep

LEMMA ReadPageOnce ==
    ASSUME SupportBroadcastConstants, CastInv, OnceInv, NEW s \in SendIds, ReadPage(s)
    PROVE  OnceInv'
  <1> DEFINE r == sends[s]
             page == NextPage(r)
             next == IF r.recipients = <<>> THEN "ok"
                     ELSE IF r.kind = "inbox" THEN "max" ELSE "rows"
             end == [r EXCEPT !.step = next]
             on == [r EXCEPT !.cursor = Max(page), !.recipients = @ \o Sorted(page)]
  <1>1. r \in SendRow /\ RequestInv(r, s, Active, messages, bells)
    BY RequestIs
  <1>2. /\ r.step = "sent" /\ r.kind # "bulk"
        /\ sends' = [sends EXCEPT ![s] = IF page = {} THEN end ELSE on]
        /\ UNCHANGED <<messages, bells>>
    BY DEF ReadPage, InStep, Proceed
  <1>3. /\ r.chosen = Others(r) /\ r.done = 0 /\ PagesRead(r, Active)
        /\ r.recipients \in Seq(Users) /\ r.cursor \in Nat
    BY <1>1, <1>2 DEF RequestInv, ChosenInv, ListInv, SendRow
  <1>4. /\ Once(r.recipients) /\ ToSet(r.recipients) \subseteq r.chosen
        /\ \A u \in ToSet(r.recipients) : u <= r.cursor
    BY <1>2 DEF OnceInv, ListOnce
  <1>5. \A u \in page : u \in Others(r) /\ u \in Nat /\ r.cursor < u
    BY <1>1, <1>3, PageIsBeyond
  <1> HIDE DEF page
  <1>6. CASE page = {}
    <2>1. end.recipients = r.recipients /\ end.step \in {"ok", "max", "rows"}
          /\ end.chosen = r.chosen /\ end.done = 0
      BY <1>1, <1>3 DEF SendRow
    <2>2. sends' = [sends EXCEPT ![s] = end]
      BY <1>2, <1>6
    <2> HIDE DEF end
    <2>3. ListOnce(end)
      BY <1>4, <2>1 DEF ListOnce
    <2> QED
      BY <1>2, <2>1, <2>2, <2>3, NewListStep
  <1>7. CASE page # {}
    <2>1. page \in SUBSET Users /\ page \in SUBSET Nat /\ IsFiniteSet(page)
      <3>1. page \in SUBSET Users
        BY <1>5 DEF Others
      <3> QED
        BY <3>1, UsersAre
    <2>2. Sorted(page) \in Seq(Users) /\ ToSet(Sorted(page)) = page /\ Once(Sorted(page))
      <3>1. Sorted(page) \in Seq(page) /\ ToSet(Sorted(page)) = page /\ Once(Sorted(page))
        BY <2>1, SortedFacts
      <3> QED
        BY <2>1, <3>1, SeqMonotonic
    <2> DEFINE longer == r.recipients \o Sorted(page)
               last == Max(page)
    <2>3. last \in page /\ \A u \in page : u <= last
      BY <1>7, <2>1, Extremes
    <2>4. ToSet(r.recipients) \cap ToSet(Sorted(page)) = {}
      <3> SUFFICES ASSUME NEW u \in ToSet(r.recipients), u \in page PROVE FALSE
        BY <2>2
      <3>1. u <= r.cursor /\ r.cursor < u /\ u \in Nat
        BY <1>4, <1>5
      <3> QED
        BY <1>3, <3>1
    <2>5. Once(longer) /\ ToSet(longer) = ToSet(r.recipients) \cup page
      BY <1>3, <1>4, <2>2, <2>4, ConcatOnce, ListGrows
    <2>6. ToSet(longer) \subseteq r.chosen
      BY <1>3, <1>4, <1>5, <2>5
    <2> HIDE DEF last
    <2>7. ASSUME NEW u \in ToSet(longer) PROVE u <= last
      <3>1. CASE u \in page
        BY <2>3, <3>1
      <3>2. CASE u \in ToSet(r.recipients)
        <4>1. u <= r.cursor /\ r.cursor < last /\ last \in Nat
          BY <1>4, <1>5, <2>3, <3>2
        <4>2. u \in Nat
          BY <1>3, <1>4, <3>2 DEF Others, SupportBroadcastConstants
        <4> QED
          BY <1>3, <4>1, <4>2
      <3> QED
        BY <2>5, <2>7, <3>1, <3>2
    <2>8. sends' = [sends EXCEPT ![s] = on]
      BY <1>2, <1>7
    <2> HIDE DEF longer
    <2>9. on.recipients = longer /\ on.step = "sent" /\ on.chosen = r.chosen
          /\ on.done = 0 /\ on.cursor = last
      BY <1>1, <1>2, <1>3 DEF SendRow, longer, last
    <2> HIDE DEF on
    <2>10. ListOnce(on)
      BY <2>5, <2>6, <2>7, <2>9 DEF ListOnce
    <2> QED
      BY <1>2, <2>8, <2>9, <2>10, NewListStep
  <1> QED
    BY <1>6, <1>7

\* The positions of two sequences after one another.
LEMMA JoinFacts ==
    ASSUME NEW S, NEW old \in Seq(S), NEW more \in Seq(S)
    PROVE  /\ old \o more \in Seq(S)
           /\ DOMAIN (old \o more) = 1 .. (Len(old) + Len(more))
           /\ \A i \in 1 .. (Len(old) + Len(more)) :
                 (old \o more)[i] = IF i <= Len(old) THEN old[i] ELSE more[i - Len(old)]
  BY ConcatProperties, LenProperties

\* A position of a sequence that was appended to.
LEMMA OldOrNew ==
    ASSUME NEW S, NEW old \in Seq(S), NEW more \in Seq(S), NEW id, id \in DOMAIN (old \o more)
    PROVE  \/ id \in DOMAIN old /\ (old \o more)[id] = old[id]
           \/ \E i \in 1 .. Len(more) : id = Len(old) + i /\ (old \o more)[id] = more[i]
  <1> DEFINE m == Len(old)
             n == Len(more)
             all == old \o more
  <1>1. m \in Nat /\ n \in Nat /\ DOMAIN old = 1 .. m
    OBVIOUS
  <1>2. /\ DOMAIN all = 1 .. (m + n)
        /\ \A i \in 1 .. (m + n) : all[i] = IF i <= m THEN old[i] ELSE more[i - m]
    BY ConcatProperties, LenProperties
  <1>3. id \in DOMAIN all
    OBVIOUS
  <1> HIDE DEF m, n, all
  <1>4. CASE id <= m
    <2>1. id \in DOMAIN old /\ all[id] = old[id]
      BY <1>1, <1>2, <1>3, <1>4
    <2> QED
      BY <2>1 DEF all
  <1>5. CASE ~(id <= m)
    <2> DEFINE i == id - m
    <2>1. i \in 1 .. n /\ id = m + i /\ all[id] = more[i]
      BY <1>1, <1>2, <1>3, <1>5
    <2> HIDE DEF i
    <2> QED
      BY <2>1 DEF m, n, all
  <1> QED
    BY <1>4, <1>5

\* A step of one request that creates rows of it.
LEMMA RowStep ==
    ASSUME CastInv, OnceInv, NEW s \in SendIds, NEW r,
           sends' = [sends EXCEPT ![s] = r], ListOnce(r),
           RowsInv(r, s, messages', bells'),
           \A t \in SendIds \ {s} : RowsInv(sends[t], t, messages', bells'),
           NoTwo(messages', Len(sends)),
           bells' \in SUBSET [to : Users, send : SendIds]
    PROVE  OnceInv'
  <1>1. /\ Len(sends') = Len(sends) /\ sends'[s] = r
        /\ \A t \in SendIds \ {s} : sends'[t] = sends[t]
    BY DEF CastInv, CastShape, SendIds
  <1>2. SendIds' = SendIds
    BY <1>1 DEF SendIds
  <1>3. \A t \in SendIds : ListOnce(sends'[t]) /\ RowsInv(sends'[t], t, messages', bells')
    BY <1>1 DEF OnceInv
  <1> QED
    BY <1>1, <1>2, <1>3 DEF OnceInv

LEMMA CreateMessagesOnce ==
    ASSUME SupportBroadcastConstants, CastInv, OnceInv, NEW s \in SendIds, CreateMessages(s)
    PROVE  OnceInv'
  <1> DEFINE r == sends[s]
             b == BatchOf(r)
             n == Len(b)
             d == r.done
             rows == [i \in DOMAIN b |-> [from |-> r.admin, to |-> b[i], send |-> s]]
             back == [r EXCEPT !.step = "back"]
             lost == [r EXCEPT !.step = "failed"]
             all == messages \o rows
  <1>1. /\ r \in SendRow /\ RequestInv(r, s, Active, messages, bells) /\ s \in Nat \ {0}
        /\ ListOnce(r) /\ RowsInv(r, s, messages, bells)
    BY RequestIs DEF OnceInv
  <1>2. /\ r.step = "rows" /\ bells' = bells
        /\ \/ messages' = all /\ sends' = [sends EXCEPT ![s] = back]
           \/ messages' = messages /\ sends' = [sends EXCEPT ![s] = lost]
    BY DEF CreateMessages, InStep, Proceed
  <1>3. messages \in Seq(MessageRow) /\ s <= Len(sends) /\ Len(sends) \in Nat
    BY LenProperties DEF CastInv, CastShape, SendIds
  <1>4. r.done < Len(r.recipients)
    BY <1>1, <1>2 DEF RequestInv, ListInv
  <1>5. /\ b \in Seq(Users) /\ n \in Nat /\ DOMAIN b = 1 .. n
        /\ d + n <= Len(r.recipients)
        /\ \A i \in 1 .. n : b[i] = r.recipients[d + i]
    BY <1>1, <1>4, BatchFacts
  <1>6. d \in Nat /\ r.admin \in Admins /\ DOMAIN r.recipients = 1 .. Len(r.recipients)
        /\ Len(r.recipients) \in Nat
    BY <1>1, LenProperties DEF SendRow
  <1>7. Upto(r) = d
    BY <1>2 DEF Upto
  <1>8. CASE messages' = messages /\ sends' = [sends EXCEPT ![s] = lost]
    <2>1. /\ lost.step = "failed" /\ lost.recipients = r.recipients
          /\ lost.chosen = r.chosen /\ lost.done = r.done
      BY <1>1 DEF SendRow
    <2> HIDE DEF lost
    <2>2. Upto(lost) = Upto(r)
      BY <1>2, <2>1 DEF Upto
    <2> QED
      BY <1>2, <1>8, <2>1, <2>2, SameListStep
  <1>9. CASE messages' = all /\ sends' = [sends EXCEPT ![s] = back]
    <2>1. /\ back.step = "back" /\ back.recipients = r.recipients /\ back.kind = r.kind
          /\ back.chosen = r.chosen /\ back.done = r.done
      BY <1>1 DEF SendRow
    <2>2. Upto(back) = d + n
      BY <2>1 DEF Upto, BatchOf
    <2> HIDE DEF back
    <2>3. /\ rows \in Seq(MessageRow) /\ Len(rows) = n
          /\ \A i \in 1 .. n : rows[i].to = b[i] /\ rows[i].send = s
      <3> DEFINE Row(i) == [from |-> r.admin, to |-> b[i], send |-> s]
      <3>1. rows = [i \in 1 .. n |-> Row(i)]
        BY <1>5
      <3>2. \A i \in 1 .. n : Row(i).to = b[i] /\ Row(i).send = s
        OBVIOUS
      <3>3. \A i \in 1 .. n : Row(i) \in MessageRow
        <4>1. \A i \in 1 .. n : b[i] \in Users
          BY <1>5
        <4> QED
          BY <1>1, <1>6, <4>1 DEF MessageRow
      <3> HIDE DEF rows, b, r, Row, n
      <3> QED
        BY <1>5, <3>1, <3>2, <3>3
    <2>4. DOMAIN messages \subseteq DOMAIN all
          /\ \A id \in DOMAIN messages : all[id] = messages[id]
      <3> HIDE DEF rows
      <3> QED
        BY <1>3, <2>3, ConcatProperties, LenProperties
    <2>5. ASSUME NEW id, id \in DOMAIN all
          PROVE  \/ id \in DOMAIN messages /\ all[id] = messages[id]
                 \/ \E i \in 1 .. n : /\ id = Len(messages) + i
                                      /\ all[id].to = b[i] /\ all[id].send = s
      <3>1. messages \in Seq(MessageRow) /\ rows \in Seq(MessageRow)
            /\ id \in DOMAIN (messages \o rows)
        BY <1>3, <2>3, <2>5
      <3> HIDE DEF rows, b
      <3>2. \/ id \in DOMAIN messages /\ (messages \o rows)[id] = messages[id]
            \/ \E i \in 1 .. Len(rows) :
                  id = Len(messages) + i /\ (messages \o rows)[id] = rows[i]
        BY ONLY <3>1, OldOrNew
      <3> QED
        BY <2>3, <3>2
    <2> HIDE DEF rows, all, b, n, r, d
    <2>6. \A i \in 1 .. n : d + i \in 1 .. (d + n) /\ d + i \in DOMAIN r.recipients /\ ~(d + i <= d)
      BY <1>5, <1>6
    <2>7. 1 .. d \subseteq 1 .. (d + n) /\ 1 .. d \subseteq DOMAIN r.recipients
      BY <1>5, <1>6
    <2>8. RowsInv(back, s, all, bells)
      <3>1. ASSUME NEW id \in DOMAIN all, all[id].send = s
            PROVE  \E k \in 1 .. (d + n) : all[id].to = r.recipients[k]
        <4>1. CASE id \in DOMAIN messages /\ all[id] = messages[id]
          <5>1. \E k \in 1 .. d : messages[id].to = r.recipients[k]
            BY <1>1, <1>7, <3>1, <4>1 DEF RowsInv
          <5> QED
            BY <2>7, <4>1, <5>1
        <4>2. CASE \E i \in 1 .. n : all[id].to = b[i]
          <5>1. PICK i \in 1 .. n : all[id].to = b[i]
            BY <4>2
          <5>2. all[id].to = r.recipients[d + i]
            BY <1>5, <5>1
          <5> QED
            BY <2>6, <5>2
        <4> QED
          BY <2>5, <4>1, <4>2
      <3>2. \A u \in Users : [to |-> u, send |-> s] \in bells =>
               \E k \in 1 .. (d + n) : u = r.recipients[k]
        BY <1>1, <1>7, <2>7 DEF RowsInv
      <3> QED
        BY <2>1, <2>2, <3>1, <3>2 DEF RowsInv
    <2>9. ASSUME NEW t \in SendIds \ {s} PROVE RowsInv(sends[t], t, all, bells)
      <3>1. RowsInv(sends[t], t, messages, bells)
        BY DEF OnceInv
      <3>2. \A id \in DOMAIN all : all[id].send = t => id \in DOMAIN messages /\ all[id] = messages[id]
        BY <2>5
      <3> QED
        BY <3>1, <3>2 DEF RowsInv
    <2>10. NoTwo(all, Len(sends))
      <3>1. NoTwo(messages, Len(sends))
        BY DEF OnceInv
      <3>2. ASSUME NEW id, id \in DOMAIN all PROVE all[id].send <= Len(sends)
        <4>1. \/ id \in DOMAIN messages /\ all[id] = messages[id]
              \/ all[id].send = s
          BY <2>5, <3>2
        <4> QED
          BY <1>3, <3>1, <4>1 DEF NoTwo
      <3>3. ASSUME NEW id \in DOMAIN messages, NEW i \in 1 .. n,
                   messages[id].send = s, messages[id].to = b[i]
            PROVE  FALSE
        <4>1. PICK k \in 1 .. d : messages[id].to = r.recipients[k]
          BY <1>1, <1>7, <3>3 DEF RowsInv
        <4>2. r.recipients[k] = r.recipients[d + i]
          BY <1>5, <3>3, <4>1
        <4>3. k = d + i
          BY <1>1, <2>6, <2>7, <4>1, <4>2 DEF ListOnce, Once
        <4> QED
          BY <1>6, <2>6, <4>3
      <3>4. ASSUME NEW i \in 1 .. n, NEW j \in 1 .. n, b[i] = b[j] PROVE i = j
        <4>1. r.recipients[d + i] = r.recipients[d + j]
          BY <1>5, <3>4
        <4>2. d + i = d + j
          BY <1>1, <2>6, <4>1 DEF ListOnce, Once
        <4> QED
          BY <1>5, <1>6, <4>2
      <3>5. ASSUME NEW id, id \in DOMAIN all, NEW jd, jd \in DOMAIN all,
                   all[id].send = all[jd].send, all[id].to = all[jd].to, all[id].send # 0
            PROVE  id = jd
        <4>1. CASE id \in DOMAIN messages /\ all[id] = messages[id]
                   /\ jd \in DOMAIN messages /\ all[jd] = messages[jd]
          BY <3>1, <3>5, <4>1 DEF NoTwo
        <4>2. ASSUME NEW i \in 1 .. n, all[id].to = b[i], all[id].send = s,
                     jd \in DOMAIN messages, all[jd] = messages[jd]
              PROVE  FALSE
          BY <3>3, <3>5, <4>2
        <4>3. ASSUME NEW j \in 1 .. n, all[jd].to = b[j], all[jd].send = s,
                     id \in DOMAIN messages, all[id] = messages[id]
              PROVE  FALSE
          BY <3>3, <3>5, <4>3
        <4>4. ASSUME NEW i \in 1 .. n, id = Len(messages) + i, all[id].to = b[i],
                     NEW j \in 1 .. n, jd = Len(messages) + j, all[jd].to = b[j]
              PROVE  id = jd
          BY <3>4, <3>5, <4>4
        <4>5. \/ id \in DOMAIN messages /\ all[id] = messages[id]
              \/ \E i \in 1 .. n : /\ id = Len(messages) + i
                                   /\ all[id].to = b[i] /\ all[id].send = s
          BY <2>5, <3>5
        <4>6. \/ jd \in DOMAIN messages /\ all[jd] = messages[jd]
              \/ \E j \in 1 .. n : /\ jd = Len(messages) + j
                                   /\ all[jd].to = b[j] /\ all[jd].send = s
          BY <2>5, <3>5
        <4> QED
          BY <4>1, <4>2, <4>3, <4>4, <4>5, <4>6
      <3> QED
        BY <3>2, <3>5 DEF NoTwo
    <2>11. ListOnce(back)
      BY <1>1, <2>1 DEF ListOnce
    <2>12. bells' = bells /\ bells \in SUBSET [to : Users, send : SendIds]
      BY <1>2 DEF OnceInv
    <2> QED
      BY <1>9, <2>8, <2>9, <2>10, <2>11, <2>12, RowStep DEF r
  <1> QED
    BY <1>2, <1>8, <1>9

LEMMA CreateNotificationsOnce ==
    ASSUME SupportBroadcastConstants, CastInv, OnceInv, NEW s \in SendIds,
           CreateNotifications(s)
    PROVE  OnceInv'
  <1> DEFINE r == sends[s]
             b == BatchOf(r)
             n == Len(b)
             d == r.done
             rung == bells \cup [to : ToSet(b), send : {s}]
             q == [r EXCEPT !.done = d + n, !.count = @ + n,
                            !.step = IF d + n = Len(r.recipients) THEN "ok" ELSE "rows"]
             lost == [r EXCEPT !.step = "failed"]
  <1>1. /\ r \in SendRow /\ RequestInv(r, s, Active, messages, bells)
        /\ ListOnce(r) /\ RowsInv(r, s, messages, bells)
    BY RequestIs DEF OnceInv
  <1>2. /\ r.step = "rows" /\ messages' = messages
        /\ \/ bells' = rung /\ sends' = [sends EXCEPT ![s] = q]
           \/ bells' = bells /\ sends' = [sends EXCEPT ![s] = lost]
    BY DEF CreateNotifications, InStep, Proceed
  <1>3. r.done < Len(r.recipients)
    BY <1>1, <1>2 DEF RequestInv, ListInv
  <1>4. /\ b \in Seq(Users) /\ n \in Nat /\ DOMAIN b = 1 .. n
        /\ \A i \in 1 .. n : b[i] = r.recipients[d + i]
    BY <1>1, <1>3, BatchFacts
  <1>5. d \in Nat
    BY <1>1 DEF SendRow
  <1>6. Upto(r) = d
    BY <1>2 DEF Upto
  <1>7. CASE bells' = bells /\ sends' = [sends EXCEPT ![s] = lost]
    <2>1. /\ lost.step = "failed" /\ lost.recipients = r.recipients
          /\ lost.chosen = r.chosen /\ lost.done = r.done
      BY <1>1 DEF SendRow
    <2> HIDE DEF lost
    <2>2. Upto(lost) = Upto(r)
      BY <1>2, <2>1 DEF Upto
    <2> QED
      BY <1>2, <1>7, <2>1, <2>2, SameListStep
  <1>8. CASE bells' = rung /\ sends' = [sends EXCEPT ![s] = q]
    <2>1. /\ q.step \in {"ok", "rows"} /\ q.recipients = r.recipients
          /\ q.chosen = r.chosen /\ q.done = d + n /\ q.kind = r.kind
      BY <1>1 DEF SendRow
    <2> HIDE DEF q
    <2>2. Upto(q) = d + n
      BY <2>1 DEF Upto
    <2>3. ListOnce(q)
      BY <1>1, <2>1 DEF ListOnce
    <2>4. \A u, t : [to |-> u, send |-> t] \in rung =>
             [to |-> u, send |-> t] \in bells \/ (t = s /\ u \in ToSet(b))
      OBVIOUS
    <2>5. rung \in SUBSET [to : Users, send : SendIds]
      <3>1. ToSet(b) \subseteq Users
        BY <1>4 DEF ToSet
      <3> QED
        BY <3>1 DEF OnceInv
    <2> HIDE DEF rung, b, n, r, d
    <2>6. \A i \in 1 .. n : d + i \in 1 .. (d + n)
      BY <1>4, <1>5
    <2>7. 1 .. d \subseteq 1 .. (d + n)
      BY <1>4, <1>5
    <2>8. RowsInv(q, s, messages, rung)
      <3>1. ASSUME NEW u \in Users, [to |-> u, send |-> s] \in rung
            PROVE  \E k \in 1 .. (d + n) : u = r.recipients[k]
        <4>1. CASE [to |-> u, send |-> s] \in bells
          <5>1. \E k \in 1 .. d : u = r.recipients[k]
            BY <1>1, <1>6, <4>1 DEF RowsInv
          <5> QED
            BY <2>7, <5>1
        <4>2. CASE u \in ToSet(b)
          <5>1. PICK i \in 1 .. n : u = b[i]
            BY <1>4, <4>2 DEF ToSet
          <5>2. u = r.recipients[d + i]
            BY <1>4, <5>1
          <5> QED
            BY <2>6, <5>2
        <4> QED
          BY <2>4, <3>1, <4>1, <4>2
      <3>2. \A id \in DOMAIN messages :
               messages[id].send = s => \E k \in 1 .. (d + n) : messages[id].to = r.recipients[k]
        BY <1>1, <1>6, <2>7 DEF RowsInv
      <3> QED
        BY <2>1, <2>2, <3>1, <3>2 DEF RowsInv
    <2>9. ASSUME NEW t \in SendIds \ {s} PROVE RowsInv(sends[t], t, messages, rung)
      <3>1. RowsInv(sends[t], t, messages, bells)
        BY DEF OnceInv
      <3> QED
        BY <2>4, <3>1 DEF RowsInv
    <2>10. NoTwo(messages, Len(sends))
      BY DEF OnceInv
    <2> QED
      BY <1>2, <1>8, <2>3, <2>5, <2>8, <2>9, <2>10, RowStep
  <1> QED
    BY <1>2, <1>7, <1>8

LEMMA OtherServerStepsOnce ==
    ASSUME SupportBroadcastConstants, CastInv, OnceInv, NEW s \in SendIds,
           ReadMaxId(s) \/ NotifyBatch(s) \/ TakeAnswer(s)
    PROVE  OnceInv'
  <1> DEFINE r == sends[s]
             n == Len(BatchOf(r))
  <1>1. r \in SendRow
    BY RequestIs
  <1>2. CASE ReadMaxId(s)
    <2> DEFINE q == [r EXCEPT !.maxId = Len(messages), !.step = "rows"]
    <2>1. /\ r.step = "max" /\ sends' = [sends EXCEPT ![s] = q]
          /\ UNCHANGED <<messages, bells>>
      BY <1>2 DEF ReadMaxId, InStep, Proceed
    <2>2. q.step = "rows" /\ q.recipients = r.recipients /\ q.chosen = r.chosen
          /\ q.done = r.done
      BY <1>1 DEF SendRow
    <2> HIDE DEF q
    <2>3. Upto(q) = Upto(r)
      BY <2>1, <2>2 DEF Upto
    <2> QED
      BY <2>1, <2>2, <2>3, SameListStep
  <1>3. CASE NotifyBatch(s)
    <2> DEFINE written == Cardinality(ReadBack(r))
               q == [r EXCEPT !.done = r.done + n, !.count = @ + written,
                              !.step = IF r.done + n = Len(r.recipients) THEN "ok" ELSE "max"]
    <2>1. /\ r.step = "back" /\ sends' = [sends EXCEPT ![s] = q]
          /\ UNCHANGED <<messages, bells>>
      BY <1>3 DEF NotifyBatch, InStep, Proceed
    <2>2. q.step \in {"ok", "max"} /\ q.recipients = r.recipients /\ q.chosen = r.chosen
          /\ q.done = r.done + n
      BY <1>1 DEF SendRow
    <2> HIDE DEF q
    <2>3. Upto(q) = Upto(r)
      BY <2>1, <2>2 DEF Upto
    <2> QED
      BY <2>1, <2>2, <2>3, SameListStep
  <1>4. CASE TakeAnswer(s)
    <2> DEFINE q == [r EXCEPT !.step = "taken"]
    <2>1. /\ r.step \in {"ok", "failed"} /\ sends' = [sends EXCEPT ![s] = q]
          /\ UNCHANGED <<messages, bells>>
      BY <1>4 DEF TakeAnswer
    <2>2. q.step = "taken" /\ q.recipients = r.recipients /\ q.chosen = r.chosen
          /\ q.done = r.done
      BY <1>1 DEF SendRow
    <2> HIDE DEF q
    <2>3. Upto(q) = Upto(r)
      BY <2>1, <2>2 DEF Upto
    <2> QED
      BY <2>1, <2>2, <2>3, SameListStep
  <1> QED
    BY <1>2, <1>3, <1>4

\* A request made has no rows yet.
LEMMA SubmitOnce ==
    ASSUME CastInv, OnceInv, NEW a, NEW kind, NEW chosen,
           sends' = Append(sends, NewSend(a, kind, chosen)), UNCHANGED <<messages, bells>>
    PROVE  OnceInv'
  <1> DEFINE q == NewSend(a, kind, chosen)
             n == Len(sends)
  <1>1. q.recipients = <<>> /\ q.step = "sent" /\ q.done = 0
    BY DEF NewSend
  <1> HIDE DEF q
  <1>2. /\ n \in Nat /\ Len(sends') = n + 1 /\ sends'[n + 1] = q
        /\ \A t \in 1 .. n : sends'[t] = sends[t]
    BY DEF CastInv, CastShape, q
  <1>3. ListOnce(q)
    BY <1>1 DEF ListOnce, Once, ToSet
  <1>4. messages \in Seq(MessageRow) /\ NoTwo(messages, n)
        /\ bells \in SUBSET [to : Users, send : 1 .. n]
    BY DEF CastInv, CastShape, OnceInv, SendIds
  <1> HIDE DEF n
  <1>5. \A id \in DOMAIN messages : messages[id].send \in Nat /\ messages[id].send <= n
    <2>1. \A id \in DOMAIN messages : messages[id] \in MessageRow
      BY <1>4
    <2> QED
      BY <1>4, <2>1 DEF NoTwo, MessageRow
  <1>6. RowsInv(q, n + 1, messages, bells)
    <2>1. \A id \in DOMAIN messages : messages[id].send # n + 1
      BY <1>2, <1>5
    <2>2. n + 1 \notin 1 .. n
      BY <1>2
    <2>3. \A u : [to |-> u, send |-> n + 1] \notin bells
      BY <1>4, <2>2
    <2> QED
      BY <2>1, <2>3 DEF RowsInv
  <1>7. \A t \in 1 .. n : ListOnce(sends[t]) /\ RowsInv(sends[t], t, messages, bells)
    BY DEF OnceInv, SendIds, n
  <1>8. SendIds' = 1 .. (n + 1) /\ \A t \in 1 .. (n + 1) : t \in 1 .. n \/ t = n + 1
    BY <1>2 DEF SendIds
  <1>9. \A t \in SendIds' : ListOnce(sends'[t]) /\ RowsInv(sends'[t], t, messages, bells)
    BY <1>2, <1>3, <1>6, <1>7, <1>8
  <1>10. NoTwo(messages, n + 1)
    <2>1. \A id \in DOMAIN messages : messages[id].send <= n + 1
      BY <1>2, <1>5
    <2> QED
      BY <1>4, <2>1 DEF NoTwo
  <1>11. bells \in SUBSET [to : Users, send : 1 .. (n + 1)]
    <2>1. 1 .. n \subseteq 1 .. (n + 1)
      BY <1>2
    <2> QED
      BY <1>4, <2>1
  <1> QED
    BY <1>2, <1>8, <1>9, <1>10, <1>11 DEF OnceInv

\* A message to one user is no request's.
LEMMA SendDirectOnce ==
    ASSUME CastInv, OnceInv, NEW a \in Admins, NEW u \in Members, SendDirect(a, u)
    PROVE  OnceInv'
  <1> DEFINE m == [from |-> a, to |-> u, send |-> 0]
             n == Len(messages)
             all == Append(messages, m)
  <1>1. messages' = all /\ UNCHANGED <<bells, sends>>
    BY DEF SendDirect
  <1>2. messages \in Seq(MessageRow) /\ m \in MessageRow /\ Len(sends) \in Nat
    BY LenProperties DEF CastInv, CastShape, MessageRow, Members
  <1>3. /\ n \in Nat /\ DOMAIN messages = 1 .. n /\ DOMAIN all = 1 .. (n + 1)
        /\ \A id \in 1 .. n : all[id] = messages[id]
        /\ all[n + 1] = m
    BY <1>2
  <1>4. m.send = 0
    OBVIOUS
  <1> HIDE DEF m, n, all
  <1>5. \A id \in DOMAIN all :
           \/ id \in DOMAIN messages /\ all[id] = messages[id]
           \/ all[id].send = 0
    BY <1>3, <1>4
  <1>6. ASSUME NEW t \in SendIds PROVE RowsInv(sends[t], t, all, bells)
    <2>1. RowsInv(sends[t], t, messages, bells) /\ t # 0
      BY DEF OnceInv, SendIds
    <2> QED
      BY <1>5, <2>1 DEF RowsInv
  <1>7. NoTwo(all, Len(sends))
    <2>1. NoTwo(messages, Len(sends))
      BY DEF OnceInv
    <2>2. \A id \in DOMAIN all : all[id].send <= Len(sends)
      BY <1>2, <1>5, <2>1 DEF NoTwo
    <2> QED
      BY <1>5, <2>1, <2>2 DEF NoTwo
  <1>8. SendIds' = SendIds
    BY <1>1 DEF SendIds
  <1> QED
    BY <1>1, <1>6, <1>7, <1>8 DEF OnceInv

\* Who leaves leaves the lists as they are.
LEMMA UserLeavesOnce ==
    ASSUME CastInv, OnceInv, NEW u \in Members, NEW to \in Changes, UserLeaves(u, to)
    PROVE  OnceInv'
  <1> DEFINE Left(r) == IF r.step \in {"ok", "failed", "taken"} THEN r
                        ELSE [r EXCEPT !.stayed = @ \ {u}]
  <1>1. sends' = [t \in SendIds |-> Left(sends[t])] /\ UNCHANGED <<messages, bells>>
    BY DEF UserLeaves
  <1>2. ASSUME NEW r \in SendRow
        PROVE  /\ Left(r).kind = r.kind /\ Left(r).chosen = r.chosen
               /\ Left(r).step = r.step /\ Left(r).done = r.done
               /\ Left(r).recipients = r.recipients /\ Left(r).cursor = r.cursor
    BY DEF SendRow
  <1>3. Len(sends) \in Nat
    BY LenProperties DEF CastInv, CastShape
  <1>4. Len(sends') = Len(sends) /\ SendIds' = SendIds
    BY <1>1, <1>3 DEF SendIds
  <1> HIDE DEF Left
  <1>5. ASSUME NEW t \in SendIds
        PROVE  ListOnce(sends'[t]) /\ RowsInv(sends'[t], t, messages, bells)
    <2> DEFINE r == sends[t]
               q == Left(r)
    <2>1. r \in SendRow /\ ListOnce(r) /\ RowsInv(r, t, messages, bells)
      BY RequestIs DEF OnceInv
    <2>2. /\ q.kind = r.kind /\ q.chosen = r.chosen /\ q.step = r.step
          /\ q.done = r.done /\ q.recipients = r.recipients /\ q.cursor = r.cursor
      BY <1>2, <2>1
    <2> HIDE DEF q
    <2>3. Upto(q) = Upto(r)
      BY <2>2 DEF Upto, BatchOf
    <2>4. ListOnce(q) /\ RowsInv(q, t, messages, bells)
      BY <2>1, <2>2, <2>3 DEF ListOnce, RowsInv
    <2> QED
      BY <1>1, <2>4 DEF q
  <1> QED
    BY <1>1, <1>4, <1>5 DEF OnceInv

LEMMA OnceStart == ASSUME CastInit PROVE OnceInv
  BY DEF CastInit, OnceInv, NoTwo, SendIds

LEMMA OnceStep ==
    ASSUME SupportBroadcastConstants, CastInv, OnceInv, [CastNext]_castVars
    PROVE  OnceInv'
  <1>1. CASE \E a \in Admins : DeskStep(a)
    <2>1. PICK a \in Admins : DeskStep(a)
      BY <1>1
    <2>2. CASE HandleSendBulkMessage(a)
      <3> DEFINE chosen == IF desk[a].dialog = "all" THEN Members ELSE desk[a].selected
      <3>1. /\ sends' = Append(sends, NewSend(a, "bulk", chosen))
            /\ UNCHANGED <<messages, bells>>
        BY <2>2 DEF HandleSendBulkMessage, Submit
      <3> HIDE DEF chosen
      <3> QED
        BY <3>1, SubmitOnce
    <2>3. CASE UNCHANGED <<messages, bells, sends>>
      BY <2>3 DEF OnceInv, SendIds
    <2> QED
      BY <2>1, <2>2, <2>3
        DEF DeskStep, ToggleUserSelection, ToggleSelectAllUsers, OpenBulkMessage,
            CloseBulkMessage, OnDesk
  <1>2. CASE \E a \in Admins, kind \in {"inbox", "bell"} : HandleBroadcast(a, kind)
    BY <1>2, SubmitOnce DEF HandleBroadcast, Submit
  <1>3. CASE \E s \in SendIds : ServerStep(s) \/ TakeAnswer(s)
    BY <1>3, ReadRecipientsOnce, ReadPageOnce, CreateMessagesOnce, CreateNotificationsOnce,
       OtherServerStepsOnce DEF ServerStep
  <1>4. CASE \E a \in Admins, u \in Members : SendDirect(a, u)
    BY <1>4, SendDirectOnce
  <1>5. CASE \E u \in Members, to \in Changes : UserLeaves(u, to)
    BY <1>5, UserLeavesOnce
  <1>6. CASE UNCHANGED castVars
    BY <1>6 DEF castVars, OnceInv, SendIds
  <1> QED
    BY <1>1, <1>2, <1>3, <1>4, <1>5, <1>6 DEF CastNext

\* A request writes to each user at most once and only to users it was for
\* (sendAdminMessageToUsers works off a list in which nobody stands twice),
\* whoever leaves meanwhile and whatever else is sent: page after page lies
\* beyond the cursor, and batch after batch beyond the position reached.
THEOREM OneRowForEach ==
    ASSUME SupportBroadcastConstants
    PROVE  CastSpec => []OneRowEach
  <1>1. CastInit => OnceInv
    BY OnceStart
  <1>2. CastInv /\ OnceInv /\ [CastNext]_castVars => OnceInv'
    BY OnceStep
  <1>3. CastInv /\ OnceInv => OneRowEach
    <2> SUFFICES ASSUME CastInv, OnceInv, NEW s \in SendIds, NEW u \in Users
                 PROVE  /\ Cardinality(RowsOf(s, u)) <= 1
                        /\ Got(s, u) => u \in sends[s].chosen
      BY DEF OneRowEach
    <2> DEFINE r == sends[s]
    <2>1. r \in SendRow /\ ListInv(r, Active) /\ ListOnce(r) /\ RowsInv(r, s, messages, bells)
          /\ s # 0
      BY RequestIs DEF OnceInv, RequestInv
    <2>2. Cardinality(RowsOf(s, u)) <= 1
      <3>1. \A id, jd \in RowsOf(s, u) : id = jd
        BY <2>1 DEF RowsOf, OnceInv, NoTwo
      <3>2. CASE RowsOf(s, u) = {}
        <4>1. Cardinality(RowsOf(s, u)) = 0
          BY <3>2, FS_EmptySet
        <4> QED
          BY <4>1
      <3>3. CASE RowsOf(s, u) # {}
        <4>1. PICK id : RowsOf(s, u) = {id}
          BY <3>1, <3>3
        <4>2. Cardinality(RowsOf(s, u)) = 1
          BY <4>1, FS_Singleton
        <4> QED
          BY <4>2
      <3> QED
        BY <3>2, <3>3
    <2>3. ASSUME Got(s, u) PROVE u \in r.chosen
      <3>1. PICK i \in 1 .. Upto(r) : u = r.recipients[i]
        BY <2>1, <2>3 DEF RowsInv, Got, RowsOf
      <3>2. Upto(r) <= Len(r.recipients) /\ Upto(r) \in Nat
        <4>1. CASE r.step = "back"
          <5>1. r.done < Len(r.recipients)
            BY <2>1, <4>1 DEF ListInv
          <5>2. /\ Len(BatchOf(r)) \in Nat /\ r.done \in Nat
                /\ r.done + Len(BatchOf(r)) <= Len(r.recipients)
            BY <2>1, <5>1, BatchFacts DEF SendRow
          <5> QED
            BY <4>1, <5>2 DEF Upto
        <4>2. CASE r.step # "back"
          BY <2>1, <4>2 DEF Upto, ListInv, SendRow
        <4> QED
          BY <4>1, <4>2
      <3>3. i \in DOMAIN r.recipients
        <4>1. DOMAIN r.recipients = 1 .. Len(r.recipients) /\ Len(r.recipients) \in Nat
          BY <2>1, LenProperties DEF SendRow
        <4> QED
          BY <3>2, <4>1
      <3>4. u \in ToSet(r.recipients)
        BY <3>1, <3>3 DEF ToSet
      <3> QED
        BY <2>1, <3>4 DEF ListOnce
    <2> QED
      BY <2>2, <2>3
  <1> QED
    BY <1>1, <1>2, <1>3, CastInvariance, PTL DEF CastSpec

-----------------------------------------------------------------------------
(* Told once.                                                              *)

\* An administrator who awaits each answer, and sends no single messages.
OnlyOneOnItsWay == SupportBroadcastConstants /\ OneAtATime /\ MaxDirect = 0

\* The ids beyond the largest that request r has read are, among the messages
\* of its administrator, those it inserted itself, and nobody was told of them.
WindowInv(r, msgs, t) ==
    /\ r.step = "rows" /\ r.kind # "bell" =>
          \A id \in DOMAIN msgs : id > r.maxId => msgs[id].from # r.admin
    /\ r.step = "back" =>
          \A id \in DOMAIN msgs : id > r.maxId /\ msgs[id].from = r.admin => t[id] = 0

ToldInv ==
    /\ told \in [DOMAIN messages -> {0, 1}]
    /\ \A s, t \in SendIds :
          /\ sends[s].admin = sends[t].admin
          /\ sends[s].step # "taken" /\ sends[t].step # "taken"
          => s = t
    /\ \A s \in SendIds : WindowInv(sends[s], messages, told)

\* A step of one request, by its administrator, that still awaits the answer.
LEMMA WindowStep ==
    ASSUME CastInv, ToldInv, NEW s \in SendIds, NEW r,
           sends' = [sends EXCEPT ![s] = r], r.admin = sends[s].admin,
           sends[s].step # "taken",
           told' \in [DOMAIN messages' -> {0, 1}],
           WindowInv(r, messages', told'),
           \A t \in SendIds \ {s} :
              sends[t].admin # r.admin \/ sends[t].step = "taken" =>
                 WindowInv(sends[t], messages', told')
    PROVE  ToldInv'
  <1>1. /\ Len(sends') = Len(sends) /\ sends'[s] = r
        /\ \A t \in SendIds \ {s} : sends'[t] = sends[t]
    BY DEF CastInv, CastShape, SendIds
  <1>2. SendIds' = SendIds
    BY <1>1 DEF SendIds
  <1>3. \A t \in SendIds \ {s} : sends[t].admin # r.admin \/ sends[t].step = "taken"
    BY DEF ToldInv
  <1>4. \A t \in SendIds : WindowInv(sends'[t], messages', told')
    BY <1>1, <1>3
  <1>5. ASSUME NEW t \in SendIds, NEW u \in SendIds, sends'[t].admin = sends'[u].admin,
               sends'[t].step # "taken", sends'[u].step # "taken"
        PROVE  t = u
    BY <1>1, <1>3, <1>5 DEF ToldInv
  <1> QED
    BY <1>2, <1>4, <1>5 DEF ToldInv

\* A step that leaves the messages and who was told of them.
LEMMA QuietStep ==
    ASSUME CastInv, ToldInv, NEW s \in SendIds, NEW r,
           sends' = [sends EXCEPT ![s] = r], r.admin = sends[s].admin,
           sends[s].step # "taken", UNCHANGED <<messages, told>>,
           WindowInv(r, messages, told)
    PROVE  ToldInv'
  <1>1. /\ \A t \in SendIds \ {s} : WindowInv(sends[t], messages, told)
        /\ told \in [DOMAIN messages -> {0, 1}]
    BY DEF ToldInv
  <1> QED
    BY <1>1, WindowStep

LEMMA ReadingTold ==
    ASSUME SupportBroadcastConstants, CastInv, ToldInv, NEW s \in SendIds,
           ReadRecipients(s) \/ ReadPage(s) \/ ReadMaxId(s) \/ TakeAnswer(s)
    PROVE  ToldInv'
  <1> DEFINE r == sends[s]
  <1>1. r \in SendRow
    BY RequestIs
  <1>2. CASE ReadRecipients(s)
    <2> DEFINE found == Sorted(BulkRecipients(r))
               q == [r EXCEPT !.recipients = found,
                              !.step = IF found = <<>> THEN "ok" ELSE "max"]
    <2>1. /\ r.step = "sent" /\ sends' = [sends EXCEPT ![s] = q]
          /\ UNCHANGED <<messages, told>>
      BY <1>2 DEF ReadRecipients, InStep, Proceed
    <2>2. q.step \in {"ok", "max"} /\ q.admin = r.admin
      BY <1>1 DEF SendRow
    <2> HIDE DEF q
    <2>3. WindowInv(q, messages, told)
      BY <2>2 DEF WindowInv
    <2> QED
      BY <2>1, <2>2, <2>3, QuietStep
  <1>3. CASE ReadPage(s)
    <2> DEFINE page == NextPage(r)
               next == IF r.recipients = <<>> THEN "ok"
                       ELSE IF r.kind = "inbox" THEN "max" ELSE "rows"
               end == [r EXCEPT !.step = next]
               on == [r EXCEPT !.cursor = Max(page), !.recipients = @ \o Sorted(page)]
               q == IF page = {} THEN end ELSE on
    <2>1. /\ r.step = "sent" /\ r.kind # "bulk" /\ sends' = [sends EXCEPT ![s] = q]
          /\ UNCHANGED <<messages, told>>
      BY <1>3 DEF ReadPage, InStep, Proceed
    <2>2. r.kind \in {"inbox", "bell"}
      BY <1>1, <2>1 DEF SendRow, SupportBroadcastConstants
    <2>3. /\ end.admin = r.admin /\ end.kind = r.kind /\ end.step = next
          /\ on.admin = r.admin /\ on.step = r.step
      BY <1>1 DEF SendRow
    <2> HIDE DEF end, on, page
    <2>4. q.admin = r.admin /\ WindowInv(q, messages, told)
      <3>1. WindowInv(end, messages, told)
        BY <2>2, <2>3 DEF WindowInv
      <3>2. WindowInv(on, messages, told)
        BY <2>1, <2>3 DEF WindowInv
      <3> QED
        BY <2>3, <3>1, <3>2
    <2> HIDE DEF q
    <2> QED
      BY <2>1, <2>4, QuietStep
  <1>4. CASE ReadMaxId(s)
    <2> DEFINE q == [r EXCEPT !.maxId = Len(messages), !.step = "rows"]
    <2>1. /\ r.step = "max" /\ sends' = [sends EXCEPT ![s] = q]
          /\ UNCHANGED <<messages, told>>
      BY <1>4 DEF ReadMaxId, InStep, Proceed
    <2>2. q.step = "rows" /\ q.admin = r.admin /\ q.maxId = Len(messages)
      BY <1>1 DEF SendRow
    <2> HIDE DEF q
    <2>3. DOMAIN messages = 1 .. Len(messages) /\ Len(messages) \in Nat
      BY LenProperties DEF CastInv, CastShape
    <2>4. \A id \in DOMAIN messages : ~(id > q.maxId)
      BY <2>2, <2>3
    <2>5. WindowInv(q, messages, told)
      BY <2>2, <2>4 DEF WindowInv
    <2> QED
      BY <2>1, <2>2, <2>5, QuietStep
  <1>5. CASE TakeAnswer(s)
    <2> DEFINE q == [r EXCEPT !.step = "taken"]
    <2>1. /\ r.step \in {"ok", "failed"} /\ sends' = [sends EXCEPT ![s] = q]
          /\ UNCHANGED <<messages, told>>
      BY <1>5 DEF TakeAnswer
    <2>2. q.step = "taken" /\ q.admin = r.admin
      BY <1>1 DEF SendRow
    <2> HIDE DEF q
    <2>3. WindowInv(q, messages, told)
      BY <2>2 DEF WindowInv
    <2> QED
      BY <2>1, <2>2, <2>3, QuietStep
  <1> QED
    BY <1>2, <1>3, <1>4, <1>5

LEMMA CreateNotificationsTold ==
    ASSUME CastInv, ToldInv, NEW s \in SendIds, CreateNotifications(s)
    PROVE  ToldInv'
  <1> DEFINE r == sends[s]
             n == Len(BatchOf(r))
             q == [r EXCEPT !.done = r.done + n, !.count = @ + n,
                            !.step = IF r.done + n = Len(r.recipients) THEN "ok" ELSE "rows"]
             lost == [r EXCEPT !.step = "failed"]
  <1>1. r \in SendRow
    BY RequestIs
  <1>2. /\ r.step = "rows" /\ r.kind = "bell" /\ UNCHANGED <<messages, told>>
        /\ sends' = [sends EXCEPT ![s] = q] \/ sends' = [sends EXCEPT ![s] = lost]
    BY DEF CreateNotifications, InStep, Proceed
  <1>3. /\ q.step \in {"ok", "rows"} /\ q.kind = r.kind /\ q.admin = r.admin
        /\ lost.step = "failed" /\ lost.admin = r.admin
    BY <1>1 DEF SendRow
  <1> HIDE DEF q, lost
  <1>4. WindowInv(q, messages, told) /\ WindowInv(lost, messages, told)
    BY <1>2, <1>3 DEF WindowInv
  <1> QED
    BY <1>2, <1>3, <1>4, QuietStep

LEMMA CreateMessagesTold ==
    ASSUME SupportBroadcastConstants, CastInv, ToldInv, NEW s \in SendIds, CreateMessages(s)
    PROVE  ToldInv'
  <1> DEFINE r == sends[s]
             b == BatchOf(r)
             n == Len(b)
             rows == [i \in DOMAIN b |-> [from |-> r.admin, to |-> b[i], send |-> s]]
             none == [i \in DOMAIN rows |-> 0]
             back == [r EXCEPT !.step = "back"]
             lost == [r EXCEPT !.step = "failed"]
             all == messages \o rows
             m == Len(messages)
  <1>1. r \in SendRow /\ RequestInv(r, s, Active, messages, bells) /\ s \in Nat
    BY RequestIs
  <1>2. /\ r.step = "rows" /\ r.kind # "bell"
        /\ \/ messages' = all /\ told' = told \o none /\ sends' = [sends EXCEPT ![s] = back]
           \/ UNCHANGED <<messages, told>> /\ sends' = [sends EXCEPT ![s] = lost]
    BY DEF CreateMessages, InStep, Proceed
  <1>3. messages \in Seq(MessageRow) /\ m \in Nat /\ DOMAIN messages = 1 .. m
    BY LenProperties DEF CastInv, CastShape
  <1>4. b \in Seq(Users) /\ n \in Nat /\ DOMAIN b = 1 .. n
    <2>1. r.done < Len(r.recipients)
      BY <1>1, <1>2 DEF RequestInv, ListInv
    <2> QED
      BY <1>1, <2>1, BatchFacts
  <1>5. CASE UNCHANGED <<messages, told>> /\ sends' = [sends EXCEPT ![s] = lost]
    <2>1. lost.step = "failed" /\ lost.admin = r.admin
      BY <1>1 DEF SendRow
    <2> HIDE DEF lost
    <2>2. WindowInv(lost, messages, told)
      BY <2>1 DEF WindowInv
    <2> QED
      BY <1>2, <1>5, <2>1, <2>2, QuietStep
  <1>6. CASE messages' = all /\ told' = told \o none /\ sends' = [sends EXCEPT ![s] = back]
    <2>1. /\ back.step = "back" /\ back.admin = r.admin /\ back.maxId = r.maxId
      BY <1>1 DEF SendRow
    <2> HIDE DEF back
    <2>2. rows \in Seq(MessageRow) /\ Len(rows) = n /\ \A i \in 1 .. n : rows[i].from = r.admin
      <3> DEFINE Row(i) == [from |-> r.admin, to |-> b[i], send |-> s]
      <3>1. rows = [i \in 1 .. n |-> Row(i)]
        BY <1>4
      <3>2. \A i \in 1 .. n : Row(i).from = r.admin
        OBVIOUS
      <3>3. \A i \in 1 .. n : Row(i) \in MessageRow
        <4>1. r.admin \in Admins /\ \A i \in 1 .. n : b[i] \in Users
          BY <1>1, <1>4 DEF SendRow
        <4> QED
          BY <1>1, <4>1 DEF MessageRow
      <3> HIDE DEF rows, b, r, Row, n
      <3> QED
        BY <1>4, <3>1, <3>2, <3>3
    <2>3. DOMAIN rows = 1 .. n
      BY <2>2, LenProperties
    <2>4. none \in Seq({0, 1}) /\ Len(none) = n /\ \A i \in 1 .. n : none[i] = 0
      <3> HIDE DEF rows, n
      <3>1. none = [i \in 1 .. n |-> 0] /\ n \in Nat
        BY <1>4, <2>3 DEF n
      <3> HIDE DEF none
      <3> QED
        BY <3>1
    <2>5. told \in Seq({0, 1}) /\ Len(told) = m
      <3>1. told \in [1 .. m -> {0, 1}]
        BY <1>3 DEF ToldInv
      <3> QED
        BY <1>3, <3>1
    <2> DEFINE both == told \o none
    <2> HIDE DEF rows, none, b, n, r
    <2>6. /\ all \in Seq(MessageRow) /\ DOMAIN all = 1 .. (m + n)
          /\ \A i \in 1 .. (m + n) :
                all[i] = IF i <= m THEN messages[i] ELSE rows[i - m]
      BY <1>3, <2>2, JoinFacts
    <2>7. /\ both \in Seq({0, 1}) /\ DOMAIN both = 1 .. (m + n)
          /\ \A i \in 1 .. (m + n) : both[i] = IF i <= m THEN told[i] ELSE none[i - m]
      <3>1. told \in Seq({0, 1}) /\ none \in Seq({0, 1})
        BY <2>4, <2>5
      <3> HIDE DEF m
      <3>2. /\ both \in Seq({0, 1})
            /\ DOMAIN both = 1 .. (Len(told) + Len(none))
            /\ \A i \in 1 .. (Len(told) + Len(none)) :
                  both[i] = IF i <= Len(told) THEN told[i] ELSE none[i - Len(told)]
        BY ONLY <3>1, JoinFacts
      <3> QED
        BY <2>4, <2>5, <3>2
    <2> HIDE DEF all, both, m
    <2>8. ASSUME NEW id, id \in DOMAIN all
          PROVE  \/ id \in DOMAIN messages /\ all[id] = messages[id] /\ both[id] = told[id]
                 \/ all[id].from = r.admin /\ both[id] = 0
      <3>1. CASE id <= m
        BY <1>3, <1>4, <2>6, <2>7, <2>8, <3>1
      <3>2. CASE ~(id <= m)
        <4>1. id - m \in 1 .. n /\ all[id] = rows[id - m] /\ both[id] = none[id - m]
          BY <1>3, <1>4, <2>6, <2>7, <2>8, <3>2
        <4> QED
          BY <2>2, <2>4, <4>1
      <3> QED
        BY <3>1, <3>2
    <2>9. both \in [DOMAIN all -> {0, 1}]
      BY <2>6, <2>7, LenProperties
    <2>10. WindowInv(back, all, both)
      <3>1. \A id \in DOMAIN messages : id > r.maxId => messages[id].from # r.admin
        BY <1>2 DEF ToldInv, WindowInv, r
      <3> QED
        BY <2>1, <2>8, <3>1 DEF WindowInv
    <2>11. ASSUME NEW t \in SendIds \ {s}, sends[t].admin # back.admin \/ sends[t].step = "taken"
           PROVE  WindowInv(sends[t], all, both)
      <3>1. WindowInv(sends[t], messages, told)
        BY DEF ToldInv
      <3> QED
        BY <2>1, <2>8, <2>11, <3>1 DEF WindowInv
    <2>12. messages' = all /\ told' = both /\ sends' = [sends EXCEPT ![s] = back]
      BY <1>6 DEF both
    <2>13. back.admin = sends[s].admin /\ sends[s].step # "taken"
      BY <1>2, <2>1 DEF r
    <2> QED
      BY <2>9, <2>10, <2>11, <2>12, <2>13, WindowStep
  <1> QED
    BY <1>2, <1>5, <1>6

LEMMA NotifyBatchTold ==
    ASSUME CastInv, ToldInv, NEW s \in SendIds, NotifyBatch(s)
    PROVE  ToldInv'
  <1> DEFINE r == sends[s]
             n == Len(BatchOf(r))
             found == ReadBack(r)
             written == Cardinality(found)
             now == [id \in DOMAIN told |-> told[id] + IF id \in found THEN 1 ELSE 0]
             q == [r EXCEPT !.done = r.done + n, !.count = @ + written,
                            !.step = IF r.done + n = Len(r.recipients) THEN "ok" ELSE "max"]
  <1>1. r \in SendRow
    BY RequestIs
  <1>2. /\ r.step = "back" /\ sends' = [sends EXCEPT ![s] = q]
        /\ told' = now /\ messages' = messages
    BY DEF NotifyBatch, InStep, Proceed
  <1>3. q.step \in {"ok", "max"} /\ q.admin = r.admin
    BY <1>1 DEF SendRow
  <1> HIDE DEF q
  <1>4. \A id \in found : id \in DOMAIN messages /\ messages[id].from = r.admin /\ told[id] = 0
    <2>1. \A id \in found : id \in DOMAIN messages /\ id > r.maxId /\ messages[id].from = r.admin
      BY DEF ReadBack
    <2> QED
      BY <1>2, <2>1 DEF ToldInv, WindowInv
  <1>5. told \in [DOMAIN messages -> {0, 1}]
    BY DEF ToldInv
  <1> HIDE DEF found
  <1>6. /\ now \in [DOMAIN messages -> {0, 1}]
        /\ \A id \in DOMAIN messages : messages[id].from # r.admin => now[id] = told[id]
    <2>1. ASSUME NEW id \in DOMAIN messages
          PROVE  now[id] \in {0, 1} /\ (messages[id].from # r.admin => now[id] = told[id])
      <3>1. CASE id \in found
        <4>1. now[id] = told[id] + 1 /\ told[id] = 0 /\ messages[id].from = r.admin
          BY <1>4, <1>5, <3>1
        <4> QED
          BY <4>1
      <3>2. CASE id \notin found
        <4>1. now[id] = told[id] + 0 /\ told[id] \in {0, 1}
          BY <1>5, <3>2
        <4> QED
          BY <4>1
      <3> QED
        BY <3>1, <3>2
    <2>2. DOMAIN now = DOMAIN messages /\ now = [id \in DOMAIN now |-> now[id]]
      BY <1>5
    <2> HIDE DEF now
    <2> QED
      BY <2>1, <2>2
  <1> HIDE DEF now
  <1>7. WindowInv(q, messages, now)
    BY <1>3 DEF WindowInv
  <1>8. ASSUME NEW t \in SendIds \ {s}, sends[t].admin # q.admin \/ sends[t].step = "taken"
        PROVE  WindowInv(sends[t], messages, now)
    <2>1. WindowInv(sends[t], messages, told)
      BY DEF ToldInv
    <2> QED
      BY <1>3, <1>6, <1>8, <2>1 DEF WindowInv
  <1> QED
    BY <1>2, <1>3, <1>6, <1>7, <1>8, WindowStep

\* The administrator had no request on its way.
LEMMA SubmitTold ==
    ASSUME CastInv, ToldInv, NEW a, NEW kind, NEW chosen, Idle(a),
           sends' = Append(sends, NewSend(a, kind, chosen)), UNCHANGED <<messages, told>>
    PROVE  ToldInv'
  <1> DEFINE q == NewSend(a, kind, chosen)
             n == Len(sends)
  <1>1. q.admin = a /\ q.step = "sent"
    BY DEF NewSend
  <1> HIDE DEF q
  <1>2. /\ n \in Nat /\ Len(sends') = n + 1 /\ sends'[n + 1] = q
        /\ \A t \in 1 .. n : sends'[t] = sends[t]
    BY DEF CastInv, CastShape, q
  <1>3. \A t \in 1 .. n : sends[t].admin = a => sends[t].step = "taken"
    BY DEF Idle, SendIds
  <1>4. SendIds' = 1 .. (n + 1) /\ \A t \in 1 .. (n + 1) : t \in 1 .. n \/ t = n + 1
    BY <1>2 DEF SendIds
  <1>5. WindowInv(q, messages, told)
    BY <1>1 DEF WindowInv
  <1>6. \A t \in 1 .. n : WindowInv(sends[t], messages, told)
    BY DEF ToldInv, SendIds
  <1>7. ASSUME NEW t \in 1 .. n, NEW u \in 1 .. n, sends[t].admin = sends[u].admin,
               sends[t].step # "taken", sends[u].step # "taken"
        PROVE  t = u
    BY <1>7 DEF ToldInv, SendIds
  <1> HIDE DEF n
  <1>8. \A t \in SendIds' : WindowInv(sends'[t], messages, told)
    BY <1>2, <1>4, <1>5, <1>6
  <1>9. ASSUME NEW t \in SendIds', NEW u \in SendIds', sends'[t].admin = sends'[u].admin,
               sends'[t].step # "taken", sends'[u].step # "taken"
        PROVE  t = u
    <2>1. CASE t \in 1 .. n /\ u \in 1 .. n
      BY <1>2, <1>7, <1>9, <2>1
    <2>2. CASE t = n + 1 /\ u \in 1 .. n
      BY <1>1, <1>2, <1>3, <1>9, <2>2
    <2>3. CASE t \in 1 .. n /\ u = n + 1
      BY <1>1, <1>2, <1>3, <1>9, <2>3
    <2> QED
      BY <1>4, <2>1, <2>2, <2>3
  <1>10. told \in [DOMAIN messages -> {0, 1}]
    BY DEF ToldInv
  <1> QED
    BY <1>8, <1>9, <1>10 DEF ToldInv

LEMMA UserLeavesTold ==
    ASSUME CastInv, ToldInv, NEW u \in Members, NEW to \in Changes, UserLeaves(u, to)
    PROVE  ToldInv'
  <1> DEFINE Left(r) == IF r.step \in {"ok", "failed", "taken"} THEN r
                        ELSE [r EXCEPT !.stayed = @ \ {u}]
  <1>1. sends' = [t \in SendIds |-> Left(sends[t])] /\ UNCHANGED <<messages, told>>
    BY DEF UserLeaves
  <1>2. ASSUME NEW r \in SendRow
        PROVE  /\ Left(r).kind = r.kind /\ Left(r).admin = r.admin
               /\ Left(r).step = r.step /\ Left(r).maxId = r.maxId
    BY DEF SendRow
  <1>3. Len(sends) \in Nat
    BY LenProperties DEF CastInv, CastShape
  <1>4. SendIds' = SendIds
    BY <1>1, <1>3 DEF SendIds
  <1> HIDE DEF Left
  <1>5. ASSUME NEW t \in SendIds
        PROVE  /\ sends'[t].admin = sends[t].admin /\ sends'[t].step = sends[t].step
               /\ WindowInv(sends'[t], messages, told)
    <2>1. sends[t] \in SendRow /\ WindowInv(sends[t], messages, told)
      BY RequestIs DEF ToldInv
    <2> QED
      BY <1>1, <1>2, <2>1 DEF WindowInv
  <1> QED
    BY <1>1, <1>4, <1>5 DEF ToldInv

\* No single message is sent.
LEMMA NoDirect ==
    ASSUME OnlyOneOnItsWay, CastInv, NEW a, NEW u, SendDirect(a, u)
    PROVE  FALSE
  <1> DEFINE S == {id \in DOMAIN messages : messages[id].send = 0}
  <1>1. DOMAIN messages = 1 .. Len(messages) /\ Len(messages) \in Nat
    BY LenProperties DEF CastInv, CastShape
  <1>2. IsFiniteSet(DOMAIN messages)
    BY <1>1, FS_Interval
  <1>3. S \in SUBSET DOMAIN messages
    OBVIOUS
  <1>4. Cardinality(S) < 0
    BY DEF SendDirect, OnlyOneOnItsWay
  <1> HIDE DEF S
  <1>5. Cardinality(S) \in Nat
    BY <1>2, <1>3, FS_Subset, FS_CardinalityType
  <1> QED
    BY <1>4, <1>5

LEMMA ToldStart == ASSUME CastInit PROVE ToldInv
  BY DEF CastInit, ToldInv, SendIds

LEMMA ToldStep ==
    ASSUME OnlyOneOnItsWay, CastInv, ToldInv, [CastNext]_castVars
    PROVE  ToldInv'
  <1>0. SupportBroadcastConstants /\ OneAtATime
    BY DEF OnlyOneOnItsWay
  <1>1. CASE \E a \in Admins : DeskStep(a)
    <2>1. PICK a \in Admins : DeskStep(a)
      BY <1>1
    <2>2. CASE HandleSendBulkMessage(a)
      <3> DEFINE chosen == IF desk[a].dialog = "all" THEN Members ELSE desk[a].selected
      <3>1. /\ sends' = Append(sends, NewSend(a, "bulk", chosen))
            /\ Idle(NewSend(a, "bulk", chosen).admin) /\ UNCHANGED <<messages, told>>
        BY <1>0, <2>2 DEF HandleSendBulkMessage, Submit
      <3>2. Idle(a)
        BY <3>1 DEF NewSend
      <3> HIDE DEF chosen
      <3> QED
        BY <3>1, <3>2, SubmitTold
    <2>3. CASE UNCHANGED <<messages, told, sends>>
      BY <2>3 DEF ToldInv, SendIds
    <2> QED
      BY <2>1, <2>2, <2>3
        DEF DeskStep, ToggleUserSelection, ToggleSelectAllUsers, OpenBulkMessage,
            CloseBulkMessage, OnDesk
  <1>2. CASE \E a \in Admins, kind \in {"inbox", "bell"} : HandleBroadcast(a, kind)
    <2>1. PICK a \in Admins, kind \in {"inbox", "bell"} : HandleBroadcast(a, kind)
      BY <1>2
    <2> DEFINE chosen == Users \ {a}
    <2>2. /\ sends' = Append(sends, NewSend(a, kind, chosen))
          /\ Idle(NewSend(a, kind, chosen).admin) /\ UNCHANGED <<messages, told>>
      BY <1>0, <2>1 DEF HandleBroadcast, Submit
    <2>3. Idle(a)
      BY <2>2 DEF NewSend
    <2> QED
      BY <2>2, <2>3, SubmitTold
  <1>3. CASE \E s \in SendIds : ServerStep(s) \/ TakeAnswer(s)
    BY <1>0, <1>3, ReadingTold, CreateNotificationsTold, CreateMessagesTold, NotifyBatchTold
      DEF ServerStep
  <1>4. CASE \E a \in Admins, u \in Members : SendDirect(a, u)
    BY <1>4, NoDirect
  <1>5. CASE \E u \in Members, to \in Changes : UserLeaves(u, to)
    BY <1>5, UserLeavesTold
  <1>6. CASE UNCHANGED castVars
    BY <1>6 DEF castVars, ToldInv, SendIds
  <1> QED
    BY <1>1, <1>2, <1>3, <1>4, <1>5, <1>6 DEF CastNext

\* The receiver of a message is told of it once, as long as an administrator
\* awaits each answer before the next request and sends no single messages
\* meanwhile: sendAdminMessageToUsers knows its own rows by sender, receiver
\* and an id above the largest it had read, and two deliveries of one
\* administrator would each take in the rows of the other.
THEOREM ToldOnce ==
    ASSUME OnlyOneOnItsWay
    PROVE  CastSpec => []ToldOncePerMessage
  <1>0. SupportBroadcastConstants
    BY DEF OnlyOneOnItsWay
  <1>1. CastInit => ToldInv
    BY ToldStart
  <1>2. CastInv /\ ToldInv /\ [CastNext]_castVars => ToldInv'
    BY ToldStep
  <1>3. ToldInv => ToldOncePerMessage
    BY DEF ToldInv, ToldOncePerMessage
  <1> QED
    BY <1>0, <1>1, <1>2, <1>3, CastInvariance, PTL DEF CastSpec

-----------------------------------------------------------------------------
(* Counted as written.                                                     *)

\* The rows of the batch stand one after another beyond the ids of before, and
\* no other message of the administrator does.
InsertedAt(r, base, msgs) ==
    /\ r.maxId <= base
    /\ base + Len(BatchOf(r)) <= Len(msgs)
    /\ \A i \in 1 .. Len(BatchOf(r)) :
          msgs[base + i].from = r.admin /\ msgs[base + i].to = BatchOf(r)[i]
    /\ \A id \in DOMAIN msgs :
          id > r.maxId /\ msgs[id].from = r.admin =>
             id \in (base + 1) .. (base + Len(BatchOf(r)))

Counted(r, msgs) ==
    /\ r.count = r.done
    /\ r.maxId <= Len(msgs)
    /\ r.step = "ok" => r.done = Len(r.recipients)
    /\ r.step = "back" => \E base \in Nat : InsertedAt(r, base, msgs)

CountInv ==
    /\ \A u \in Users : status[u] # "gone"
    /\ \A s \in SendIds : Counted(sends[s], messages)

\* A step of one request that leaves the messages.
LEMMA CountStep ==
    ASSUME CastInv, CountInv, NEW s \in SendIds, NEW r,
           sends' = [sends EXCEPT ![s] = r], UNCHANGED <<messages, status>>,
           Counted(r, messages)
    PROVE  CountInv'
  <1>1. /\ Len(sends') = Len(sends) /\ sends'[s] = r
        /\ \A t \in SendIds \ {s} : sends'[t] = sends[t]
    BY DEF CastInv, CastShape, SendIds
  <1>2. SendIds' = SendIds
    BY <1>1 DEF SendIds
  <1>3. \A t \in SendIds : Counted(sends'[t], messages)
    BY <1>1 DEF CountInv
  <1> QED
    BY <1>2, <1>3 DEF CountInv

LEMMA ReadingCount ==
    ASSUME SupportBroadcastConstants, CastInv, CountInv, NEW s \in SendIds,
           ReadRecipients(s) \/ ReadPage(s) \/ ReadMaxId(s) \/ TakeAnswer(s)
    PROVE  CountInv'
  <1> DEFINE r == sends[s]
  <1>1. r \in SendRow /\ ListInv(r, Active) /\ Counted(r, messages)
    BY RequestIs DEF CountInv, RequestInv
  <1>2. CASE ReadRecipients(s)
    <2> DEFINE found == Sorted(BulkRecipients(r))
               q == [r EXCEPT !.recipients = found,
                              !.step = IF found = <<>> THEN "ok" ELSE "max"]
    <2>1. /\ r.step = "sent" /\ sends' = [sends EXCEPT ![s] = q]
          /\ UNCHANGED <<messages, status>>
      BY <1>2 DEF ReadRecipients, InStep, Proceed
    <2> HIDE DEF found
    <2>2. /\ q.step = (IF found = <<>> THEN "ok" ELSE "max") /\ q.recipients = found
          /\ q.done = r.done /\ q.count = r.count /\ q.maxId = r.maxId
      BY <1>1 DEF SendRow
    <2> HIDE DEF q
    <2>3. r.done = 0
      BY <1>1, <2>1 DEF ListInv
    <2>4. Len(<<>>) = 0
      OBVIOUS
    <2>5. Counted(q, messages)
      BY <1>1, <2>2, <2>3, <2>4 DEF Counted
    <2> QED
      BY <2>1, <2>5, CountStep
  <1>3. CASE ReadPage(s)
    <2> DEFINE page == NextPage(r)
               next == IF r.recipients = <<>> THEN "ok"
                       ELSE IF r.kind = "inbox" THEN "max" ELSE "rows"
               end == [r EXCEPT !.step = next]
               on == [r EXCEPT !.cursor = Max(page), !.recipients = @ \o Sorted(page)]
               q == IF page = {} THEN end ELSE on
    <2>1. /\ r.step = "sent" /\ sends' = [sends EXCEPT ![s] = q]
          /\ UNCHANGED <<messages, status>>
      BY <1>3 DEF ReadPage, InStep, Proceed
    <2>2. /\ end.step = next /\ end.recipients = r.recipients
          /\ end.done = r.done /\ end.count = r.count /\ end.maxId = r.maxId
          /\ on.step = r.step
          /\ on.done = r.done /\ on.count = r.count /\ on.maxId = r.maxId
      BY <1>1 DEF SendRow
    <2> HIDE DEF end, on, page
    <2>3. r.done = 0 /\ Len(<<>>) = 0
      BY <1>1, <2>1 DEF ListInv
    <2>4. Counted(end, messages)
      BY <1>1, <2>2, <2>3 DEF Counted
    <2>5. Counted(on, messages)
      BY <1>1, <2>1, <2>2 DEF Counted
    <2>6. Counted(q, messages)
      BY <2>4, <2>5
    <2> HIDE DEF q
    <2> QED
      BY <2>1, <2>6, CountStep
  <1>4. CASE ReadMaxId(s)
    <2> DEFINE q == [r EXCEPT !.maxId = Len(messages), !.step = "rows"]
    <2>1. /\ sends' = [sends EXCEPT ![s] = q] /\ UNCHANGED <<messages, status>>
      BY <1>4 DEF ReadMaxId, InStep, Proceed
    <2>2. /\ q.step = "rows" /\ q.maxId = Len(messages)
          /\ q.done = r.done /\ q.count = r.count
      BY <1>1 DEF SendRow
    <2> HIDE DEF q
    <2>3. Len(messages) \in Nat
      BY LenProperties DEF CastInv, CastShape
    <2>4. Counted(q, messages)
      BY <1>1, <2>2, <2>3 DEF Counted
    <2> QED
      BY <2>1, <2>4, CountStep
  <1>5. CASE TakeAnswer(s)
    <2> DEFINE q == [r EXCEPT !.step = "taken"]
    <2>1. /\ sends' = [sends EXCEPT ![s] = q] /\ UNCHANGED <<messages, status>>
      BY <1>5 DEF TakeAnswer
    <2>2. q.step = "taken" /\ q.maxId = r.maxId /\ q.done = r.done /\ q.count = r.count
      BY <1>1 DEF SendRow
    <2> HIDE DEF q
    <2>3. Counted(q, messages)
      BY <1>1, <2>2 DEF Counted
    <2> QED
      BY <2>1, <2>3, CountStep
  <1> QED
    BY <1>2, <1>3, <1>4, <1>5

LEMMA CreateNotificationsCount ==
    ASSUME SupportBroadcastConstants, CastInv, CountInv, NEW s \in SendIds,
           CreateNotifications(s)
    PROVE  CountInv'
  <1> DEFINE r == sends[s]
             n == Len(BatchOf(r))
             q == [r EXCEPT !.done = r.done + n, !.count = @ + n,
                            !.step = IF r.done + n = Len(r.recipients) THEN "ok" ELSE "rows"]
             lost == [r EXCEPT !.step = "failed"]
  <1>1. r \in SendRow /\ Counted(r, messages)
    BY RequestIs DEF CountInv
  <1>2. /\ UNCHANGED <<messages, status>>
        /\ sends' = [sends EXCEPT ![s] = q] \/ sends' = [sends EXCEPT ![s] = lost]
    BY DEF CreateNotifications, InStep, Proceed
  <1> HIDE DEF n
  <1>3. /\ q.step = (IF r.done + n = Len(r.recipients) THEN "ok" ELSE "rows")
        /\ q.recipients = r.recipients /\ q.done = r.done + n /\ q.count = r.count + n
        /\ q.maxId = r.maxId
        /\ lost.step = "failed" /\ lost.done = r.done /\ lost.count = r.count
        /\ lost.maxId = r.maxId
    BY <1>1 DEF SendRow
  <1> HIDE DEF q, lost
  <1>4. Counted(q, messages) /\ Counted(lost, messages)
    BY <1>1, <1>3 DEF Counted
  <1> QED
    BY <1>2, <1>4, CountStep

\* The read-back finds the batch, no more and no less.
LEMMA ReadBackIsBatch ==
    ASSUME SupportBroadcastConstants, CastInv, CountInv, NEW s \in SendIds,
           InStep(s, "back")
    PROVE  Cardinality(ReadBack(sends[s])) = Len(BatchOf(sends[s]))
  <1> DEFINE r == sends[s]
             b == BatchOf(r)
             n == Len(b)
             m == Len(messages)
  <1>1. r \in SendRow /\ ListInv(r, Active) /\ Counted(r, messages) /\ r.step = "back"
    BY RequestIs DEF CountInv, RequestInv, InStep
  <1>2. r.done < Len(r.recipients)
    BY <1>1 DEF ListInv
  <1>3. b \in Seq(Users) /\ n \in Nat /\ DOMAIN b = 1 .. n
    BY <1>1, <1>2, BatchFacts
  <1>4. messages \in Seq(MessageRow) /\ DOMAIN messages = 1 .. m /\ m \in Nat
    BY LenProperties DEF CastInv, CastShape
  <1>5. PICK base \in Nat : InsertedAt(r, base, messages)
    BY <1>1 DEF Counted
  <1>6. r.maxId \in Nat /\ r.maxId <= base /\ base + n <= m
    BY <1>1, <1>5 DEF InsertedAt, SendRow
  <1>7. ReadBack(r) \subseteq (base + 1) .. (base + n)
    BY <1>5 DEF ReadBack, InsertedAt
  <1>8. ASSUME NEW id, id \in (base + 1) .. (base + n) PROVE id \in ReadBack(r)
    <2> DEFINE i == id - base
    <2> HIDE DEF n, m
    <2>1. i \in 1 .. n /\ base + i = id /\ id \in 1 .. m /\ id > r.maxId
      BY <1>3, <1>4, <1>6, <1>8
    <2> HIDE DEF i
    <2>2. messages[id].from = r.admin /\ messages[id].to = b[i]
      BY <1>5, <2>1 DEF InsertedAt, n
    <2>3. b[i] \in ToSet(b) /\ b[i] \in Users
      BY <1>3, <2>1 DEF ToSet
    <2>4. status[b[i]] # "gone"
      BY <2>3 DEF CountInv
    <2> QED
      BY <1>4, <2>1, <2>2, <2>3, <2>4 DEF ReadBack
  <1>9. ReadBack(r) = (base + 1) .. (base + n)
    BY <1>7, <1>8
  <1> HIDE DEF n
  <1>10. base + 1 \in Int /\ base + n \in Int
    BY <1>3
  <1>11. Cardinality((base + 1) .. (base + n)) =
            IF base + 1 > base + n THEN 0 ELSE (base + n) - (base + 1) + 1
    BY <1>10, FS_Interval
  <1> QED
    BY <1>3, <1>9, <1>11 DEF n

LEMMA NotifyBatchCount ==
    ASSUME SupportBroadcastConstants, CastInv, CountInv, NEW s \in SendIds, NotifyBatch(s)
    PROVE  CountInv'
  <1> DEFINE r == sends[s]
             n == Len(BatchOf(r))
             written == Cardinality(ReadBack(r))
             q == [r EXCEPT !.done = r.done + n, !.count = @ + written,
                            !.step = IF r.done + n = Len(r.recipients) THEN "ok" ELSE "max"]
  <1>1. r \in SendRow /\ Counted(r, messages)
    BY RequestIs DEF CountInv
  <1>2. /\ UNCHANGED <<messages, status>> /\ sends' = [sends EXCEPT ![s] = q]
        /\ InStep(s, "back")
    BY DEF NotifyBatch, InStep, Proceed
  <1>3. written = n
    BY <1>2, ReadBackIsBatch
  <1> HIDE DEF n, written
  <1>4. /\ q.step = (IF r.done + n = Len(r.recipients) THEN "ok" ELSE "max")
        /\ q.recipients = r.recipients /\ q.done = r.done + n
        /\ q.count = r.count + written /\ q.maxId = r.maxId
    BY <1>1 DEF SendRow
  <1> HIDE DEF q
  <1>5. Counted(q, messages)
    BY <1>1, <1>3, <1>4 DEF Counted
  <1> QED
    BY <1>2, <1>5, CountStep

LEMMA CreateMessagesCount ==
    ASSUME SupportBroadcastConstants, CastInv, ToldInv, CountInv, NEW s \in SendIds,
           CreateMessages(s)
    PROVE  CountInv'
  <1> DEFINE r == sends[s]
             b == BatchOf(r)
             n == Len(b)
             rows == [i \in DOMAIN b |-> [from |-> r.admin, to |-> b[i], send |-> s]]
             back == [r EXCEPT !.step = "back"]
             lost == [r EXCEPT !.step = "failed"]
             all == messages \o rows
             m == Len(messages)
  <1>1. /\ r \in SendRow /\ RequestInv(r, s, Active, messages, bells) /\ s \in Nat
        /\ Counted(r, messages)
    BY RequestIs DEF CountInv
  <1>2. /\ r.step = "rows" /\ r.kind # "bell" /\ status' = status
        /\ \/ messages' = all /\ sends' = [sends EXCEPT ![s] = back]
           \/ messages' = messages /\ sends' = [sends EXCEPT ![s] = lost]
    BY DEF CreateMessages, InStep, Proceed
  <1>3. messages \in Seq(MessageRow) /\ m \in Nat /\ DOMAIN messages = 1 .. m
    BY LenProperties DEF CastInv, CastShape
  <1>4. b \in Seq(Users) /\ n \in Nat /\ DOMAIN b = 1 .. n
    <2>1. r.done < Len(r.recipients)
      BY <1>1, <1>2 DEF RequestInv, ListInv
    <2> QED
      BY <1>1, <2>1, BatchFacts
  <1>5. CASE messages' = messages /\ sends' = [sends EXCEPT ![s] = lost]
    <2>1. lost.step = "failed" /\ lost.maxId = r.maxId
          /\ lost.done = r.done /\ lost.count = r.count
      BY <1>1 DEF SendRow
    <2> HIDE DEF lost
    <2>2. Counted(lost, messages)
      BY <1>1, <2>1 DEF Counted
    <2> QED
      BY <1>2, <1>5, <2>2, CountStep
  <1>6. CASE messages' = all /\ sends' = [sends EXCEPT ![s] = back]
    <2>1. /\ back.step = "back" /\ back.admin = r.admin /\ back.maxId = r.maxId
          /\ back.done = r.done /\ back.count = r.count /\ back.recipients = r.recipients
      BY <1>1 DEF SendRow
    <2>2. BatchOf(back) = b
      BY <2>1 DEF BatchOf
    <2> HIDE DEF back
    <2>3. rows \in Seq(MessageRow) /\ Len(rows) = n
          /\ \A i \in 1 .. n : rows[i].from = r.admin /\ rows[i].to = b[i]
      <3> DEFINE Row(i) == [from |-> r.admin, to |-> b[i], send |-> s]
      <3>1. rows = [i \in 1 .. n |-> Row(i)]
        BY <1>4
      <3>2. \A i \in 1 .. n : Row(i).from = r.admin /\ Row(i).to = b[i]
        OBVIOUS
      <3>3. \A i \in 1 .. n : Row(i) \in MessageRow
        <4>1. r.admin \in Admins /\ \A i \in 1 .. n : b[i] \in Users
          BY <1>1, <1>4 DEF SendRow
        <4> QED
          BY <1>1, <4>1 DEF MessageRow
      <3> HIDE DEF rows, b, r, Row, n
      <3> QED
        BY <1>4, <3>1, <3>2, <3>3
    <2> HIDE DEF rows, b, n, r
    <2>4. /\ all \in Seq(MessageRow) /\ DOMAIN all = 1 .. (m + n) /\ Len(all) = m + n
          /\ \A i \in 1 .. (m + n) :
                all[i] = IF i <= m THEN messages[i] ELSE rows[i - m]
      BY <1>3, <2>3, ConcatProperties, JoinFacts
    <2> HIDE DEF all, m
    <2>5. ASSUME NEW i, i \in 1 .. n
          PROVE  /\ m + i \in DOMAIN all
                 /\ all[m + i].from = r.admin /\ all[m + i].to = b[i]
      <3> DEFINE k == m + i
      <3>1. k \in 1 .. (m + n) /\ ~(k <= m) /\ k - m = i
        BY <1>3, <1>4, <2>5
      <3> HIDE DEF k
      <3>2. all[k] = rows[i] /\ k \in DOMAIN all
        BY <2>4, <3>1
      <3> QED
        BY <2>3, <2>5, <3>2 DEF k
    <2>6. ASSUME NEW id, id \in DOMAIN all
          PROVE  \/ id \in DOMAIN messages /\ all[id] = messages[id]
                 \/ id \in (m + 1) .. (m + n) /\ all[id].from = r.admin
      <3>1. CASE id <= m
        BY <1>3, <1>4, <2>4, <2>6, <3>1
      <3>2. CASE ~(id <= m)
        <4>1. id - m \in 1 .. n /\ all[id] = rows[id - m] /\ id \in (m + 1) .. (m + n)
          BY <1>3, <1>4, <2>4, <2>6, <3>2
        <4> QED
          BY <2>3, <4>1
      <3> QED
        BY <3>1, <3>2
    <2>7. r.maxId <= m /\ r.maxId \in Nat
      BY <1>1 DEF Counted, SendRow, m
    <2>8. InsertedAt(back, m, all)
      <3>1. \A id \in DOMAIN messages : id > r.maxId => messages[id].from # r.admin
        BY <1>2 DEF ToldInv, WindowInv, r
      <3>2. \A id \in DOMAIN all : id > r.maxId /\ all[id].from = r.admin =>
                id \in (m + 1) .. (m + n)
        BY <2>6, <3>1
      <3> QED
        BY <2>1, <2>2, <2>4, <2>5, <2>7, <3>2 DEF InsertedAt, n
    <2>9. Counted(back, all)
      <3>1. r.maxId <= m + n
        BY <1>3, <1>4, <2>7
      <3> QED
        BY <1>1, <1>3, <2>1, <2>4, <2>8, <3>1 DEF Counted
    <2>10. ASSUME NEW t \in SendIds \ {s} PROVE Counted(sends[t], all)
      <3> DEFINE u == sends[t]
      <3>1. u \in SendRow /\ Counted(u, messages)
        BY RequestIs DEF CountInv
      <3>2. u.maxId <= Len(all)
        <4>1. u.maxId <= m /\ u.maxId \in Nat
          BY <3>1 DEF Counted, SendRow, m
        <4> QED
          BY <1>3, <1>4, <2>4, <4>1
      <3>3. ASSUME u.step = "back" PROVE \E base \in Nat : InsertedAt(u, base, all)
        <4>1. u.admin # r.admin
          BY <1>2, <3>3 DEF ToldInv, r
        <4>2. PICK base \in Nat : InsertedAt(u, base, messages)
          BY <3>1, <3>3 DEF Counted
        <4> DEFINE c == BatchOf(u)
                   k == Len(c)
        <4>3. k \in Nat
          <5>1. ListInv(u, Active)
            BY RequestIs DEF RequestInv
          <5>2. u.done < Len(u.recipients)
            BY <3>3, <5>1 DEF ListInv
          <5> QED
            BY <3>1, <5>2, BatchFacts
        <4>4. base + k <= m
          BY <4>2 DEF InsertedAt, m
        <4> HIDE DEF c, k, u
        <4>5. base + k <= Len(all)
          BY <1>3, <1>4, <2>4, <4>3, <4>4
        <4>6. ASSUME NEW i, i \in 1 .. k
              PROVE  all[base + i].from = u.admin /\ all[base + i].to = c[i]
          <5> DEFINE id == base + i
          <5>1. id \in 1 .. m /\ id \in 1 .. (m + n) /\ id <= m
            BY <1>3, <1>4, <4>3, <4>4, <4>6
          <5>2. messages[id].from = u.admin /\ messages[id].to = c[i]
            BY <4>2, <4>6 DEF InsertedAt, k, c
          <5> HIDE DEF id
          <5>3. all[id] = messages[id]
            BY <2>4, <5>1
          <5> QED
            BY <5>2, <5>3 DEF id
        <4>7. \A id \in DOMAIN all : id > u.maxId /\ all[id].from = u.admin =>
                  id \in (base + 1) .. (base + k)
          BY <2>6, <4>1, <4>2 DEF InsertedAt, k, c
        <4>8. u.maxId <= base
          BY <4>2 DEF InsertedAt
        <4> QED
          BY <4>5, <4>6, <4>7, <4>8 DEF InsertedAt, k, c
      <3> QED
        BY <3>1, <3>2, <3>3 DEF Counted
    <2>11. /\ Len(sends') = Len(sends) /\ sends'[s] = back
           /\ \A t \in SendIds \ {s} : sends'[t] = sends[t]
      BY <1>6 DEF CastInv, CastShape, SendIds
    <2>12. SendIds' = SendIds
      BY <2>11 DEF SendIds
    <2>13. \A t \in SendIds' : Counted(sends'[t], messages')
      BY <1>6, <2>9, <2>10, <2>11, <2>12
    <2> QED
      BY <1>2, <2>13 DEF CountInv
  <1> QED
    BY <1>2, <1>5, <1>6

LEMMA SubmitCount ==
    ASSUME CastInv, CountInv, NEW a, NEW kind, NEW chosen,
           sends' = Append(sends, NewSend(a, kind, chosen)), UNCHANGED <<messages, status>>
    PROVE  CountInv'
  <1> DEFINE q == NewSend(a, kind, chosen)
             n == Len(sends)
  <1>1. q.step = "sent" /\ q.done = 0 /\ q.count = 0 /\ q.maxId = 0
    BY DEF NewSend
  <1> HIDE DEF q
  <1>2. /\ n \in Nat /\ Len(sends') = n + 1 /\ sends'[n + 1] = q
        /\ \A t \in 1 .. n : sends'[t] = sends[t]
    BY DEF CastInv, CastShape, q
  <1>3. Counted(q, messages)
    <2>1. Len(messages) \in Nat
      BY LenProperties DEF CastInv, CastShape
    <2> QED
      BY <1>1, <2>1 DEF Counted
  <1>4. \A t \in 1 .. n : Counted(sends[t], messages)
    BY DEF CountInv, SendIds
  <1> HIDE DEF n
  <1>5. SendIds' = 1 .. (n + 1) /\ \A t \in 1 .. (n + 1) : t \in 1 .. n \/ t = n + 1
    BY <1>2 DEF SendIds
  <1>6. \A t \in SendIds' : Counted(sends'[t], messages)
    BY <1>2, <1>3, <1>4, <1>5
  <1> QED
    BY <1>6 DEF CountInv

LEMMA UserLeavesCount ==
    ASSUME SupportBroadcastConstants, "gone" \notin Changes,
           CastInv, CountInv, NEW u \in Members, NEW to \in Changes, UserLeaves(u, to)
    PROVE  CountInv'
  <1> DEFINE Left(r) == IF r.step \in {"ok", "failed", "taken"} THEN r
                        ELSE [r EXCEPT !.stayed = @ \ {u}]
  <1>1. /\ sends' = [t \in SendIds |-> Left(sends[t])] /\ messages' = messages
        /\ status' = [status EXCEPT ![u] = to]
    BY DEF UserLeaves
  <1>2. ASSUME NEW r \in SendRow
        PROVE  /\ Left(r).count = r.count /\ Left(r).admin = r.admin
               /\ Left(r).step = r.step /\ Left(r).maxId = r.maxId
               /\ Left(r).done = r.done /\ Left(r).recipients = r.recipients
    BY DEF SendRow
  <1>3. Len(sends) \in Nat
    BY LenProperties DEF CastInv, CastShape
  <1>4. SendIds' = SendIds
    BY <1>1, <1>3 DEF SendIds
  <1> HIDE DEF Left
  <1>5. ASSUME NEW t \in SendIds PROVE Counted(sends'[t], messages)
    <2> DEFINE r == sends[t]
               q == Left(r)
    <2>1. r \in SendRow /\ Counted(r, messages)
      BY RequestIs DEF CountInv
    <2>2. /\ q.count = r.count /\ q.admin = r.admin /\ q.step = r.step
          /\ q.maxId = r.maxId /\ q.done = r.done /\ q.recipients = r.recipients
      BY <1>2, <2>1
    <2> HIDE DEF q
    <2>3. BatchOf(q) = BatchOf(r)
      BY <2>2 DEF BatchOf
    <2>4. \A base : InsertedAt(r, base, messages) => InsertedAt(q, base, messages)
      BY <2>2, <2>3 DEF InsertedAt
    <2>5. Counted(q, messages)
      BY <2>1, <2>2, <2>4 DEF Counted
    <2> QED
      BY <1>1, <2>5 DEF q
  <1>6. \A v \in Users : status'[v] # "gone"
    BY <1>1 DEF CountInv, CastInv, CastShape
  <1> QED
    BY <1>1, <1>4, <1>5, <1>6 DEF CountInv

LEMMA CountStart == ASSUME CastInit PROVE CountInv
  BY DEF CastInit, CountInv, SendIds

LEMMA CountNext ==
    ASSUME OnlyOneOnItsWay, "gone" \notin Changes,
           CastInv, ToldInv, CountInv, [CastNext]_castVars
    PROVE  CountInv'
  <1>0. SupportBroadcastConstants
    BY DEF OnlyOneOnItsWay
  <1>1. CASE \E a \in Admins : DeskStep(a)
    <2>1. PICK a \in Admins : DeskStep(a)
      BY <1>1
    <2>2. CASE HandleSendBulkMessage(a)
      <3> DEFINE chosen == IF desk[a].dialog = "all" THEN Members ELSE desk[a].selected
      <3>1. /\ sends' = Append(sends, NewSend(a, "bulk", chosen))
            /\ UNCHANGED <<messages, status>>
        BY <2>2 DEF HandleSendBulkMessage, Submit
      <3> HIDE DEF chosen
      <3> QED
        BY <3>1, SubmitCount
    <2>3. CASE UNCHANGED <<messages, status, sends>>
      BY <2>3 DEF CountInv, SendIds
    <2> QED
      BY <2>1, <2>2, <2>3
        DEF DeskStep, ToggleUserSelection, ToggleSelectAllUsers, OpenBulkMessage,
            CloseBulkMessage, OnDesk
  <1>2. CASE \E a \in Admins, kind \in {"inbox", "bell"} : HandleBroadcast(a, kind)
    BY <1>2, SubmitCount DEF HandleBroadcast, Submit
  <1>3. CASE \E s \in SendIds : ServerStep(s) \/ TakeAnswer(s)
    BY <1>0, <1>3, ReadingCount, CreateNotificationsCount, CreateMessagesCount,
       NotifyBatchCount DEF ServerStep
  <1>4. CASE \E a \in Admins, u \in Members : SendDirect(a, u)
    BY <1>4, NoDirect
  <1>5. CASE \E u \in Members, to \in Changes : UserLeaves(u, to)
    BY <1>0, <1>5, UserLeavesCount
  <1>6. CASE UNCHANGED castVars
    BY <1>6 DEF castVars, CountInv, SendIds
  <1> QED
    BY <1>1, <1>2, <1>3, <1>4, <1>5, <1>6 DEF CastNext

\* A list in which nobody stands twice is as long as its set is large.
LEMMA OnceSize ==
    ASSUME NEW list \in Seq(Users), Once(list)
    PROVE  Cardinality(ToSet(list)) = Len(list)
  <1> DEFINE n == Len(list)
             S == ToSet(list)
  <1>1. n \in Nat /\ DOMAIN list = 1 .. n
    BY LenProperties
  <1>2. \A u \in S : \E i \in 1 .. n : list[i] = u
    BY <1>1 DEF ToSet
  <1>3. list \in [1 .. n -> S]
    <2>1. \A i \in 1 .. n : list[i] \in S
      BY <1>1 DEF ToSet
    <2>2. list \in [1 .. n -> Users]
      BY LenProperties
    <2> HIDE DEF n, S
    <2> QED
      BY <2>1, <2>2
  <1>4. list \in Bijection(1 .. n, S)
    <2> HIDE DEF n, S
    <2> QED
      BY <1>1, <1>2, <1>3 DEF Once, Bijection, Injection, Surjection, IsInjective
  <1>5. ExistsBijection(1 .. n, S)
    BY <1>4 DEF ExistsBijection
  <1> HIDE DEF n, S
  <1>6. Cardinality(S) = n
    BY <1>1, <1>5, FS_CountingElements
  <1> QED
    BY <1>6 DEF n, S

\* The number the desk is told (the messages read back of each batch, or the
\* bells rung) is the number of users written to, under the same conditions
\* as above and while no user is deleted: the read-back finds the batch, no
\* more and no less.
THEOREM CountedAsWritten ==
    ASSUME OnlyOneOnItsWay, "gone" \notin Changes
    PROVE  CastSpec => []CountIsTrue
  <1>0. SupportBroadcastConstants
    BY DEF OnlyOneOnItsWay
  <1>1. CastInit => OnceInv /\ ToldInv /\ CountInv
    BY OnceStart, ToldStart, CountStart
  <1>2. CastInv /\ OnceInv /\ ToldInv /\ CountInv /\ [CastNext]_castVars
            => OnceInv' /\ ToldInv' /\ CountInv'
    BY <1>0, OnceStep, ToldStep, CountNext
  <1>3. CastInv /\ OnceInv /\ CountInv => CountIsTrue
    <2> SUFFICES ASSUME CastInv, OnceInv, CountInv, NEW s \in SendIds, InStep(s, "ok")
                 PROVE  sends[s].count = Cardinality({u \in Users : Got(s, u)})
      BY DEF CountIsTrue
    <2> DEFINE r == sends[s]
               list == r.recipients
               n == Len(list)
    <2>1. /\ r \in SendRow /\ DeliveredInv(r, s, messages, bells) /\ ListOnce(r)
          /\ RowsInv(r, s, messages, bells) /\ Counted(r, messages) /\ r.step = "ok"
      BY RequestIs DEF OnceInv, CountInv, RequestInv, InStep
    <2>2. /\ list \in Seq(Users) /\ DOMAIN list = 1 .. n
          /\ \A i \in 1 .. n : list[i] \in Users
      BY <2>1, LenProperties DEF SendRow
    <2>3. r.done = n /\ r.count = n /\ Upto(r) = n
      BY <2>1 DEF Counted, Upto
    <2>4. ASSUME NEW u \in Users, Got(s, u) PROVE u \in ToSet(list)
      <3>1. PICK i \in 1 .. n : u = list[i]
        BY <2>1, <2>3, <2>4 DEF RowsInv, Got, RowsOf
      <3> QED
        BY <2>2, <3>1 DEF ToSet
    <2>5. ASSUME NEW u \in ToSet(list) PROVE u \in Users /\ Got(s, u)
      <3>1. PICK i \in 1 .. n : u = list[i]
        BY <2>2 DEF ToSet
      <3>2. Reached(messages, bells, s, list[i])
        BY <2>1, <2>3, <3>1 DEF DeliveredInv
      <3> QED
        BY <2>2, <3>1, <3>2 DEF Reached, Got, RowsOf
    <2>6. {u \in Users : Got(s, u)} = ToSet(list)
      BY <2>4, <2>5
    <2>7. Once(list)
      BY <2>1 DEF ListOnce
    <2> HIDE DEF list
    <2> QED
      BY <2>2, <2>3, <2>6, <2>7, OnceSize
  <1> QED
    BY <1>0, <1>1, <1>2, <1>3, CastInvariance, PTL DEF CastSpec

=============================================================================
