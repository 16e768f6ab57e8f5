-------------------------- MODULE UnionCacheProofs --------------------------
(***************************************************************************)
(* A hit of the union cache is never torn, for any threads, keys and       *)
(* number of puts below the wrap-around of seq. Put number i writes seq    *)
(* twice, at 2i when it claims and at 2i + 1 when it releases, and key and *)
(* result once, at i + 1. What it writes in between carries a view of the  *)
(* claim, and the release a view of what it wrote.                         *)
(***************************************************************************)
EXTENDS UnionCache, TLAPS

View == [Loc -> Nat \ {0}]
Value == Nat \cup Key \cup {ResultOf[q] : q \in Key}
Entry == [val : Value, view : View]
Writing == {"putfence", "putkey", "putresult", "putrelease"}
Reading == {"getkey", "getresult", "getfence", "getcheck"}

TypeOK ==
    /\ mem \in [Loc -> Seq(Entry)]
    /\ cur \in [Thread -> View] /\ acq \in [Thread -> View] /\ rel \in [Thread -> View]
    /\ pc \in [Thread -> {"idle", "putclaim"} \cup Writing \cup Reading]
    /\ key \in [Thread -> Key \cup {0}]
    /\ s \in [Thread -> Nat] /\ k \in [Thread -> Value] /\ r \in [Thread -> Value]

\* The numbers that say no put is under way. Left unexpanded where the
\* arithmetic does not need it.
Even == {m \in Nat : m % 2 = 0}

Seqs == mem["seq"]
Keys == mem["key"]
Results == mem["result"]

\* seq counts, and with an even value the data written before it is visible.
SeqInv ==
    /\ Len(Seqs) >= 1 /\ Len(Seqs) <= 2 * MaxPuts + 1
    /\ \A n \in 1..Len(Seqs) :
         /\ Seqs[n].val = n - 1
         /\ n - 1 \in Even => 2 * Seqs[n].view["key"] >= n + 1 /\ 2 * Seqs[n].view["result"] >= n + 1

\* Key and result are visible only with the claim of their put.
DataInv ==
    /\ Len(Keys) >= 1 /\ Len(Results) >= 1 /\ Len(Results) <= Len(Keys)
    /\ Keys[1].val = 0
    /\ \A j \in 1..Len(Keys) : Keys[j].view["seq"] >= 2 * (j - 1) /\ (j >= 2 => Keys[j].val \in Key)
    /\ \A j \in 1..Len(Results) :
         Results[j].view["seq"] >= 2 * (j - 1) /\ (j >= 2 => Results[j].val = ResultOf[Keys[j].val])

\* The thread that has claimed seq, by how far its put is.
WriterAt(t) ==
    /\ pc[t] = "putclaim" => key[t] \in Key /\ s[t] \in Even /\ s[t] + 1 <= 2 * MaxPuts
    /\ pc[t] \in Writing =>
         /\ key[t] \in Key /\ s[t] \in Even /\ Len(Seqs) = s[t] + 2 /\ s[t] + 1 <= 2 * MaxPuts
         /\ 2 * Len(Keys) = s[t] + (IF pc[t] \in {"putresult", "putrelease"} THEN 4 ELSE 2)
         /\ 2 * Len(Results) = s[t] + (IF pc[t] = "putrelease" THEN 4 ELSE 2)
         /\ pc[t] = "putfence" => cur[t]["seq"] >= s[t] + 2
         /\ pc[t] \in {"putkey", "putresult"} => rel[t]["seq"] >= s[t] + 2
         /\ pc[t] \in {"putresult", "putrelease"} =>
              2 * cur[t]["key"] >= s[t] + 4 /\ Keys[Len(Keys)].val = key[t]
         /\ pc[t] = "putrelease" => 2 * cur[t]["result"] >= s[t] + 4
WriterInv ==
    /\ \A t, u \in Thread : pc[t] \in Writing /\ pc[u] \in Writing => t = u
    /\ Len(Seqs) - 1 \in Even => 2 * Len(Keys) = Len(Seqs) + 1 /\ 2 * Len(Results) = Len(Seqs) + 1
    /\ \A t \in Thread : WriterAt(t)

\* A get that has read an even seq has the data of that put, or a later claim in view.
HasKey(t) == \A j \in Nat : 2 * j = s[t] + 2 => j <= Len(Keys) /\ k[t] = Keys[j].val
HasResult(t) == \A j \in Nat : 2 * j = s[t] + 2 => j <= Len(Results) /\ r[t] = Results[j].val
ReaderAt(t) ==
    pc[t] \in Reading =>
        /\ key[t] \in Key /\ s[t] \in Even
        /\ 2 * cur[t]["key"] >= s[t] + 2 /\ 2 * cur[t]["result"] >= s[t] + 2
        /\ pc[t] = "getresult" => acq[t]["seq"] >= s[t] + 2 \/ HasKey(t)
        /\ pc[t] = "getfence" => acq[t]["seq"] >= s[t] + 2 \/ (HasKey(t) /\ HasResult(t))
        /\ pc[t] = "getcheck" => cur[t]["seq"] >= s[t] + 2 \/ (HasKey(t) /\ HasResult(t))
ReaderInv == \A t \in Thread : ReaderAt(t)

IndInv == TypeOK /\ SeqInv /\ DataInv /\ WriterInv /\ ReaderInv /\ NeverTorn

-----------------------------------------------------------------------------
\* Merge is the later of two views at each location.
LEMMA MergeView ==
    ASSUME NEW v \in View, NEW w \in View
    PROVE  /\ Merge(v, w) \in View
           /\ \A l \in Loc : Merge(v, w)[l] >= v[l] /\ Merge(v, w)[l] >= w[l]
BY DEF Merge, View

\* A value of seq below the wrap-around is not changed by it.
LEMMA NoWrap ==
    ASSUME NEW n \in Nat, n <= 2 * MaxPuts
    PROVE  n % SeqMod = n
BY CacheAssumption

\* Bounds by halves carry over to what is larger.
LEMMA Twice ==
    ASSUME NEW a \in Nat, NEW b \in Nat, NEW c \in Nat, a >= b, 2 * b >= c
    PROVE  2 * a >= c
OBVIOUS

\* What the arithmetic needs of even numbers.
LEMMA EvenHalf ==
    ASSUME NEW m \in Even
    PROVE  m \in Nat /\ \E i \in Nat : m = 2 * i
BY DEF Even

\* One element more is two more, by halves.
LEMMA Double ==
    ASSUME NEW a \in Nat, NEW b \in Nat, 2 * a = b + 2
    PROVE  2 * (a + 1) = b + 4 /\ b + 4 >= b + 4
OBVIOUS

\* A number that is not odd is even, and the next one is not.
LEMMA EvenNext ==
    ASSUME NEW m \in Nat
    PROVE  /\ m % 2 # 1 => m \in Even
           /\ m \in Even => m + 1 \notin Even
BY DEF Even

\* Beyond an even number the next one is 2 away.
LEMMA NextEven ==
    ASSUME NEW n \in Nat \ {0}, NEW m \in Even, 2 * n >= m + 2, 2 * n # m + 2
    PROVE  2 * (n - 1) >= m + 2
<1>1. PICK i \in Nat : m = 2 * i
  BY EvenHalf, Zenon
<1> QED BY <1>1

\* What a load may return is an entry of the history.
LEMMA VisibleEntry ==
    ASSUME TypeOK, NEW t \in Thread, NEW l \in Loc, NEW n \in Visible(t, l)
    PROVE  /\ n \in 1..Len(mem[l]) /\ n \in Nat \ {0} /\ n >= cur[t][l]
           /\ mem[l][n] \in Entry /\ mem[l][n].val \in Value /\ mem[l][n].view \in View
<1>1. cur[t][l] \in Nat \ {0} /\ mem[l] \in Seq(Entry)
  BY Zenon DEF TypeOK, View
<1>2. n \in 1..Len(mem[l]) /\ n \in Nat \ {0} /\ n >= cur[t][l]
  BY <1>1 DEF Visible, Last
<1>3. mem[l][n] \in Entry
  BY <1>1, <1>2
<1> QED BY <1>2, <1>3, Zenon DEF Entry

\* The memory is what it was, or longer.
Grows == \A l \in Loc : /\ Len(mem'[l]) >= Len(mem[l])
                        /\ \A n \in 1..Len(mem[l]) : mem'[l][n] = mem[l][n]
Same(t) == /\ cur'[t] = cur[t] /\ acq'[t] = acq[t] /\ rel'[t] = rel[t] /\ pc'[t] = pc[t]
           /\ key'[t] = key[t] /\ s'[t] = s[t] /\ k'[t] = k[t] /\ r'[t] = r[t]

\* A get keeps what it knows while other threads write.
LEMMA ReaderStays ==
    ASSUME TypeOK, NEW t \in Thread, ReaderAt(t), Grows, Same(t), TypeOK'
    PROVE  ReaderAt(t)'
<1>0. \A l \in Loc : mem[l] \in Seq(Entry) /\ mem'[l] \in Seq(Entry)
  BY Zenon DEF TypeOK
<1>1. HasKey(t) => HasKey(t)'
  <2>1. SUFFICES ASSUME HasKey(t), NEW j \in Nat, 2 * j = s[t] + 2
                 PROVE  j <= Len(mem'["key"]) /\ k[t] = mem'["key"][j].val
    BY Zenon DEF HasKey, Same, Keys
  <2>2. j \in 1..Len(mem["key"]) /\ k[t] = mem["key"][j].val
    BY <1>0, <2>1 DEF HasKey, Keys, TypeOK, Loc
  <2> QED BY <1>0, <2>2 DEF Grows, Loc
<1>2. HasResult(t) => HasResult(t)'
  <2>1. SUFFICES ASSUME HasResult(t), NEW j \in Nat, 2 * j = s[t] + 2
                 PROVE  j <= Len(mem'["result"]) /\ r[t] = mem'["result"][j].val
    BY Zenon DEF HasResult, Same, Results
  <2>2. j \in 1..Len(mem["result"]) /\ r[t] = mem["result"][j].val
    BY <1>0, <2>1 DEF HasResult, Results, TypeOK, Loc
  <2> QED BY <1>0, <2>2 DEF Grows, Loc
<1> QED BY <1>1, <1>2, Zenon DEF ReaderAt, Same

\* A thread that does not write is not disturbed as a writer.
LEMMA WriterStays ==
    ASSUME TypeOK, NEW t \in Thread, WriterAt(t), Same(t), mem' = mem \/ pc[t] \notin Writing
    PROVE  WriterAt(t)'
BY Zenon DEF WriterAt, Same, Writing, Seqs, Keys, Results

Odd == Len(Seqs) - 1 \in Even => 2 * Len(Keys) = Len(Seqs) + 1 /\ 2 * Len(Results) = Len(Seqs) + 1

\* A step of t keeps the invariant if it keeps what is about the memory and about t.
LEMMA StepOf ==
    ASSUME IndInv, NEW t \in Thread, TypeOK', SeqInv', DataInv', Odd', NeverTorn', WriterAt(t)', ReaderAt(t)',
           Grows, \A u \in Thread \ {t} : Same(u) /\ (mem' = mem \/ pc[u] \notin Writing),
           pc'[t] \in Writing => \A u \in Thread \ {t} : pc[u] \notin Writing
    PROVE  IndInv'
<1>1. \A u \in Thread : WriterAt(u)'
  BY WriterStays, Zenon DEF IndInv, WriterInv
<1>2. \A u \in Thread : ReaderAt(u)'
  BY ReaderStays, Zenon DEF IndInv, ReaderInv
<1>3. \A u, v \in Thread : pc'[u] \in Writing /\ pc'[v] \in Writing => u = v
  BY Zenon DEF IndInv, WriterInv, Same
<1> QED BY <1>1, <1>2, <1>3, Zenon DEF IndInv, WriterInv, ReaderInv, Odd

\* The same for a step that does not write to memory.
LEMMA LocalStep ==
    ASSUME IndInv, NEW t \in Thread, mem' = mem, TypeOK', NeverTorn', WriterAt(t)', ReaderAt(t)',
           \A u \in Thread \ {t} : Same(u), pc'[t] \in Writing => pc[t] \in Writing
    PROVE  IndInv'
<1>1. SeqInv' /\ DataInv' /\ Odd'
  BY Zenon DEF IndInv, SeqInv, DataInv, WriterInv, Odd, Seqs, Keys, Results
<1>2. Grows
  BY DEF IndInv, TypeOK, Grows
<1>3. pc'[t] \in Writing => \A u \in Thread \ {t} : pc[u] \notin Writing
  BY Zenon DEF IndInv, WriterInv
<1> QED BY <1>1, <1>2, <1>3, StepOf, Zenon

\* A load of t at n: what it does to the views.
LEMMA RelaxedLoad ==
    ASSUME TypeOK, NEW t \in Thread, NEW l \in Loc, NEW n \in Visible(t, l), LoadRelaxed(t, l, n)
    PROVE  /\ cur' \in [Thread -> View] /\ acq' \in [Thread -> View]
           /\ \A u \in Thread \ {t} : cur'[u] = cur[u] /\ acq'[u] = acq[u]
           /\ \A x \in Loc : cur'[t][x] = IF x = l THEN n ELSE cur[t][x]
           /\ \A x \in Loc : acq'[t][x] >= acq[t][x] /\ acq'[t][x] >= mem[l][n].view[x]
<1>1. n \in Nat \ {0} /\ mem[l][n].view \in View
  BY VisibleEntry, Zenon
<1>2. cur[t] \in View /\ acq[t] \in View /\ [cur[t] EXCEPT ![l] = n] \in View
  BY <1>1, Zenon DEF TypeOK, View
<1>3. Merge(acq[t], mem[l][n].view) \in View
  BY <1>1, <1>2, MergeView, Zenon
<1>4. /\ cur' = [cur EXCEPT ![t] = [cur[t] EXCEPT ![l] = n]]
      /\ acq' = [acq EXCEPT ![t] = Merge(acq[t], mem[l][n].view)]
  BY Zenon DEF LoadRelaxed
<1>5. cur' \in [Thread -> View] /\ acq' \in [Thread -> View]
  BY <1>2, <1>3, <1>4, Zenon DEF TypeOK
<1>6. cur'[t] = [cur[t] EXCEPT ![l] = n] /\ acq'[t] = Merge(acq[t], mem[l][n].view)
  BY <1>4, Zenon DEF TypeOK
<1>7. \A x \in Loc : cur'[t][x] = IF x = l THEN n ELSE cur[t][x]
  BY <1>2, <1>6, Zenon DEF View
<1>8. \A x \in Loc : acq'[t][x] >= acq[t][x] /\ acq'[t][x] >= mem[l][n].view[x]
  BY <1>1, <1>2, <1>6, MergeView, Zenon
<1>9. \A u \in Thread \ {t} : cur'[u] = cur[u] /\ acq'[u] = acq[u]
  BY <1>4, Zenon DEF TypeOK
<1> QED BY <1>5, <1>7, <1>8, <1>9, Zenon

\* An acquire load merges the view of the message it reads into the thread's own.
LEMMA AcquireLoad ==
    ASSUME TypeOK, NEW t \in Thread, NEW l \in Loc, NEW n \in Visible(t, l), LoadAcquire(t, l, n)
    PROVE  /\ cur' \in [Thread -> View] /\ acq' \in [Thread -> View]
           /\ \A u \in Thread \ {t} : cur'[u] = cur[u] /\ acq'[u] = acq[u]
           /\ \A x \in Loc : cur'[t][x] >= mem[l][n].view[x]
<1>1. n \in Nat \ {0} /\ mem[l][n].view \in View
  BY VisibleEntry, Zenon
<1>2. cur[t] \in View /\ acq[t] \in View /\ [cur[t] EXCEPT ![l] = n] \in View
  BY <1>1, Zenon DEF TypeOK, View
<1>3. /\ Merge(acq[t], mem[l][n].view) \in View /\ Merge([cur[t] EXCEPT ![l] = n], mem[l][n].view) \in View
      /\ \A x \in Loc : Merge([cur[t] EXCEPT ![l] = n], mem[l][n].view)[x] >= mem[l][n].view[x]
  BY <1>1, <1>2, MergeView, Zenon
<1>4. /\ cur' = [cur EXCEPT ![t] = Merge([cur[t] EXCEPT ![l] = n], mem[l][n].view)]
      /\ acq' = [acq EXCEPT ![t] = Merge(acq[t], mem[l][n].view)]
  BY Zenon DEF LoadAcquire
<1> QED BY <1>3, <1>4, Zenon DEF TypeOK

-----------------------------------------------------------------------------
\* union_cache_get.
LEMMA GetSeqKeeps ==
    ASSUME IndInv, NEW t \in Thread, GetSeq(t)
    PROVE  IndInv'
<1>1. PICK q \in Key, n \in Visible(t, "seq") :
        /\ LoadAcquire(t, "seq", n) /\ key' = [key EXCEPT ![t] = q]
        /\ s' = [s EXCEPT ![t] = mem["seq"][n].val]
        /\ pc' = [pc EXCEPT ![t] = IF mem["seq"][n].val % 2 = 1 THEN "idle" ELSE "getkey"]
  BY Zenon DEF GetSeq, Goto
<1>2. UNCHANGED <<mem, rel, k, r, hits>> /\ TypeOK
  BY Zenon DEF GetSeq, IndInv
<1>3. "seq" \in Loc /\ "key" \in Loc /\ "result" \in Loc
  BY Zenon DEF Loc
<1>4. /\ n \in 1..Len(Seqs) /\ n \in Nat \ {0}
  BY <1>2, <1>3, VisibleEntry, Zenon DEF Seqs
<1>5. /\ mem["seq"][n].val = n - 1
      /\ n - 1 \in Even => /\ 2 * mem["seq"][n].view["key"] >= n + 1
                            /\ 2 * mem["seq"][n].view["result"] >= n + 1
  BY <1>4, Zenon DEF IndInv, SeqInv, Seqs
<1>6. TypeOK'
  BY <1>1, <1>2, <1>3, <1>4, <1>5, AcquireLoad DEF TypeOK, Reading, Writing
<1>7. pc'[t] \in {"idle", "getkey"} /\ s'[t] = n - 1 /\ key'[t] = q /\ (pc'[t] = "getkey" => (n - 1) % 2 # 1)
  BY <1>1, <1>2, <1>5, Zenon DEF TypeOK
<1>8. WriterAt(t)'
  BY <1>7, Zenon DEF WriterAt, Writing
<1>9. ReaderAt(t)'
  <2>1. SUFFICES ASSUME pc'[t] = "getkey"
                 PROVE  s'[t] \in Even /\ 2 * cur'[t]["key"] >= s'[t] + 2 /\ 2 * cur'[t]["result"] >= s'[t] + 2
    BY <1>7, Zenon DEF ReaderAt, Reading
  <2>2. n - 1 \in Even
    <3>1. n - 1 \in Nat
      BY <1>4
    <3> QED BY <1>7, <2>1, <3>1, EvenNext, Zenon
  <2>3. cur'[t]["key"] >= mem["seq"][n].view["key"] /\ cur'[t]["result"] >= mem["seq"][n].view["result"]
    BY <1>1, <1>2, <1>3, AcquireLoad, Zenon
  <2>4. mem["seq"][n].view \in View /\ cur'[t] \in View
    BY <1>2, <1>3, <1>6, VisibleEntry, Zenon DEF TypeOK
  <2>5. /\ mem["seq"][n].view["key"] \in Nat /\ mem["seq"][n].view["result"] \in Nat
        /\ cur'[t]["key"] \in Nat /\ cur'[t]["result"] \in Nat
    BY <1>3, <2>4, Zenon DEF View
  <2>6. 2 * mem["seq"][n].view["key"] >= n + 1 /\ 2 * mem["seq"][n].view["result"] >= n + 1 /\ n + 1 \in Nat
    BY <1>4, <1>5, <2>2
  <2>7. 2 * cur'[t]["key"] >= n + 1 /\ 2 * cur'[t]["result"] >= n + 1
    BY <1>4, <2>3, <2>5, <2>6, Twice, Zenon
  <2> QED BY <1>4, <1>7, <2>2, <2>7
<1>10. \A u \in Thread \ {t} : Same(u)
  BY <1>1, <1>2, <1>3, AcquireLoad, Zenon DEF Same, TypeOK
<1>11. NeverTorn'
  BY <1>2, Zenon DEF IndInv, NeverTorn
<1> QED BY <1>2, <1>6, <1>7, <1>8, <1>9, <1>10, <1>11, LocalStep, Zenon DEF Writing

\* get reads the key.
LEMMA GetKeyKeeps ==
    ASSUME IndInv, NEW t \in Thread, GetKey(t)
    PROVE  IndInv'
<1>1. PICK n \in Visible(t, "key") :
        LoadRelaxed(t, "key", n) /\ k' = [k EXCEPT ![t] = mem["key"][n].val]
  BY Zenon DEF GetKey
<1>2. /\ UNCHANGED <<mem, rel, key, s, r, hits>> /\ TypeOK
      /\ pc[t] = "getkey" /\ pc' = [pc EXCEPT ![t] = "getresult"]
  BY Zenon DEF GetKey, Goto, IndInv
<1>3. "seq" \in Loc /\ "key" \in Loc /\ "result" \in Loc
  BY Zenon DEF Loc
<1>4. /\ n \in 1..Len(Keys) /\ n \in Nat \ {0} /\ n >= cur[t]["key"]
      /\ Keys[n].val \in Value /\ Keys[n].view \in View
  BY <1>2, <1>3, VisibleEntry, Zenon DEF Keys
<1>5. /\ cur' \in [Thread -> View] /\ acq' \in [Thread -> View]
      /\ \A u \in Thread \ {t} : cur'[u] = cur[u] /\ acq'[u] = acq[u]
      /\ \A x \in Loc : cur'[t][x] = IF x = "key" THEN n ELSE cur[t][x]
      /\ \A x \in Loc : acq'[t][x] >= acq[t][x] /\ acq'[t][x] >= Keys[n].view[x]
  BY <1>1, <1>2, <1>3, RelaxedLoad, Zenon DEF Keys
<1>6. TypeOK'
  BY <1>1, <1>2, <1>4, <1>5, Zenon DEF TypeOK, Keys, Reading
<1>7. pc'[t] = "getresult" /\ k'[t] = Keys[n].val /\ s'[t] = s[t] /\ key'[t] = key[t]
  BY <1>1, <1>2, Zenon DEF TypeOK, Keys
<1>8. WriterAt(t)'
  BY <1>7, Zenon DEF WriterAt, Writing
<1>9. /\ key[t] \in Key /\ s[t] \in Nat /\ s[t] \in Even
      /\ 2 * cur[t]["key"] >= s[t] + 2 /\ 2 * cur[t]["result"] >= s[t] + 2
  BY <1>2, Zenon DEF IndInv, ReaderInv, ReaderAt, Reading, TypeOK
<1>10. \A x \in Loc : cur[t][x] \in Nat /\ acq[t][x] \in Nat /\ acq'[t][x] \in Nat /\ Keys[n].view[x] \in Nat
  BY <1>2, <1>4, <1>6 DEF TypeOK, View
<1>11. cur[t]["key"] \in Nat /\ acq[t]["seq"] \in Nat /\ acq'[t]["seq"] \in Nat /\ Keys[n].view["seq"] \in Nat
  BY <1>3, <1>10, Zenon
<1>12. 2 * n >= s[t] + 2
  <2>1. n \in Nat /\ s[t] + 2 \in Nat
    BY <1>4, <1>9
  <2> QED BY <1>4, <1>9, <1>11, <2>1, Twice, Zenon
<1>13. 2 * cur'[t]["key"] >= s[t] + 2 /\ 2 * cur'[t]["result"] >= s[t] + 2
  BY <1>3, <1>5, <1>9, <1>12, Zenon
<1>14. acq'[t]["seq"] >= s[t] + 2 \/ HasKey(t)'
  <2>1. CASE 2 * n = s[t] + 2
    <3>1. \A j \in Nat : 2 * j = s[t] + 2 => j = n
      BY <1>4, <1>9, <2>1
    <3>2. n <= Len(Keys) /\ Keys' = Keys /\ s' = s
      BY <1>2, <1>4 DEF Keys
    <3> QED BY <1>7, <3>1, <3>2, Zenon DEF HasKey, Keys
  <2>2. CASE 2 * n # s[t] + 2
    <3>1. 2 * (n - 1) >= s[t] + 2
      BY <1>4, <1>9, <1>12, <2>2, NextEven, Zenon
    <3>2. Keys[n].view["seq"] >= 2 * (n - 1)
      BY <1>4, Zenon DEF IndInv, DataInv
    <3>3. acq'[t]["seq"] >= Keys[n].view["seq"]
      BY <1>3, <1>5, Zenon
    <3> QED BY <1>4, <1>9, <1>11, <3>1, <3>2, <3>3, SMTT(60)
  <2> QED BY <2>1, <2>2, Zenon
<1>16. ReaderAt(t)'
  BY <1>7, <1>9, <1>13, <1>14, Zenon DEF ReaderAt
<1>17. \A u \in Thread \ {t} : Same(u)
  BY <1>1, <1>2, <1>5, Zenon DEF Same, TypeOK
<1>18. NeverTorn'
  BY <1>2, Zenon DEF IndInv, NeverTorn
<1> QED BY <1>2, <1>6, <1>7, <1>8, <1>16, <1>17, <1>18, LocalStep, Zenon DEF Writing

\* get reads the result.
LEMMA GetResultKeeps ==
    ASSUME IndInv, NEW t \in Thread, GetResult(t)
    PROVE  IndInv'
<1>1. PICK n \in Visible(t, "result") :
        LoadRelaxed(t, "result", n) /\ r' = [r EXCEPT ![t] = mem["result"][n].val]
  BY Zenon DEF GetResult
<1>2. /\ UNCHANGED <<mem, rel, key, s, k, hits>> /\ TypeOK
      /\ pc[t] = "getresult" /\ pc' = [pc EXCEPT ![t] = "getfence"]
  BY Zenon DEF GetResult, Goto, IndInv
<1>3. "seq" \in Loc /\ "key" \in Loc /\ "result" \in Loc
  BY Zenon DEF Loc
<1>4. /\ n \in 1..Len(Results) /\ n \in Nat \ {0} /\ n >= cur[t]["result"]
      /\ Results[n].val \in Value /\ Results[n].view \in View
  BY <1>2, <1>3, VisibleEntry, Zenon DEF Results
<1>5. /\ cur' \in [Thread -> View] /\ acq' \in [Thread -> View]
      /\ \A u \in Thread \ {t} : cur'[u] = cur[u] /\ acq'[u] = acq[u]
      /\ \A x \in Loc : cur'[t][x] = IF x = "result" THEN n ELSE cur[t][x]
      /\ \A x \in Loc : acq'[t][x] >= acq[t][x] /\ acq'[t][x] >= Results[n].view[x]
  BY <1>1, <1>2, <1>3, RelaxedLoad, Zenon DEF Results
<1>6. TypeOK'
  BY <1>1, <1>2, <1>4, <1>5, Zenon DEF TypeOK, Results, Reading
<1>7. pc'[t] = "getfence" /\ r'[t] = Results[n].val /\ s'[t] = s[t] /\ key'[t] = key[t]
  BY <1>1, <1>2, Zenon DEF TypeOK, Results
<1>8. WriterAt(t)'
  BY <1>7, Zenon DEF WriterAt, Writing
<1>9. /\ key[t] \in Key /\ s[t] \in Nat /\ s[t] \in Even
      /\ 2 * cur[t]["key"] >= s[t] + 2 /\ 2 * cur[t]["result"] >= s[t] + 2
  BY <1>2, Zenon DEF IndInv, ReaderInv, ReaderAt, Reading, TypeOK
<1>10. \A x \in Loc : cur[t][x] \in Nat /\ acq[t][x] \in Nat /\ acq'[t][x] \in Nat /\ Results[n].view[x] \in Nat
  BY <1>2, <1>4, <1>6 DEF TypeOK, View
<1>11. cur[t]["result"] \in Nat /\ acq[t]["seq"] \in Nat /\ acq'[t]["seq"] \in Nat /\ Results[n].view["seq"] \in Nat
  BY <1>3, <1>10, Zenon
<1>12. 2 * n >= s[t] + 2
  <2>1. n \in Nat /\ s[t] + 2 \in Nat
    BY <1>4, <1>9
  <2> QED BY <1>4, <1>9, <1>11, <2>1, Twice, Zenon
<1>13. 2 * cur'[t]["key"] >= s[t] + 2 /\ 2 * cur'[t]["result"] >= s[t] + 2
  BY <1>3, <1>5, <1>9, <1>12, Zenon
<1>14. acq'[t]["seq"] >= s[t] + 2 \/ HasResult(t)'
  <2>1. CASE 2 * n = s[t] + 2
    <3>1. \A j \in Nat : 2 * j = s[t] + 2 => j = n
      BY <1>4, <1>9, <2>1
    <3>2. n <= Len(Results) /\ Results' = Results /\ s' = s
      BY <1>2, <1>4 DEF Results
    <3> QED BY <1>7, <3>1, <3>2, Zenon DEF HasResult, Results
  <2>2. CASE 2 * n # s[t] + 2
    <3>1. 2 * (n - 1) >= s[t] + 2
      BY <1>4, <1>9, <1>12, <2>2, NextEven, Zenon
    <3>2. Results[n].view["seq"] >= 2 * (n - 1)
      BY <1>4, Zenon DEF IndInv, DataInv
    <3>3. acq'[t]["seq"] >= Results[n].view["seq"]
      BY <1>3, <1>5, Zenon
    <3> QED BY <1>4, <1>9, <1>11, <3>1, <3>2, <3>3, SMTT(60)
  <2> QED BY <2>1, <2>2, Zenon
<1>15. acq'[t]["seq"] >= s[t] + 2 \/ HasKey(t)'
  <2>1. acq[t]["seq"] >= s[t] + 2 \/ HasKey(t)
    BY <1>2, Zenon DEF IndInv, ReaderInv, ReaderAt, Reading
  <2>2. HasKey(t) => HasKey(t)'
    BY <1>2, Zenon DEF HasKey, Keys
  <2>3. acq'[t]["seq"] >= acq[t]["seq"]
    BY <1>3, <1>5, Zenon
  <2> QED BY <1>9, <1>11, <2>1, <2>2, <2>3
<1>16. ReaderAt(t)'
  BY <1>7, <1>9, <1>13, <1>14, <1>15, Zenon DEF ReaderAt
<1>17. \A u \in Thread \ {t} : Same(u)
  BY <1>1, <1>2, <1>5, Zenon DEF Same, TypeOK
<1>18. NeverTorn'
  BY <1>2, Zenon DEF IndInv, NeverTorn
<1> QED BY <1>2, <1>6, <1>7, <1>8, <1>16, <1>17, <1>18, LocalStep, Zenon DEF Writing

\* The acquire fence of get, before it reads seq again.
LEMMA GetFenceKeeps ==
    ASSUME IndInv, NEW t \in Thread, GetFence(t)
    PROVE  IndInv'
<1>1. /\ cur' = [cur EXCEPT ![t] = Merge(cur[t], acq[t])] /\ pc' = [pc EXCEPT ![t] = "getcheck"]
      /\ UNCHANGED <<mem, acq, rel, key, s, k, r, hits>> /\ pc[t] = "getfence" /\ TypeOK
  BY Zenon DEF GetFence, Goto, IndInv
<1>2. "seq" \in Loc /\ "key" \in Loc /\ "result" \in Loc
  BY Zenon DEF Loc
<1>3. cur[t] \in View /\ acq[t] \in View /\ s[t] \in Nat
  BY <1>1, Zenon DEF TypeOK
<1>4. Merge(cur[t], acq[t]) \in View /\ cur'[t] = Merge(cur[t], acq[t]) /\ pc'[t] = "getcheck"
  BY <1>1, <1>3, MergeView, Zenon DEF TypeOK
<1>5. TypeOK'
  BY <1>1, <1>4, Zenon DEF TypeOK, Reading
<1>6. \A x \in Loc : cur'[t][x] >= cur[t][x] /\ cur'[t][x] >= acq[t][x]
  BY <1>3, <1>4, MergeView, Zenon
<1>7. \A x \in Loc : cur[t][x] \in Nat /\ cur'[t][x] \in Nat /\ acq[t][x] \in Nat
  BY <1>3, <1>4, Zenon DEF View
<1>8. WriterAt(t)'
  BY <1>4, Zenon DEF WriterAt, Writing
<1>9. /\ key[t] \in Key /\ s[t] \in Even /\ 2 * cur[t]["key"] >= s[t] + 2 /\ 2 * cur[t]["result"] >= s[t] + 2
      /\ acq[t]["seq"] >= s[t] + 2 \/ (HasKey(t) /\ HasResult(t))
  BY <1>1, Zenon DEF IndInv, ReaderInv, ReaderAt, Reading
<1>10. 2 * cur'[t]["key"] >= s[t] + 2 /\ 2 * cur'[t]["result"] >= s[t] + 2
  BY <1>2, <1>3, <1>6, <1>7, <1>9, Twice
<1>11. cur'[t]["seq"] >= s[t] + 2 \/ (HasKey(t) /\ HasResult(t))
  BY <1>2, <1>3, <1>6, <1>7, <1>9
<1>12. ReaderAt(t)'
  BY <1>1, <1>4, <1>9, <1>10, <1>11, Zenon DEF ReaderAt, HasKey, HasResult, Keys, Results
<1>13. \A u \in Thread \ {t} : Same(u)
  BY <1>1, Zenon DEF Same, TypeOK
<1>14. NeverTorn'
  BY <1>1, Zenon DEF IndInv, NeverTorn
<1> QED BY <1>1, <1>4, <1>5, <1>8, <1>12, <1>13, <1>14, LocalStep, Zenon DEF Writing

\* The second load of seq refuses what a later put may have written.
LEMMA GetCheckKeeps ==
    ASSUME IndInv, NEW t \in Thread, GetCheck(t)
    PROVE  IndInv'
<1>1. PICK n \in Visible(t, "seq") :
        /\ LoadRelaxed(t, "seq", n)
        /\ hits' = IF mem["seq"][n].val # s[t] \/ k[t] # key[t] THEN hits ELSE hits \cup {<<key[t], r[t]>>}
  BY Zenon DEF GetCheck
<1>2. /\ UNCHANGED <<mem, rel, key, s, k, r>> /\ TypeOK
      /\ pc[t] = "getcheck" /\ pc' = [pc EXCEPT ![t] = "idle"]
  BY Zenon DEF GetCheck, Goto, IndInv
<1>3. "seq" \in Loc
  BY Zenon DEF Loc
<1>4. n \in 1..Len(Seqs) /\ n \in Nat \ {0} /\ n >= cur[t]["seq"]
  BY <1>2, <1>3, VisibleEntry, Zenon DEF Seqs
<1>5. /\ cur' \in [Thread -> View] /\ acq' \in [Thread -> View]
      /\ \A u \in Thread \ {t} : cur'[u] = cur[u] /\ acq'[u] = acq[u]
  BY <1>1, <1>2, <1>3, RelaxedLoad, Zenon
<1>6. TypeOK'
  BY <1>2, <1>5, Zenon DEF TypeOK
<1>7. pc'[t] = "idle"
  BY <1>2, Zenon DEF TypeOK
<1>8. WriterAt(t)' /\ ReaderAt(t)'
  BY <1>7, Zenon DEF WriterAt, Writing, ReaderAt, Reading
<1>9. \A u \in Thread \ {t} : Same(u)
  BY <1>2, <1>5, Zenon DEF Same, TypeOK
<1>10. mem["seq"][n].val = s[t] /\ k[t] = key[t] => r[t] = ResultOf[key[t]]
  <2>1. SUFFICES ASSUME mem["seq"][n].val = s[t], k[t] = key[t]
                 PROVE  r[t] = ResultOf[key[t]]
    BY Zenon
  <2>2. n - 1 = s[t]
    BY <1>4, <2>1, Zenon DEF IndInv, SeqInv, Seqs
  <2>3. /\ key[t] \in Key /\ s[t] \in Nat /\ s[t] \in Even /\ cur[t]["seq"] \in Nat
        /\ cur[t]["seq"] >= s[t] + 2 \/ (HasKey(t) /\ HasResult(t))
    BY <1>2, <1>3, Zenon DEF IndInv, ReaderInv, ReaderAt, Reading, TypeOK, View
  <2>4. HasKey(t) /\ HasResult(t)
    BY <1>4, <2>2, <2>3
  <2>5. PICK j \in Nat : 2 * j = s[t] + 2
    <3>1. PICK i \in Nat : s[t] = 2 * i
      BY <2>3, EvenHalf, Zenon
    <3>2. 2 * (i + 1) = s[t] + 2 /\ i + 1 \in Nat
      BY <3>1
    <3> QED BY <3>2, Zenon
  <2>6. j <= Len(Results) /\ k[t] = Keys[j].val /\ r[t] = Results[j].val
    BY <2>4, <2>5, Zenon DEF HasKey, HasResult
  <2>7. j # 1
    BY <2>1, <2>3, <2>6, CacheAssumption, Zenon DEF IndInv, DataInv
  <2>8. j >= 2 /\ j \in 1..Len(Results)
    BY <1>2, <2>3, <2>5, <2>6, <2>7 DEF TypeOK, Results, Loc
  <2> QED BY <2>1, <2>6, <2>8, Zenon DEF IndInv, DataInv
<1>11. NeverTorn'
  BY <1>1, <1>10 DEF IndInv, NeverTorn
<1> QED BY <1>2, <1>6, <1>7, <1>8, <1>9, <1>11, LocalStep, Zenon DEF Writing

-----------------------------------------------------------------------------
\* union_cache_put. A write is the next entry of one history.
LEMMA Written ==
    ASSUME TypeOK, NEW l \in Loc, NEW e \in Entry, mem' = [mem EXCEPT ![l] = Append(@, e)]
    PROVE  /\ mem' \in [Loc -> Seq(Entry)] /\ Grows
           /\ Len(mem[l]) \in Nat /\ Len(mem'[l]) = Len(mem[l]) + 1 /\ mem'[l][Len(mem[l]) + 1] = e
           /\ \A x \in Loc \ {l} : mem'[x] = mem[x]
<1>1. mem \in [Loc -> Seq(Entry)] /\ mem'[l] = Append(mem[l], e)
  BY Zenon DEF TypeOK
<1>2. \A x \in Loc \ {l} : mem'[x] = mem[x]
  BY <1>1, Zenon
<1>3. mem[l] \in Seq(Entry) /\ Len(mem[l]) \in Nat
  BY <1>1
<1>4. /\ Append(mem[l], e) \in Seq(Entry) /\ Len(Append(mem[l], e)) = Len(mem[l]) + 1
      /\ Append(mem[l], e)[Len(mem[l]) + 1] = e
      /\ \A n \in 1..Len(mem[l]) : Append(mem[l], e)[n] = mem[l][n]
  BY <1>3
<1>5. \A x \in Loc : Len(mem[x]) \in Nat
  BY <1>1
<1>6. Grows
  BY <1>1, <1>2, <1>3, <1>4, <1>5 DEF Grows
<1> QED BY <1>1, <1>2, <1>3, <1>4, <1>6, Zenon

\* seq goes on counting.
LEMMA SeqGrows ==
    ASSUME SeqInv, Len(Seqs) \in Nat, Grows, Len(Seqs') = Len(Seqs) + 1, Len(Seqs) + 1 <= 2 * MaxPuts + 1,
           Seqs'[Len(Seqs) + 1].val = Len(Seqs),
           Len(Seqs) \in Even => /\ 2 * Seqs'[Len(Seqs) + 1].view["key"] >= Len(Seqs) + 2
                                 /\ 2 * Seqs'[Len(Seqs) + 1].view["result"] >= Len(Seqs) + 2
    PROVE  SeqInv'
<1> DEFINE N == Len(Seqs) + 1
<1>1. \A x \in 1..Len(Seqs) : Seqs'[x] = Seqs[x]
  BY Zenon DEF Grows, Seqs, Loc
<1>2. ASSUME NEW x \in 1..N
      PROVE  /\ Seqs'[x].val = x - 1
             /\ x - 1 \in Even => 2 * Seqs'[x].view["key"] >= x + 1 /\ 2 * Seqs'[x].view["result"] >= x + 1
  <2>1. CASE x \in 1..Len(Seqs)
    BY <1>1, <2>1, Zenon DEF SeqInv
  <2>2. CASE x = N
    <3>1. x - 1 = Len(Seqs) /\ x + 1 = Len(Seqs) + 2
      BY <2>2
    <3> QED BY <2>2, <3>1, Zenon
  <2> QED BY <2>1, <2>2
<1> QED BY <1>2 DEF SeqInv

\* put reads seq.
LEMMA PutLoadKeeps ==
    ASSUME IndInv, NEW t \in Thread, PutLoad(t)
    PROVE  IndInv'
<1>1. PICK q \in Key, n \in Visible(t, "seq") :
        /\ LoadRelaxed(t, "seq", n) /\ key' = [key EXCEPT ![t] = q]
        /\ s' = [s EXCEPT ![t] = mem["seq"][n].val]
        /\ pc' = [pc EXCEPT ![t] = IF mem["seq"][n].val % 2 = 1 THEN "idle" ELSE "putclaim"]
  BY Zenon DEF PutLoad, Goto
<1>2. UNCHANGED <<mem, rel, k, r, hits>> /\ TypeOK /\ Len(Seqs) <= 2 * MaxPuts
  BY Zenon DEF PutLoad, IndInv, Last, Seqs
<1>3. "seq" \in Loc
  BY Zenon DEF Loc
<1>4. n \in 1..Len(Seqs) /\ n \in Nat \ {0} /\ Len(Seqs) \in Nat
  BY <1>2, <1>3, VisibleEntry DEF Seqs, TypeOK
<1>5. mem["seq"][n].val = n - 1
  BY <1>4, Zenon DEF IndInv, SeqInv, Seqs
<1>6. /\ cur' \in [Thread -> View] /\ acq' \in [Thread -> View]
      /\ \A u \in Thread \ {t} : cur'[u] = cur[u] /\ acq'[u] = acq[u]
  BY <1>1, <1>2, <1>3, RelaxedLoad, Zenon
<1>7. TypeOK'
  BY <1>1, <1>2, <1>4, <1>5, <1>6 DEF TypeOK
<1>8. pc'[t] \in {"idle", "putclaim"} /\ s'[t] = n - 1 /\ key'[t] = q /\ (pc'[t] = "putclaim" => (n - 1) % 2 # 1)
  BY <1>1, <1>2, <1>5, Zenon DEF TypeOK
<1>9. (n - 1) % 2 # 1 => n - 1 \in Even
  <2>1. n - 1 \in Nat
    BY <1>4
  <2> QED BY <2>1, EvenNext, Zenon
<1>10. n - 1 + 1 <= 2 * MaxPuts
  BY <1>2, <1>4, CacheAssumption
<1>11. WriterAt(t)'
  BY <1>8, <1>9, <1>10, Zenon DEF WriterAt, Writing
<1>12. ReaderAt(t)'
  BY <1>8, Zenon DEF ReaderAt, Reading
<1>13. \A u \in Thread \ {t} : Same(u)
  BY <1>1, <1>2, <1>6, Zenon DEF Same, TypeOK
<1>14. NeverTorn'
  BY <1>2, Zenon DEF IndInv, NeverTorn
<1> QED BY <1>2, <1>7, <1>8, <1>11, <1>12, <1>13, <1>14, LocalStep, Zenon DEF Writing

\* The claim: while seq is even nobody writes, and the claim makes it odd.
LEMMA PutClaimKeeps ==
    ASSUME IndInv, NEW t \in Thread, PutClaim(t)
    PROVE  IndInv'
<1> DEFINE last == mem["seq"][Last("seq")]
           n == Last("seq") + 1
           e == [val |-> (s[t] + 1) % SeqMod, view |-> [Merge(last.view, rel[t]) EXCEPT !["seq"] = n]]
<1>1. /\ pc[t] = "putclaim" /\ UNCHANGED <<acq, rel, key, s, k, r, hits>> /\ TypeOK
      /\ \/ /\ last.val # s[t] /\ pc' = [pc EXCEPT ![t] = "idle"] /\ UNCHANGED <<mem, cur>>
         \/ /\ last.val = s[t] /\ pc' = [pc EXCEPT ![t] = "putfence"]
            /\ mem' = [mem EXCEPT !["seq"] = Append(@, e)]
            /\ cur' = [cur EXCEPT ![t] = [Merge(cur[t], last.view) EXCEPT !["seq"] = n]]
  BY Zenon DEF PutClaim, Goto, IndInv
<1>2. NeverTorn'
  BY <1>1, Zenon DEF IndInv, NeverTorn
<1>3. CASE mem' = mem /\ cur' = cur /\ pc' = [pc EXCEPT ![t] = "idle"]
  <2>1. TypeOK' /\ pc'[t] = "idle"
    BY <1>1, <1>3, Zenon DEF TypeOK
  <2>2. WriterAt(t)' /\ ReaderAt(t)'
    BY <2>1, Zenon DEF WriterAt, Writing, ReaderAt, Reading
  <2>3. \A u \in Thread \ {t} : Same(u)
    BY <1>1, <1>3, Zenon DEF Same, TypeOK
  <2> QED BY <1>2, <1>3, <2>1, <2>2, <2>3, LocalStep, Zenon DEF Writing
<1>4. CASE /\ last.val = s[t] /\ pc' = [pc EXCEPT ![t] = "putfence"]
           /\ mem' = [mem EXCEPT !["seq"] = Append(@, e)]
           /\ cur' = [cur EXCEPT ![t] = [Merge(cur[t], last.view) EXCEPT !["seq"] = n]]
  <2>1. "seq" \in Loc /\ "key" \in Loc /\ "result" \in Loc
    BY Zenon DEF Loc
  <2>2. /\ Len(Seqs) \in Nat /\ Len(Seqs) >= 1 /\ last = Seqs[Len(Seqs)] /\ n = Len(Seqs) + 1
        /\ last \in Entry /\ last.view \in View
    <3>1. mem["seq"] \in Seq(Entry) /\ Len(mem["seq"]) \in Nat /\ Len(mem["seq"]) >= 1
      BY <1>1, <2>1 DEF TypeOK, IndInv, SeqInv, Seqs
    <3>2. last \in Entry
      BY <3>1 DEF Last
    <3> QED BY <3>1, <3>2, Zenon DEF Last, Seqs, Entry
  <2>3. /\ s[t] \in Nat /\ s[t] = Len(Seqs) - 1 /\ s[t] \in Even /\ s[t] + 1 <= 2 * MaxPuts /\ key[t] \in Key
    BY <1>1, <1>4, <2>2 DEF IndInv, SeqInv, WriterInv, WriterAt, TypeOK
  <2>4. /\ n = s[t] + 2 /\ n \in Nat \ {0} /\ Len(Seqs) - 1 \in Even /\ Len(Seqs) \notin Even
        /\ (s[t] + 1) % SeqMod = s[t] + 1
    <3>1. n = s[t] + 2 /\ n \in Nat \ {0} /\ Len(Seqs) - 1 = s[t] /\ s[t] + 1 = Len(Seqs)
      BY <2>2, <2>3
    <3>2. s[t] + 1 \notin Even
      BY <2>3, EvenNext, Zenon
    <3>3. (s[t] + 1) % SeqMod = s[t] + 1
      BY <2>3, NoWrap
    <3> QED BY <2>3, <3>1, <3>2, <3>3, Zenon
  <2>5. e \in Entry /\ e.val = n - 1
    <3>1. Merge(last.view, rel[t]) \in View
      BY <1>1, <2>2, MergeView, Zenon DEF TypeOK
    <3>2. [Merge(last.view, rel[t]) EXCEPT !["seq"] = n] \in View
      BY <2>1, <2>4, <3>1, Zenon DEF View
    <3>3. s[t] + 1 \in Value
      BY <2>3 DEF Value
    <3> QED BY <2>3, <2>4, <3>2, <3>3 DEF Entry
  <2>6. /\ mem' \in [Loc -> Seq(Entry)] /\ Grows
        /\ Len(Seqs') = n /\ Seqs'[n] = e /\ Keys' = Keys /\ Results' = Results
    <3>1. /\ mem' \in [Loc -> Seq(Entry)] /\ Grows
          /\ Len(mem'["seq"]) = Len(mem["seq"]) + 1 /\ mem'["seq"][Len(mem["seq"]) + 1] = e
          /\ \A x \in Loc \ {"seq"} : mem'[x] = mem[x]
      BY <1>1, <1>4, <2>1, <2>5, Written, Zenon
    <3>2. Keys' = Keys /\ Results' = Results
      BY <2>1, <3>1, Zenon DEF Keys, Results
    <3>3. n = Len(mem["seq"]) + 1
      BY <2>2, Zenon DEF Seqs
    <3> QED BY <3>1, <3>2, <3>3, Zenon DEF Seqs
  <2>7. [Merge(cur[t], last.view) EXCEPT !["seq"] = n] \in View
    <3>1. Merge(cur[t], last.view) \in View
      BY <1>1, <2>2, MergeView, Zenon DEF TypeOK
    <3> QED BY <2>1, <2>4, <3>1, Zenon DEF View
  <2>8. TypeOK' /\ pc'[t] = "putfence" /\ cur'[t]["seq"] = n
    <3>1. cur'[t]["seq"] = n
      <4>1. Merge(cur[t], last.view) \in View
        BY <1>1, <2>2, MergeView, Zenon DEF TypeOK
      <4> QED BY <1>1, <1>4, <2>1, <4>1, Zenon DEF TypeOK, View
    <3> QED BY <1>1, <1>4, <2>6, <2>7, <3>1, Zenon DEF TypeOK, Writing
  <2>9. SeqInv'
    <3>1. n <= 2 * MaxPuts + 1
      BY <2>3, <2>4, CacheAssumption
    <3> QED BY <2>2, <2>4, <2>5, <2>6, <3>1, SeqGrows DEF IndInv
  <2>10. DataInv'
    BY <2>6, Zenon DEF IndInv, DataInv
  <2>11. Odd'
    <3>1. Len(Seqs') - 1 = s[t] + 1 /\ s[t] + 1 = Len(Seqs)
      BY <2>3, <2>4, <2>6
    <3> QED BY <2>4, <3>1, Zenon DEF Odd
  <2>12. 2 * Len(Keys) = s[t] + 2 /\ 2 * Len(Results) = s[t] + 2
    <3>1. 2 * Len(Keys) = Len(Seqs) + 1 /\ 2 * Len(Results) = Len(Seqs) + 1
      BY <2>4, Zenon DEF IndInv, WriterInv
    <3> QED BY <2>2, <2>3, <3>1
  <2>13. WriterAt(t)'
    <3>1. s'[t] = s[t] /\ key'[t] = key[t] /\ Len(Seqs') = s[t] + 2 /\ cur'[t]["seq"] = s[t] + 2
      BY <1>1, <2>4, <2>6, <2>8, Zenon
    <3>2. s[t] + 2 >= s[t] + 2
      BY <2>3
    <3> QED BY <2>3, <2>6, <2>8, <2>12, <3>1, <3>2, Zenon DEF WriterAt, Writing
  <2>14. ReaderAt(t)'
    BY <2>8, Zenon DEF ReaderAt, Reading
  <2>15. \A u \in Thread : pc[u] \notin Writing
    <3>1. SUFFICES ASSUME NEW u \in Thread, pc[u] \in Writing PROVE FALSE
      BY Zenon
    <3>2. s[u] \in Nat /\ s[u] \in Even /\ Len(Seqs) = s[u] + 2
      BY <1>1, <3>1, Zenon DEF IndInv, WriterInv, WriterAt, TypeOK
    <3>3. s[u] + 1 = s[t]
      BY <2>3, <3>2
    <3> QED BY <2>3, <3>2, <3>3, EvenNext, Zenon
  <2>16. \A u \in Thread \ {t} : Same(u)
    BY <1>1, <1>4, Zenon DEF Same, TypeOK
  <2> QED BY <1>2, <2>6, <2>8, <2>9, <2>10, <2>11, <2>13, <2>14, <2>15, <2>16, StepOf, Zenon
<1> QED BY <1>1, <1>3, <1>4, Zenon

\* The release fence of put, between seq and the data.
LEMMA PutFenceKeeps ==
    ASSUME IndInv, NEW t \in Thread, PutFence(t)
    PROVE  IndInv'
<1>1. /\ rel' = [rel EXCEPT ![t] = cur[t]] /\ pc' = [pc EXCEPT ![t] = "putkey"]
      /\ UNCHANGED <<mem, cur, acq, key, s, k, r, hits>> /\ pc[t] = "putfence" /\ TypeOK
  BY Zenon DEF PutFence, Goto, IndInv
<1>2. TypeOK' /\ pc'[t] = "putkey" /\ rel'[t] = cur[t]
  BY <1>1, Zenon DEF TypeOK, Writing
<1>3. WriterAt(t)'
  BY <1>1, <1>2, Zenon DEF IndInv, WriterInv, WriterAt, Writing, Seqs, Keys, Results
<1>4. ReaderAt(t)'
  BY <1>2, Zenon DEF ReaderAt, Reading
<1>5. \A u \in Thread \ {t} : Same(u)
  BY <1>1, Zenon DEF Same, TypeOK
<1>6. NeverTorn'
  BY <1>1, Zenon DEF IndInv, NeverTorn
<1> QED BY <1>1, <1>2, <1>3, <1>4, <1>5, <1>6, LocalStep, Zenon DEF Writing

\* put writes the key.
LEMMA PutKeyKeeps ==
    ASSUME IndInv, NEW t \in Thread, PutKey(t)
    PROVE  IndInv'
<1> DEFINE n == Len(Keys) + 1
           e == [val |-> key[t], view |-> [rel[t] EXCEPT !["key"] = n]]
<1>1. /\ mem' = [mem EXCEPT !["key"] = Append(@, e)] /\ cur' = [cur EXCEPT ![t] = [cur[t] EXCEPT !["key"] = n]]
      /\ pc' = [pc EXCEPT ![t] = "putresult"] /\ pc[t] = "putkey"
      /\ UNCHANGED <<acq, rel, key, s, k, r, hits>> /\ TypeOK
  BY Zenon DEF PutKey, Store, Goto, Last, Keys, IndInv
<1>2. "seq" \in Loc /\ "key" \in Loc /\ "result" \in Loc
  BY Zenon DEF Loc
<1>3. /\ key[t] \in Key /\ s[t] \in Nat /\ s[t] \in Even /\ Len(Seqs) = s[t] + 2 /\ s[t] + 1 <= 2 * MaxPuts
      /\ 2 * Len(Keys) = s[t] + 2 /\ 2 * Len(Results) = s[t] + 2 /\ rel[t]["seq"] >= s[t] + 2
  BY <1>1, Zenon DEF IndInv, WriterInv, WriterAt, Writing, TypeOK
<1>4. Len(Keys) \in Nat /\ Len(Results) \in Nat /\ n \in Nat \ {0} /\ rel[t] \in View /\ cur[t] \in View
  BY <1>1, <1>2 DEF TypeOK, Keys, Results
<1>5. /\ [rel[t] EXCEPT !["key"] = n] \in View /\ [rel[t] EXCEPT !["key"] = n]["seq"] = rel[t]["seq"]
      /\ [cur[t] EXCEPT !["key"] = n] \in View /\ [cur[t] EXCEPT !["key"] = n]["key"] = n
  BY <1>2, <1>4, Zenon DEF View
<1>6. e \in Entry /\ e.val = key[t] /\ e.view["seq"] = rel[t]["seq"]
  BY <1>3, <1>5, Zenon DEF Entry, Value
<1>7. /\ mem' \in [Loc -> Seq(Entry)] /\ Grows
      /\ Len(Keys') = n /\ Keys'[n] = e /\ Seqs' = Seqs /\ Results' = Results
  BY <1>1, <1>2, <1>6, Written, Zenon DEF Seqs, Keys, Results, Loc
<1>8. TypeOK' /\ pc'[t] = "putresult" /\ cur'[t]["key"] = n
  <2>1. cur' \in [Thread -> View] /\ cur'[t]["key"] = n
    BY <1>1, <1>5, Zenon DEF TypeOK
  <2> QED BY <1>1, <1>7, <2>1, Zenon DEF TypeOK, Writing
<1>9. SeqInv' /\ Odd'
  <2>1. SeqInv'
    BY <1>7, Zenon DEF IndInv, SeqInv
  <2>2. Len(Seqs') - 1 \notin Even
    <3>1. Len(Seqs') - 1 = s[t] + 1
      BY <1>3, <1>7
    <3> QED BY <1>3, <3>1, EvenNext, Zenon
  <2> QED BY <2>1, <2>2, Zenon DEF Odd
<1>10. DataInv'
  <2>1. \A j \in 1..Len(Keys) : Keys'[j] = Keys[j]
    BY <1>2, <1>7, Zenon DEF Grows, Keys
  <2>2. rel[t]["seq"] >= 2 * (n - 1)
    <3>1. n - 1 = Len(Keys)
      BY <1>4
    <3> QED BY <1>3, <3>1, Zenon
  <2>3. ASSUME NEW j \in 1..n
        PROVE  Keys'[j].view["seq"] >= 2 * (j - 1) /\ (j >= 2 => Keys'[j].val \in Key)
    <3>1. CASE j \in 1..Len(Keys)
      BY <2>1, <3>1, Zenon DEF IndInv, DataInv
    <3>2. CASE j = n
      BY <1>3, <1>6, <1>7, <2>2, <3>2, Zenon
    <3> QED BY <1>4, <3>1, <3>2
  <2>4. ASSUME NEW j \in 1..Len(Results)
        PROVE  Results[j].view["seq"] >= 2 * (j - 1) /\ (j >= 2 => Results[j].val = ResultOf[Keys'[j].val])
    <3>1. j \in 1..Len(Keys)
      BY <1>4 DEF IndInv, DataInv
    <3> QED BY <2>1, <3>1, Zenon DEF IndInv, DataInv
  <2>5. Keys'[1].val = 0 /\ n >= 1 /\ Len(Results) <= n /\ Len(Results) >= 1
    BY <1>4, <2>1 DEF IndInv, DataInv
  <2> QED BY <1>7, <2>3, <2>4, <2>5, Zenon DEF DataInv
<1>11. WriterAt(t)'
  <2>1. 2 * n = s[t] + 4 /\ s[t] + 4 >= s[t] + 4
    BY <1>3, <1>4, Double, Zenon
  <2>2. s'[t] = s[t] /\ key'[t] = key[t] /\ rel'[t] = rel[t] /\ Keys'[n].val = key[t]
    BY <1>1, <1>6, <1>7, Zenon
  <2> QED BY <1>3, <1>7, <1>8, <2>1, <2>2, Zenon DEF WriterAt, Writing
<1>12. ReaderAt(t)'
  BY <1>8, Zenon DEF ReaderAt, Reading
<1>13. \A u \in Thread \ {t} : Same(u) /\ pc[u] \notin Writing
  BY <1>1, Zenon DEF IndInv, WriterInv, Same, TypeOK, Writing
<1>14. NeverTorn'
  BY <1>1, Zenon DEF IndInv, NeverTorn
<1> QED BY <1>7, <1>8, <1>9, <1>10, <1>11, <1>12, <1>13, <1>14, StepOf, Zenon

\* put writes the result.
LEMMA PutResultKeeps ==
    ASSUME IndInv, NEW t \in Thread, PutResult(t)
    PROVE  IndInv'
<1> DEFINE n == Len(Results) + 1
           e == [val |-> ResultOf[key[t]], view |-> [rel[t] EXCEPT !["result"] = n]]
<1>1. /\ mem' = [mem EXCEPT !["result"] = Append(@, e)]
      /\ cur' = [cur EXCEPT ![t] = [cur[t] EXCEPT !["result"] = n]]
      /\ pc' = [pc EXCEPT ![t] = "putrelease"] /\ pc[t] = "putresult"
      /\ UNCHANGED <<acq, rel, key, s, k, r, hits>> /\ TypeOK
  BY Zenon DEF PutResult, Store, Goto, Last, Results, IndInv
<1>2. "seq" \in Loc /\ "key" \in Loc /\ "result" \in Loc
  BY Zenon DEF Loc
<1>3. /\ key[t] \in Key /\ s[t] \in Nat /\ s[t] \in Even /\ Len(Seqs) = s[t] + 2 /\ s[t] + 1 <= 2 * MaxPuts
      /\ 2 * Len(Keys) = s[t] + 4 /\ 2 * Len(Results) = s[t] + 2 /\ rel[t]["seq"] >= s[t] + 2
      /\ 2 * cur[t]["key"] >= s[t] + 4 /\ Keys[Len(Keys)].val = key[t]
  BY <1>1, Zenon DEF IndInv, WriterInv, WriterAt, Writing, TypeOK
<1>4. /\ Len(Keys) \in Nat /\ Len(Results) \in Nat /\ n \in Nat \ {0} /\ rel[t] \in View /\ cur[t] \in View
  BY <1>1, <1>2 DEF TypeOK, Keys, Results
<1>5. /\ [rel[t] EXCEPT !["result"] = n] \in View /\ [rel[t] EXCEPT !["result"] = n]["seq"] = rel[t]["seq"]
      /\ [cur[t] EXCEPT !["result"] = n] \in View /\ [cur[t] EXCEPT !["result"] = n]["result"] = n
      /\ [cur[t] EXCEPT !["result"] = n]["key"] = cur[t]["key"]
  BY <1>2, <1>4, Zenon DEF View
<1>6. e \in Entry /\ e.val = ResultOf[key[t]] /\ e.view["seq"] = rel[t]["seq"]
  BY <1>3, <1>5, Zenon DEF Entry, Value
<1>7. /\ mem' \in [Loc -> Seq(Entry)] /\ Grows
      /\ Len(Results') = n /\ Results'[n] = e /\ Seqs' = Seqs /\ Keys' = Keys
  BY <1>1, <1>2, <1>6, Written, Zenon DEF Seqs, Keys, Results, Loc
<1>8. TypeOK' /\ pc'[t] = "putrelease" /\ cur'[t]["result"] = n /\ cur'[t]["key"] = cur[t]["key"]
  <2>1. cur' \in [Thread -> View] /\ cur'[t]["result"] = n /\ cur'[t]["key"] = cur[t]["key"]
    BY <1>1, <1>5, Zenon DEF TypeOK
  <2> QED BY <1>1, <1>7, <2>1, Zenon DEF TypeOK, Writing
<1>9. SeqInv' /\ Odd'
  <2>1. SeqInv'
    BY <1>7, Zenon DEF IndInv, SeqInv
  <2>2. Len(Seqs') - 1 \notin Even
    <3>1. Len(Seqs') - 1 = s[t] + 1
      BY <1>3, <1>7
    <3> QED BY <1>3, <3>1, EvenNext, Zenon
  <2> QED BY <2>1, <2>2, Zenon DEF Odd
<1>10. DataInv'
  <2>1. \A j \in 1..Len(Results) : Results'[j] = Results[j]
    BY <1>2, <1>7, Zenon DEF Grows, Results
  <2>2. rel[t]["seq"] >= 2 * (n - 1) /\ n = Len(Keys)
    <3>1. n = Len(Keys)
      BY <1>3, <1>4
    <3>2. 2 * (n - 1) = s[t] + 2
      BY <1>3, <1>4
    <3> QED BY <1>3, <3>1, <3>2, Zenon
  <2>3. ASSUME NEW j \in 1..n
        PROVE  Results'[j].view["seq"] >= 2 * (j - 1) /\ (j >= 2 => Results'[j].val = ResultOf[Keys[j].val])
    <3>1. CASE j \in 1..Len(Results)
      BY <2>1, <3>1, Zenon DEF IndInv, DataInv
    <3>2. CASE j = n
      BY <1>3, <1>6, <1>7, <2>2, <3>2, Zenon
    <3> QED BY <1>4, <3>1, <3>2
  <2> QED BY <1>4, <1>7, <2>2, <2>3 DEF IndInv, DataInv
<1>11. WriterAt(t)'
  <2>1. 2 * n = s[t] + 4 /\ s[t] + 4 >= s[t] + 4
    BY <1>3, <1>4, Double, Zenon
  <2>2. s'[t] = s[t] /\ key'[t] = key[t] /\ Keys'[Len(Keys')].val = key[t]
    BY <1>1, <1>3, <1>7, Zenon
  <2> QED BY <1>3, <1>7, <1>8, <2>1, <2>2, Zenon DEF WriterAt, Writing
<1>12. ReaderAt(t)'
  BY <1>8, Zenon DEF ReaderAt, Reading
<1>13. \A u \in Thread \ {t} : Same(u) /\ pc[u] \notin Writing
  BY <1>1, Zenon DEF IndInv, WriterInv, Same, TypeOK, Writing
<1>14. NeverTorn'
  BY <1>1, Zenon DEF IndInv, NeverTorn
<1> QED BY <1>7, <1>8, <1>9, <1>10, <1>11, <1>12, <1>13, <1>14, StepOf, Zenon

\* The release hands over a view of key and result with the even number.
LEMMA PutReleaseKeeps ==
    ASSUME IndInv, NEW t \in Thread, PutRelease(t)
    PROVE  IndInv'
<1> DEFINE n == Len(Seqs) + 1
           e == [val |-> (s[t] + 2) % SeqMod, view |-> [cur[t] EXCEPT !["seq"] = n]]
<1>1. /\ mem' = [mem EXCEPT !["seq"] = Append(@, e)] /\ cur' = [cur EXCEPT ![t] = [cur[t] EXCEPT !["seq"] = n]]
      /\ pc' = [pc EXCEPT ![t] = "idle"] /\ pc[t] = "putrelease"
      /\ UNCHANGED <<acq, rel, key, s, k, r, hits>> /\ TypeOK
  BY Zenon DEF PutRelease, Store, Goto, Last, Seqs, IndInv
<1>2. "seq" \in Loc /\ "key" \in Loc /\ "result" \in Loc
  BY Zenon DEF Loc
<1>3. /\ s[t] \in Nat /\ s[t] \in Even /\ Len(Seqs) = s[t] + 2 /\ s[t] + 1 <= 2 * MaxPuts
      /\ 2 * Len(Keys) = s[t] + 4 /\ 2 * Len(Results) = s[t] + 4
      /\ 2 * cur[t]["key"] >= s[t] + 4 /\ 2 * cur[t]["result"] >= s[t] + 4
  BY <1>1, Zenon DEF IndInv, WriterInv, WriterAt, Writing, TypeOK
<1>4. n \in Nat \ {0} /\ n = s[t] + 3 /\ s[t] + 2 <= 2 * MaxPuts /\ (s[t] + 2) % SeqMod = s[t] + 2
  <2>1. s[t] + 2 <= 2 * MaxPuts
    <3>1. PICK i \in Nat : s[t] = 2 * i
      BY <1>3, EvenHalf, Zenon
    <3> QED BY <1>3, <3>1, CacheAssumption
  <2> QED BY <1>3, <2>1, NoWrap
<1>5. cur[t] \in View /\ [cur[t] EXCEPT !["seq"] = n] \in View
  BY <1>1, <1>2, <1>4, Zenon DEF TypeOK, View
<1>6. /\ e \in Entry /\ e.val = s[t] + 2 /\ e.view["key"] = cur[t]["key"] /\ e.view["result"] = cur[t]["result"]
  <2>1. e.val = s[t] + 2 /\ e.val \in Value
    BY <1>3, <1>4 DEF Value
  <2>2. /\ [cur[t] EXCEPT !["seq"] = n]["key"] = cur[t]["key"]
        /\ [cur[t] EXCEPT !["seq"] = n]["result"] = cur[t]["result"]
    BY <1>2, <1>5, Zenon DEF View
  <2>3. e \in Entry
    BY <1>5, <2>1, Zenon DEF Entry
  <2> QED BY <2>1, <2>2, <2>3, Zenon
<1>7. /\ mem' \in [Loc -> Seq(Entry)] /\ Grows
      /\ Len(Seqs') = n /\ Seqs'[n] = e /\ Keys' = Keys /\ Results' = Results
  BY <1>1, <1>2, <1>6, Written, Zenon DEF Seqs, Keys, Results, Loc
<1>8. TypeOK' /\ pc'[t] = "idle"
  BY <1>1, <1>5, <1>7, Zenon DEF TypeOK
<1>9. SeqInv'
  <2>1. 2 * e.view["key"] >= Len(Seqs) + 2 /\ 2 * e.view["result"] >= Len(Seqs) + 2
    BY <1>3, <1>6
  <2>2. n <= 2 * MaxPuts + 1 /\ Len(Seqs) \in Nat
    <3>1. MaxPuts \in Nat
      BY CacheAssumption, Zenon
    <3> QED BY <1>3, <1>4, <3>1, SMTT(60)
  <2> QED BY <1>3, <1>6, <1>7, <2>1, <2>2, SeqGrows, Zenon DEF IndInv
<1>10. DataInv' /\ Odd'
  <2>1. 2 * Len(Keys) = n + 1 /\ 2 * Len(Results) = n + 1
    BY <1>3, <1>4
  <2> QED BY <1>7, <2>1, Zenon DEF IndInv, DataInv, Odd
<1>11. WriterAt(t)' /\ ReaderAt(t)'
  BY <1>8, Zenon DEF WriterAt, Writing, ReaderAt, Reading
<1>12. \A u \in Thread \ {t} : Same(u) /\ pc[u] \notin Writing
  BY <1>1, Zenon DEF IndInv, WriterInv, Same, TypeOK, Writing
<1>13. NeverTorn'
  BY <1>1, Zenon DEF IndInv, NeverTorn
<1> QED BY <1>7, <1>8, <1>9, <1>10, <1>11, <1>12, <1>13, StepOf, Zenon

-----------------------------------------------------------------------------
\* The empty slot satisfies the invariant.
LEMMA InitHolds == Init => IndInv
<1>1. SUFFICES ASSUME Init PROVE IndInv
  BY Zenon
<1>2. Start \in View /\ Start["seq"] = 1 /\ Start["key"] = 1 /\ Start["result"] = 1
  BY DEF Start, View, Loc
<1>3. [val |-> 0, view |-> Start] \in Entry
  BY <1>2, Zenon DEF Entry, Value
<1>4. /\ mem \in [Loc -> Seq(Entry)]
      /\ \A l \in Loc : Len(mem[l]) = 1 /\ mem[l][1] = [val |-> 0, view |-> Start]
  BY <1>1, <1>3 DEF Init
<1>5. TypeOK
  BY <1>1, <1>2, <1>4, Zenon DEF Init, TypeOK, Value
<1>6. SeqInv
  <2>1. Len(Seqs) = 1 /\ Seqs[1].val = 0 /\ Seqs[1].view["key"] = 1 /\ Seqs[1].view["result"] = 1
    BY <1>2, <1>4 DEF Seqs, Loc
  <2>2. MaxPuts \in Nat /\ \A n \in 1..1 : n = 1
    BY CacheAssumption
  <2> QED BY <2>1, <2>2 DEF SeqInv
<1>7. DataInv
  BY <1>2, <1>4 DEF DataInv, Keys, Results, Loc
<1>8. WriterInv /\ ReaderInv
  BY <1>1, <1>4 DEF Init, WriterInv, WriterAt, ReaderInv, ReaderAt, Writing, Reading, Seqs, Keys, Results, Loc
<1> QED BY <1>1, <1>5, <1>6, <1>7, <1>8, Zenon DEF Init, IndInv, NeverTorn

\* union_cache_get and union_cache_put: seq, key and result of the slot, and the
\* views of every thread, stay in step whatever the threads do.
THEOREM CacheInvariant == Spec => []IndInv
<1>1. IndInv /\ [Next]_vars => IndInv'
  <2>1. SUFFICES ASSUME IndInv, [Next]_vars PROVE IndInv'
    BY Zenon
  <2>2. CASE UNCHANGED vars
    <3>1. TypeOK' /\ SeqInv' /\ DataInv' /\ NeverTorn'
      BY <2>1, <2>2, Zenon DEF vars, IndInv, TypeOK, SeqInv, DataInv, NeverTorn, Seqs, Keys, Results
    <3>2. WriterInv'
      BY <2>1, <2>2, Zenon DEF vars, IndInv, WriterInv, WriterAt, Seqs, Keys, Results
    <3>3. ReaderInv'
      BY <2>1, <2>2, Zenon DEF vars, IndInv, ReaderInv, ReaderAt, HasKey, HasResult, Keys, Results
    <3> QED BY <3>1, <3>2, <3>3, Zenon DEF IndInv
  <2>3. CASE Next
    <3>1. PICK t \in Thread :
            \/ GetSeq(t) \/ GetKey(t) \/ GetResult(t) \/ GetFence(t) \/ GetCheck(t)
            \/ PutLoad(t) \/ PutClaim(t) \/ PutFence(t) \/ PutKey(t) \/ PutResult(t) \/ PutRelease(t)
      BY <2>3, Zenon DEF Next
    <3> QED BY <2>1, <3>1, GetSeqKeeps, GetKeyKeeps, GetResultKeeps, GetFenceKeeps, GetCheckKeeps, PutLoadKeeps,
               PutClaimKeeps, PutFenceKeeps, PutKeyKeeps, PutResultKeeps, PutReleaseKeeps
  <2> QED BY <2>1, <2>2, <2>3, Zenon
<1> QED BY <1>1, InitHolds, PTL DEF Spec

\* A hit of union_cache_get is the result that union_cache_put stored for the key,
\* for any number of threads, keys and puts short of the wrap-around of seq.
THEOREM CacheNeverTorn == Spec => []NeverTorn
<1>1. IndInv => NeverTorn
  BY Zenon DEF IndInv
<1> QED BY <1>1, CacheInvariant, PTL
=============================================================================
