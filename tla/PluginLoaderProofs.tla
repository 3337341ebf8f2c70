------------------------ MODULE PluginLoaderProofs ------------------------
(***************************************************************************)
(* Proofs about PluginLoader: sortBundles orders whatever can be ordered,  *)
(* plug-ins are called in order and waited for, for any number of bundles. *)
(***************************************************************************)
EXTENDS PluginLoader, FiniteSetTheorems, SequenceTheorems, TLAPS

---------------------------------------------------------------------------
(* The inductive invariant.                                                *)

\* sortBundles moves bundles from one list to the other and loses none.
Split ==
  /\ orig \in Seq(Bundles) /\ new \in Seq(Bundles)
  /\ IsInjective(orig) /\ IsInjective(new)
  /\ Range(orig) \cap Range(new) = {}
  /\ Range(orig) \cup Range(new) = Bundles
  /\ Len(orig) + Len(new) = Cardinality(Bundles)
  /\ phase # "sort" => orig = <<>>

\* A list of bundles in which each one follows all that it requires.
Follows(s) == \A k \in DOMAIN s : requires[s[k]] \subseteq {s[j] : j \in 1 .. k - 1}

\* Until the sort ends the placed bundles are in order and no bundle that can
\* never be ordered is among them.
Ordered ==
  /\ \A b \in Bundles \ keyed : requires[b] = {}
  /\ phase = "sort" => Follows(new) /\ Range(new) \cap Unordered = {}

\* The passes: what has been called by now and what is no longer owed.
Passes ==
  /\ Has("prime") => phase \in {"prime", "run"}
  /\ Has("stop") => phase = "run"
  /\ phase \in {"start", "prime", "run"} => Owed("load") = {}
  /\ phase \in {"prime", "run"} => Owed("start") = {}
  /\ phase = "run" => Owed("prime") = {}
  /\ phase \in {"load", "start", "prime"} =>
       \A k \in 1 .. next - 1 : new[k] \notin Owed(phase)

\* The shut down: who has been asked to stop and who is still waited for.
Stops ==
  /\ exiting # NULL => phase = "run"
  /\ termRls => exiting = {}
  /\ \A b \in Bundles : "stop" \in called[b] => b \in loaded
  /\ exiting # NULL => exiting \subseteq loaded
  /\ signalled \subseteq loaded
  /\ exiting # NULL /\ ~ termRls /\ inStop = "no" => Stoppable \ exiting \subseteq signalled

\* stopBundles at work: whoever has a stop() function and has been passed is waited for.
Stopping ==
  /\ inStop \in {"no", "between", "inside"}
  /\ inStop # "no" =>
       /\ phase = "run" /\ exiting # NULL /\ ~ termRls
       /\ \A k \in 1 .. next - 1 : new[k] \in Stoppable => new[k] \in exiting
  /\ inStop = "inside" => next <= Len(new) /\ new[next] \in exiting

Fixed ==
  /\ requires \in [Bundles -> Requirements \cup {{}}]
  /\ keyed \subseteq Bundles
  /\ entry \in [Bundles -> Entries]
  /\ phase \in Range(Phases)
  /\ next \in 1 .. Cardinality(Bundles) + 1
  /\ loaded \subseteq Bundles
  /\ called \in [Bundles -> SUBSET {"load", "start", "prime", "stop"}]
  /\ exited \in {"no", "loading", "complete", "delayed"}

IInv ==
  /\ Fixed /\ Split /\ Ordered /\ RequiredFirst /\ Passes /\ Stops
  /\ Stopping /\ CompleteIsComplete

---------------------------------------------------------------------------
(* Lists without repetitions, and the order of the passes.                 *)

\* Taking an element out of a list.
LEMMA Removed ==
  ASSUME NEW S, NEW s \in Seq(S), IsInjective(s), NEW i \in 1 .. Len(s)
  PROVE  /\ RemoveAt(s, i) \in Seq(S)
         /\ Len(RemoveAt(s, i)) = Len(s) - 1
         /\ IsInjective(RemoveAt(s, i))
         /\ Range(RemoveAt(s, i)) = Range(s) \ {s[i]}
<1> DEFINE a == SubSeq(s, 1, i - 1)
           z == SubSeq(s, i + 1, Len(s))
           t == RemoveAt(s, i)
<1>0. Len(s) \in Nat /\ DOMAIN s = 1 .. Len(s) /\ \A k \in 1 .. Len(s) : s[k] \in S
  BY LenProperties
<1>1. /\ a \in Seq(S) /\ Len(a) = i - 1
      /\ \A k \in 1 .. i - 1 : a[k] = s[k]
  BY <1>0, SubSeqProperties
<1>2. /\ z \in Seq(S) /\ Len(z) = Len(s) - i
      /\ \A k \in 1 .. Len(s) - i : z[k] = s[i + k]
  <2>1. \A k \in i + 1 .. Len(s) : s[k] \in S
    BY <1>0
  <2>2. /\ z \in Seq(S)
        /\ Len(z) = IF i + 1 <= Len(s) THEN Len(s) - (i + 1) + 1 ELSE 0
        /\ \A k \in 1 .. Len(s) - (i + 1) + 1 : z[k] = s[i + 1 + k - 1]
    BY <1>0, <2>1, SubSeqProperties
  <2> HIDE DEF z
  <2>3. ASSUME NEW k \in 1 .. Len(s) - i
        PROVE  z[k] = s[i + k]
    <3>1. k \in 1 .. Len(s) - (i + 1) + 1 /\ i + 1 + k - 1 = i + k
      BY <1>0
    <3> QED
      BY <2>2, <3>1
  <2>4. Len(z) = Len(s) - i
    <3>1. CASE i + 1 <= Len(s)
      BY <1>0, <2>2, <3>1
    <3>2. CASE ~(i + 1 <= Len(s))
      <4>0. Len(s) \in Nat /\ i \in Nat /\ i <= Len(s)
        BY <1>0
      <4>1. i = Len(s)
        BY <4>0, <3>2
      <4>2. Len(z) = 0
        BY <2>2, <3>2, Zenon
      <4> QED
        BY <1>0, <4>1, <4>2
    <3> QED
      BY <3>1, <3>2
  <2> QED
    BY <2>2, <2>3, <2>4
<1>3. t = a \o z
  BY DEF RemoveAt
<1>4. /\ t \in Seq(S) /\ Len(t) = Len(s) - 1 /\ DOMAIN t = 1 .. Len(s) - 1
      /\ \A k \in 1 .. Len(s) - 1 : t[k] = IF k < i THEN s[k] ELSE s[k + 1]
  <2> HIDE DEF a, z, t
  <2>1. /\ t \in Seq(S) /\ Len(t) = Len(a) + Len(z)
        /\ \A k \in 1 .. Len(a) + Len(z) : t[k] = IF k <= Len(a) THEN a[k] ELSE z[k - Len(a)]
    BY <1>1, <1>2, <1>3, ConcatProperties
  <2>2. DOMAIN t = 1 .. Len(t)
    BY <2>1, LenProperties
  <2>3. Len(t) = Len(s) - 1
    BY <1>0, <1>1, <1>2, <2>1
  <2>4. ASSUME NEW k \in 1 .. Len(s) - 1
        PROVE  t[k] = IF k < i THEN s[k] ELSE s[k + 1]
    <3>1. k \in 1 .. Len(a) + Len(z)
      BY <1>0, <1>1, <1>2
    <3>2. CASE k < i
      <4>1. k \in 1 .. i - 1 /\ k <= Len(a)
        BY <1>1, <3>2
      <4> QED
        BY <1>1, <2>1, <3>1, <3>2, <4>1
    <3>3. CASE ~(k < i)
      <4>1. /\ k - (i - 1) \in 1 .. Len(s) - i /\ i + (k - (i - 1)) = k + 1
            /\ ~(k <= Len(a)) /\ k - Len(a) = k - (i - 1)
        BY <1>0, <1>1, <3>3
      <4> QED
        BY <1>2, <2>1, <3>1, <3>3, <4>1
    <3> QED
      BY <3>2, <3>3
  <2> QED
    BY <2>1, <2>2, <2>3, <2>4
<1> HIDE DEF a, z, t
<1>5. IsInjective(t)
  BY <1>0, <1>4 DEF IsInjective
<1>6. Range(t) = Range(s) \ {s[i]}
  <2>1. \A k \in 1 .. Len(s) : k # i =>
          \E m \in 1 .. Len(s) - 1 : t[m] = s[k]
    <3> TAKE k \in 1 .. Len(s)
    <3> HAVE k # i
    <3>1. CASE k < i
      <4>1. k \in 1 .. Len(s) - 1 /\ t[k] = s[k]
        BY <1>0, <1>4, <3>1
      <4> QED
        BY <4>1
    <3>2. CASE k > i
      <4>1. k - 1 \in 1 .. Len(s) - 1 /\ t[k - 1] = s[k]
        BY <1>0, <1>4, <3>2
      <4> QED
        BY <4>1
    <3> QED
      BY <1>0, <3>1, <3>2
  <2>2. \A m \in 1 .. Len(s) - 1 : \E k \in 1 .. Len(s) : k # i /\ t[m] = s[k]
    <3> TAKE m \in 1 .. Len(s) - 1
    <3>1. CASE m < i
      BY <1>0, <1>4, <3>1
    <3>2. CASE ~(m < i)
      <4>1. m + 1 \in 1 .. Len(s) /\ m + 1 # i /\ t[m] = s[m + 1]
        BY <1>0, <1>4, <3>2
      <4> QED
        BY <4>1
    <3> QED
      BY <3>1, <3>2
  <2>3. \A k \in 1 .. Len(s) : k # i => s[k] # s[i]
    BY <1>0 DEF IsInjective
  <2>4. Range(s) = {s[k] : k \in 1 .. Len(s)} /\ Range(t) = {t[m] : m \in 1 .. Len(s) - 1}
    BY <1>0, <1>4 DEF Range
  <2>5. Range(t) \subseteq Range(s) \ {s[i]}
    BY <2>2, <2>3, <2>4
  <2>6. Range(s) \ {s[i]} \subseteq Range(t)
    BY <2>1, <2>4
  <2> QED
    BY <2>5, <2>6
<1> QED
  BY <1>4, <1>5, <1>6 DEF t

\* Joining two lists without a common element.
LEMMA Joined ==
  ASSUME NEW S, NEW s \in Seq(S), NEW t \in Seq(S),
         IsInjective(s), IsInjective(t), Range(s) \cap Range(t) = {}
  PROVE  /\ s \o t \in Seq(S) /\ Len(s \o t) = Len(s) + Len(t)
         /\ Range(s \o t) = Range(s) \cup Range(t)
         /\ IsInjective(s \o t)
<1> DEFINE u == s \o t
<1>1. /\ Len(s) \in Nat /\ DOMAIN s = 1 .. Len(s)
      /\ Len(t) \in Nat /\ DOMAIN t = 1 .. Len(t)
  BY LenProperties
<1>2. /\ DOMAIN u = 1 .. Len(s) + Len(t)
      /\ \A k \in 1 .. Len(s) + Len(t) : u[k] = IF k <= Len(s) THEN s[k] ELSE t[k - Len(s)]
  BY ConcatProperties, LenProperties
<1> HIDE DEF u
<1>3. \A k \in 1 .. Len(s), m \in 1 .. Len(t) : s[k] # t[m]
  BY <1>1 DEF Range
<1>4. ASSUME NEW k \in DOMAIN u, NEW m \in DOMAIN u, u[k] = u[m]
      PROVE  k = m
  <2>1. CASE k <= Len(s) /\ m <= Len(s)
    BY <1>1, <1>2, <1>4, <2>1 DEF IsInjective
  <2>2. CASE k > Len(s) /\ m > Len(s)
    <3>1. k - Len(s) \in 1 .. Len(t) /\ m - Len(s) \in 1 .. Len(t)
      BY <1>1, <1>2, <2>2
    <3>2. t[k - Len(s)] = t[m - Len(s)]
      BY <1>1, <1>2, <1>4, <2>2
    <3>3. k - Len(s) = m - Len(s)
      BY <1>1, <3>1, <3>2 DEF IsInjective
    <3> QED
      BY <1>1, <1>2, <3>3
  <2>3. CASE k <= Len(s) /\ m > Len(s)
    <3>1. k \in 1 .. Len(s) /\ m - Len(s) \in 1 .. Len(t)
      BY <1>1, <1>2, <2>3
    <3> QED
      BY <1>1, <1>2, <1>3, <1>4, <2>3, <3>1
  <2>4. CASE k > Len(s) /\ m <= Len(s)
    <3>1. m \in 1 .. Len(s) /\ k - Len(s) \in 1 .. Len(t)
      BY <1>1, <1>2, <2>4
    <3> QED
      BY <1>1, <1>2, <1>3, <1>4, <2>4, <3>1
  <2> QED
    BY <1>1, <1>2, <2>1, <2>2, <2>3, <2>4
<1> QED
  BY <1>4, ConcatProperties, RangeConcatenation DEF IsInjective, u

\* A list of one element.
LEMMA Single ==
  ASSUME NEW S, NEW e \in S
  PROVE  /\ <<e>> \in Seq(S) /\ Len(<<e>>) = 1
         /\ IsInjective(<<e>>) /\ Range(<<e>>) = {e}
  BY DEF IsInjective, Range

\* The list that the bundles come in has each one once.
LEMMA Listed ==
  /\ SetToSeq(Bundles) \in Seq(Bundles)
  /\ IsInjective(SetToSeq(Bundles))
  /\ Range(SetToSeq(Bundles)) = Bundles
  /\ Len(SetToSeq(Bundles)) = Cardinality(Bundles)
<1> DEFINE n == Cardinality(Bundles)
           s == SetToSeq(Bundles)
<1>1. n \in Nat /\ \E f \in [1 .. n -> Bundles] : IsInjective(f)
  BY LoaderAssumption, FS_CardinalityType
     DEF ExistsBijection, Bijection, Injection
<1>2. s \in [1 .. n -> Bundles] /\ IsInjective(s)
  BY <1>1 DEF SetToSeq
<1> HIDE DEF s, n
<1>3. s \in Seq(Bundles) /\ Len(s) = n
  BY <1>1, <1>2
<1>4. Range(s) = Bundles
  <2>1. s \in Injection(1 .. n, Bundles)
    BY <1>2 DEF Injection
  <2>2. Cardinality(1 .. n) = n
    BY <1>1, FS_Interval
  <2>3. s \in Surjection(1 .. n, Bundles)
    BY <2>1, <2>2, LoaderAssumption, FS_Injection DEF n
  <2> QED
    BY <1>2, <2>3 DEF Surjection, Range
<1> QED
  BY <1>2, <1>3, <1>4 DEF s, n

\* The order of the passes.
LEMMA PassOrder ==
  /\ Range(Phases) = {"sort", "loadBundle", "load", "start", "prime", "run"}
  /\ After("sort") = "loadBundle" /\ After("loadBundle") = "load"
  /\ After("load") = "start" /\ After("start") = "prime" /\ After("prime") = "run"
<1>1. /\ DOMAIN Phases = 1 .. 6
      /\ Phases[1] = "sort" /\ Phases[2] = "loadBundle" /\ Phases[3] = "load"
      /\ Phases[4] = "start" /\ Phases[5] = "prime" /\ Phases[6] = "run"
  BY DEF Phases
<1>2. /\ Position(Phases, "sort") = 1 /\ Position(Phases, "loadBundle") = 2
      /\ Position(Phases, "load") = 3 /\ Position(Phases, "start") = 4
      /\ Position(Phases, "prime") = 5
  BY <1>1 DEF Position
<1>3. Range(Phases) = {Phases[1], Phases[2], Phases[3], Phases[4], Phases[5], Phases[6]}
  BY <1>1 DEF Range
<1> QED
  BY <1>1, <1>2, <1>3 DEF After

---------------------------------------------------------------------------
(* The inductive invariant is one: the sort.                               *)

\* No bundle that can be placed is one that can never be ordered.
LEMMA PlaceableOrdered ==
  ASSUME Fixed, Split, Ordered, phase = "sort", NEW b \in Bundles, Placeable(b)
  PROVE  b \notin Unordered /\ requires[b] \subseteq Range(new)
<1>1. requires[b] \subseteq Range(new)
  BY DEF Placeable, Ordered
<1>2. Range(new) \subseteq Bundles /\ Missing \notin Range(new)
  BY LoaderAssumption DEF Split
<1>3. ASSUME NEW S \in SUBSET Bundles, b \in S,
             \A c \in S : requires[c] \cap (S \cup {Missing}) # {}
      PROVE  FALSE
  <2>1. S \subseteq Unordered
    BY <1>3 DEF Unordered
  <2>2. PICK r \in requires[b] : r \in S \cup {Missing}
    BY <1>3
  <2>3. r \in Range(new) /\ r \in Unordered
    BY <1>1, <1>2, <2>1, <2>2
  <2> QED
    BY <2>3 DEF Ordered
<1> QED
  BY <1>1, <1>3 DEF Unordered

\* Bundles that are left when none can be placed can never be ordered.
LEMMA LeftUnordered ==
  ASSUME Fixed, Split, Ordered, \A i \in DOMAIN orig : ~ Placeable(orig[i])
  PROVE  Range(orig) \subseteq Unordered
<1>1. Range(orig) \subseteq Bundles
  BY DEF Split
<1>2. ASSUME NEW b \in Range(orig)
      PROVE  requires[b] \cap (Range(orig) \cup {Missing}) # {}
  <2>1. ~ Placeable(b)
    BY DEF Range
  <2>2. PICK r \in requires[b] : r \notin Range(new)
    BY <2>1 DEF Placeable
  <2>3. requires[b] \subseteq Bundles \cup {Missing}
    BY <1>1, LoaderAssumption DEF Fixed
  <2>4. r \in Range(orig) \cup {Missing}
    BY <2>2, <2>3 DEF Split
  <2> QED
    BY <2>2, <2>4
<1> QED
  BY <1>1, <1>2 DEF Unordered

\* In a list without repetitions an element has one position.
LEMMA Positions ==
  ASSUME NEW s, IsInjective(s), NEW k \in DOMAIN s
  PROVE  Position(s, s[k]) = k
  BY DEF Position, IsInjective

\* One bundle is placed, at either end.
LEMMA PlaceSort ==
  ASSUME IInv, Place
  PROVE  Split' /\ Ordered' /\ RequiredFirst'
<1> USE DEF IInv
<1>0. /\ phase = "sort" /\ phase' = "sort"
      /\ requires' = requires /\ keyed' = keyed
  BY DEF Place, calling
<1>1. PICK i \in DOMAIN orig :
        /\ Placeable(orig[i])
        /\ new' = IF orig[i] \in keyed THEN Append(new, orig[i]) ELSE <<orig[i]>> \o new
        /\ orig' = RemoveAt(orig, i)
  BY DEF Place
<1> DEFINE e == orig[i]
<1>2. /\ i \in 1 .. Len(orig) /\ Len(orig) \in Nat
      /\ Len(new) \in Nat /\ DOMAIN new = 1 .. Len(new)
      /\ e \in Bundles /\ e \in Range(orig) /\ e \notin Range(new)
  <2>1. orig \in Seq(Bundles) /\ new \in Seq(Bundles)
    BY DEF Split
  <2>2. /\ DOMAIN orig = 1 .. Len(orig) /\ Len(orig) \in Nat
        /\ Len(new) \in Nat /\ DOMAIN new = 1 .. Len(new)
    BY <2>1, LenProperties
  <2>3. e \in Range(orig)
    BY DEF Range
  <2> QED
    BY <2>2, <2>3 DEF Split
<1>3. /\ e \notin Unordered /\ requires[e] \subseteq Range(new)
      /\ e \notin keyed => requires[e] = {}
  BY <1>0, <1>1, <1>2, PlaceableOrdered DEF Ordered
<1> DEFINE one == <<e>>
<1>4. /\ one \in Seq(Bundles) /\ Len(one) = 1
      /\ IsInjective(one) /\ Range(one) = {e} /\ one[1] = e
  BY <1>2, Single
<1>5. new' = IF e \in keyed THEN new \o one ELSE one \o new
  BY <1>1, <1>2, AppendIsConcat DEF Split
<1>6. /\ orig' \in Seq(Bundles) /\ Len(orig') = Len(orig) - 1
      /\ IsInjective(orig') /\ Range(orig') = Range(orig) \ {e}
  BY <1>1, <1>2, Removed DEF Split
<1> HIDE DEF e, one
<1>7. /\ new' \in Seq(Bundles) /\ Len(new') = Len(new) + 1
      /\ Range(new') = Range(new) \cup {e} /\ IsInjective(new')
  <2>1. new \in Seq(Bundles) /\ IsInjective(new) /\ Range(new) \cap {e} = {}
    BY <1>2 DEF Split
  <2>2. CASE e \in keyed
    <3>1. new' = new \o one
      BY <1>5, <2>2
    <3>2. Range(new) \cap Range(one) = {}
      BY <1>4, <2>1
    <3>3. /\ new \o one \in Seq(Bundles) /\ Len(new \o one) = Len(new) + Len(one)
          /\ Range(new \o one) = Range(new) \cup Range(one) /\ IsInjective(new \o one)
      BY <1>4, <2>1, <3>2, Joined, Zenon
    <3> QED
      BY <1>4, <3>1, <3>3
  <2>3. CASE e \notin keyed
    <3>1. new' = one \o new
      BY <1>5, <2>3
    <3>2. Range(one) \cap Range(new) = {}
      BY <1>4, <2>1
    <3>3. /\ one \o new \in Seq(Bundles) /\ Len(one \o new) = Len(one) + Len(new)
          /\ Range(one \o new) = Range(one) \cup Range(new) /\ IsInjective(one \o new)
      BY <1>4, <2>1, <3>2, Joined, Zenon
    <3> QED
      BY <1>2, <1>4, <3>1, <3>3
  <2> QED
    BY <2>2, <2>3
<1>8. Split'
  <2>1. Range(orig') \cap Range(new') = {} /\ Range(orig') \cup Range(new') = Bundles
    BY <1>2, <1>6, <1>7 DEF Split
  <2>2. Len(orig') + Len(new') = Cardinality(Bundles)
    BY <1>2, <1>6, <1>7 DEF Split
  <2> QED
    BY <1>0, <1>6, <1>7, <2>1, <2>2 DEF Split
<1>9. Follows(new)'
  <2>1. Follows(new) /\ new \in Seq(Bundles)
    BY <1>0 DEF Ordered, Split
  <2>2. DOMAIN new' = 1 .. Len(new) + 1
    BY <1>7, LenProperties
  <2>3. CASE e \in keyed
    <3>1. /\ \A k \in 1 .. Len(new) : new'[k] = new[k]
          /\ new'[Len(new) + 1] = e
      BY <1>1, <1>2, <2>1, <2>3, AppendProperties DEF e
    <3>2. ASSUME NEW k \in 1 .. Len(new)
          PROVE  requires[new'[k]] \subseteq {new'[j] : j \in 1 .. k - 1}
      <4>1. requires[new[k]] \subseteq {new[j] : j \in 1 .. k - 1}
        BY <1>2, <2>1 DEF Follows
      <4>2. \A j \in 1 .. k - 1 : new'[j] = new[j]
        BY <1>2, <3>1
      <4> QED
        BY <3>1, <4>1, <4>2
    <3>3. requires[e] \subseteq {new'[j] : j \in 1 .. (Len(new) + 1) - 1}
      <4>1. (Len(new) + 1) - 1 = Len(new)
        BY <1>2
      <4>2. Range(new) = {new[j] : j \in 1 .. Len(new)}
        BY <1>2 DEF Range
      <4> QED
        BY <1>3, <3>1, <4>1, <4>2
    <3>4. \A k \in 1 .. Len(new) + 1 : k \in 1 .. Len(new) \/ k = Len(new) + 1
      BY <1>2
    <3> QED
      BY <1>0, <2>2, <3>1, <3>2, <3>3, <3>4 DEF Follows
  <2>4. CASE e \notin keyed
    <3>0. \A k \in 1 .. Len(one) + Len(new) :
            (one \o new)[k] = IF k <= Len(one) THEN one[k] ELSE new[k - Len(one)]
      BY <1>4, <2>1, ConcatProperties, Zenon
    <3>1. \A k \in 1 .. 1 + Len(new) :
            new'[k] = IF k <= 1 THEN one[k] ELSE new[k - 1]
      BY <1>4, <1>5, <2>4, <3>0
    <3>2. new'[1] = e /\ requires[e] = {}
      BY <1>2, <1>3, <1>4, <2>4, <3>1
    <3>3. \A k \in 1 .. Len(new) : new'[k + 1] = new[k]
      BY <1>2, <3>1
    <3>4. ASSUME NEW k \in 1 .. Len(new)
          PROVE  requires[new'[k + 1]] \subseteq {new'[j] : j \in 1 .. (k + 1) - 1}
      <4>1. requires[new[k]] \subseteq {new[j] : j \in 1 .. k - 1}
        BY <1>2, <2>1 DEF Follows
      <4>2. \A j \in 1 .. k - 1 : new'[j + 1] = new[j] /\ j + 1 \in 1 .. (k + 1) - 1
        BY <1>2, <3>3
      <4>3. {new[j] : j \in 1 .. k - 1} \subseteq {new'[j] : j \in 1 .. (k + 1) - 1}
        BY <4>2
      <4> QED
        BY <3>3, <4>1, <4>3
    <3>5. \A k \in 1 .. Len(new) + 1 : k = 1 \/ \E m \in 1 .. Len(new) : k = m + 1
      <4> TAKE k \in 1 .. Len(new) + 1
      <4>1. k = 1 \/ (k - 1 \in 1 .. Len(new) /\ k = (k - 1) + 1)
        BY <1>2
      <4> QED
        BY <4>1
    <3> QED
      BY <1>0, <2>2, <3>2, <3>4, <3>5 DEF Follows
  <2> QED
    BY <2>3, <2>4
<1>10. Ordered'
  <2>1. Unordered' = Unordered
    BY <1>0 DEF Unordered
  <2>2. Range(new') \cap Unordered = {}
    BY <1>0, <1>3, <1>7 DEF Ordered
  <2> QED
    BY <1>0, <1>9, <2>1, <2>2 DEF Ordered
<1>11. RequiredFirst'
  BY <1>0 DEF RequiredFirst
<1> QED
  BY <1>8, <1>10, <1>11

\* The sort ends: what is left goes to the end.
LEMMA SortedSort ==
  ASSUME IInv, Sorted
  PROVE  Split' /\ Ordered' /\ RequiredFirst'
<1> USE DEF IInv
<1>0. /\ phase = "sort" /\ phase' = "loadBundle"
      /\ requires' = requires /\ keyed' = keyed
      /\ new' = new \o orig /\ orig' = <<>>
  BY PassOrder DEF Sorted
<1>1. /\ orig \in Seq(Bundles) /\ new \in Seq(Bundles)
      /\ IsInjective(orig) /\ IsInjective(new)
      /\ Range(new) \cap Range(orig) = {}
  BY DEF Split
<1>2. /\ Len(orig) \in Nat /\ DOMAIN orig = 1 .. Len(orig)
      /\ Len(new) \in Nat /\ DOMAIN new = 1 .. Len(new)
  BY <1>1, LenProperties
<1>3. /\ new' \in Seq(Bundles) /\ Len(new') = Len(new) + Len(orig)
      /\ Range(new') = Range(new) \cup Range(orig)
      /\ IsInjective(new')
  <2>1. /\ new \o orig \in Seq(Bundles) /\ Len(new \o orig) = Len(new) + Len(orig)
        /\ Range(new \o orig) = Range(new) \cup Range(orig)
        /\ IsInjective(new \o orig)
    BY <1>1, Joined, Zenon
  <2> QED
    BY <1>0, <2>1
<1>4. /\ DOMAIN new' = 1 .. Len(new) + Len(orig)
      /\ \A k \in 1 .. Len(new) + Len(orig) :
           new'[k] = IF k <= Len(new) THEN new[k] ELSE orig[k - Len(new)]
  <2>1. DOMAIN new' = 1 .. Len(new')
    BY <1>3, LenProperties, Zenon
  <2>2. \A k \in 1 .. Len(new) + Len(orig) :
          (new \o orig)[k] = IF k <= Len(new) THEN new[k] ELSE orig[k - Len(new)]
    BY <1>1, ConcatProperties, Zenon
  <2> QED
    BY <1>0, <1>3, <2>1, <2>2, Zenon
<1>5. Split'
  <2>1. /\ orig' \in Seq(Bundles) /\ Len(orig') = 0
        /\ IsInjective(orig') /\ Range(orig') = {}
    BY <1>0 DEF IsInjective, Range
  <2>2. Range(new') = Bundles /\ Len(new') = Cardinality(Bundles)
    BY <1>2, <1>3 DEF Split
  <2>3. Len(orig') + Len(new') = Cardinality(Bundles)
    BY <1>2, <1>3, <2>1, <2>2
  <2> QED
    BY <1>0, <1>3, <2>1, <2>2, <2>3 DEF Split
<1>6. Ordered'
  BY <1>0 DEF Ordered
<1>7. Range(orig) = Unordered
  <2>1. Range(orig) \subseteq Unordered
    BY LeftUnordered DEF Sorted
  <2>2. Unordered \subseteq Bundles
    BY DEF Unordered
  <2>3. Unordered \cap Range(new) = {}
    BY <1>0 DEF Ordered
  <2> QED
    BY <2>1, <2>2, <2>3 DEF Split
<1>8. Unordered' = Unordered
  BY <1>0 DEF Unordered
<1>9. circular' <=> Unordered # {}
  <2>1. orig # <<>> <=> Range(orig) # {}
    <3>1. CASE orig = <<>>
      BY <3>1 DEF Range
    <3>2. CASE orig # <<>>
      <4>1. Len(orig) \in Nat \ {0}
        BY <1>1, <3>2, EmptySeq
      <4>2. 1 \in DOMAIN orig
        BY <1>2, <4>1
      <4> QED
        BY <3>2, <4>2 DEF Range
    <3> QED
      BY <3>1, <3>2
  <2>2. circular' <=> orig # <<>>
    BY Zenon DEF Sorted
  <2> QED
    BY <1>7, <2>1, <2>2
<1>10. ASSUME NEW b \in Bundles, NEW r \in requires[b] \cap (Bundles \ Unordered)
       PROVE  Before(r, b)'
  <2>1. PICK k \in DOMAIN new' : new'[k] = b
    <3>1. b \in Range(new')
      BY <1>3 DEF Split
    <3> QED
      BY <3>1 DEF Range
  <2>2. PICK j \in DOMAIN new' : new'[j] = r /\ j < k
    <3>1. CASE k <= Len(new)
      <4>1. new[k] = b /\ k \in DOMAIN new
        BY <1>2, <1>4, <2>1, <3>1
      <4>2. PICK j \in 1 .. k - 1 : new[j] = r
        <5>1. Follows(new)
          BY <1>0 DEF Ordered
        <5>2. r \in {new[j] : j \in 1 .. k - 1}
          BY <4>1, <5>1 DEF Follows
        <5> QED
          BY <5>2
      <4>3. j \in DOMAIN new' /\ new'[j] = r /\ j < k
        BY <1>2, <1>4, <3>1, <4>1, <4>2
      <4> QED
        BY <4>3
    <3>2. CASE ~(k <= Len(new))
      <4>1. r \in Range(new)
        BY <1>7 DEF Split
      <4>2. PICK j \in 1 .. Len(new) : new[j] = r
        BY <1>2, <4>1 DEF Range
      <4>3. j \in DOMAIN new' /\ new'[j] = r /\ j < k
        BY <1>2, <1>4, <2>1, <3>2, <4>2
      <4> QED
        BY <4>3
    <3> QED
      BY <3>1, <3>2
  <2>3. Position(new', r) = j /\ Position(new', b) = k
    <3> DEFINE s == new'
    <3>1. IsInjective(s) /\ k \in DOMAIN s /\ j \in DOMAIN s /\ s[k] = b /\ s[j] = r
      BY <1>3, <2>1, <2>2
    <3> HIDE DEF s
    <3>2. Position(s, s[j]) = j /\ Position(s, s[k]) = k
      BY <3>1, Positions, Zenon
    <3>3. Position(s, r) = j /\ Position(s, b) = k
      BY <3>1, <3>2
    <3> QED
      BY <3>3 DEF s
  <2> QED
    BY <2>2, <2>3 DEF Before
<1>11. RequiredFirst'
  BY <1>0, <1>8, <1>9, <1>10 DEF RequiredFirst
<1> QED
  BY <1>5, <1>6, <1>11

\* What the sort has made stays as it is.
LEMMA SortKept ==
  ASSUME IInv, UNCHANGED sorting, phase' = "sort" <=> phase = "sort"
  PROVE  Split' /\ Ordered' /\ RequiredFirst'
<1>1. /\ requires' = requires /\ keyed' = keyed
      /\ orig' = orig /\ new' = new /\ circular' = circular
  BY DEF sorting
<1>2. Unordered' = Unordered
  BY <1>1 DEF Unordered
<1>3. Split'
  BY <1>1 DEF IInv, Split
<1>4. Ordered'
  BY <1>1, <1>2 DEF IInv, Ordered, Follows
<1>5. RequiredFirst'
  BY <1>1, <1>2 DEF IInv, RequiredFirst, Before
<1> QED
  BY <1>3, <1>4, <1>5

---------------------------------------------------------------------------
(* The passes and the shut down.                                           *)

\* A step elsewhere does not disturb stopBundles.
LEMMA StoppingKept ==
  ASSUME IInv, inStop' = inStop,
         inStop = "no" \/ UNCHANGED <<sorting, phase, next, loaded, exiting, termRls>>
  PROVE  Stopping'
<1>1. CASE inStop = "no"
  BY <1>1 DEF Stopping
<1>2. CASE UNCHANGED <<sorting, phase, next, loaded, exiting, termRls>>
  <2>1. Stoppable' = Stoppable /\ new' = new
    BY <1>2 DEF Stoppable, sorting
  <2>2. UNCHANGED <<phase, next, exiting, termRls>>
    BY <1>2
  <2> QED
    BY <2>1, <2>2, Zenon DEF IInv, Stopping
<1> QED
  BY <1>1, <1>2

\* Before the sort ends no function has been called and nobody is stopped.
LEMMA SortIInv ==
  ASSUME IInv, Place \/ Sorted
  PROVE  IInv'
<1> USE DEF IInv
<1>1. /\ phase = "sort" /\ phase' \in {"sort", "loadBundle"}
      /\ UNCHANGED <<requires, keyed, entry, next, loaded, called, stopping, main,
                     exited, counters>>
  BY PassOrder DEF Place, Sorted, calling
<1>2. Split' /\ Ordered' /\ RequiredFirst'
  BY PlaceSort, SortedSort
<1>3. Fixed'
  BY <1>1, PassOrder DEF Fixed
<1>4. Passes'
  BY <1>1 DEF Passes, Has, Owed
<1>5. Stops' /\ CompleteIsComplete'
  BY <1>1, Zenon DEF Stops, CompleteIsComplete, Stoppable, stopping
<1>6. Stopping'
  BY <1>1, StoppingKept DEF Stopping, stopping
<1> QED
  BY <1>2, <1>3, <1>4, <1>5, <1>6

\* One pass ends and the next one begins.
LEMMA PassDoneIInv ==
  ASSUME IInv, PassDone
  PROVE  IInv'
<1> USE DEF IInv
<1>1. /\ phase \in {"loadBundle", "load", "start", "prime"}
      /\ phase' = After(phase) /\ next' = 1 /\ next > Len(new)
      /\ UNCHANGED <<sorting, loaded, called, stopping, exited>>
  BY PassOrder DEF PassDone, Fixed
<1>2. phase' \in {"load", "start", "prime", "run"}
  BY <1>1, PassOrder
<1>3. Split' /\ Ordered' /\ RequiredFirst'
  BY <1>1, <1>2, SortKept
<1>4. Fixed'
  <2>1. next' \in 1 .. Cardinality(Bundles) + 1
    BY <1>1, LoaderAssumption, FS_CardinalityType
  <2> QED
    BY <1>1, <1>2, <2>1, PassOrder DEF Fixed, sorting
<1>5. phase \in {"load", "start", "prime"} => Owed(phase) = {}
  <2> HAVE phase \in {"load", "start", "prime"}
  <2>1. Owed(phase) \subseteq Range(new)
    <3>1. orig = <<>> /\ Range(orig) \cup Range(new) = Bundles
      BY <1>1 DEF Split
    <3>2. Range(orig) = {}
      BY <3>1 DEF Range
    <3> QED
      BY <3>1, <3>2 DEF Owed, Fixed
  <2>2. /\ DOMAIN new = 1 .. Len(new) /\ Len(new) \in Nat
        /\ next \in Nat
    BY LenProperties DEF Split, Fixed
  <2>3. \A k \in DOMAIN new : k \in 1 .. next - 1
    BY <1>1, <2>2
  <2>4. \A k \in DOMAIN new : new[k] \notin Owed(phase)
    BY <2>3 DEF Passes
  <2> QED
    BY <2>1, <2>4 DEF Range
<1>6. Passes'
  <2>0. entry' = entry /\ called' = called /\ loaded' = loaded
    BY <1>1 DEF sorting
  <2>1. /\ Has("prime")' <=> Has("prime")
        /\ Has("stop")' <=> Has("stop")
    BY <2>0 DEF Has
  <2>2. /\ Owed("load")' = Owed("load") /\ Owed("start")' = Owed("start")
        /\ Owed("prime")' = Owed("prime")
    BY <2>0 DEF Owed
  <2>3. 1 .. next' - 1 = {}
    BY <1>1
  <2>4. CASE phase = "loadBundle"
    BY <1>1, <2>1, <2>2, <2>3, <2>4, PassOrder DEF Passes
  <2>5. CASE phase = "load"
    BY <1>1, <1>5, <2>1, <2>2, <2>3, <2>5, PassOrder DEF Passes
  <2>6. CASE phase = "start"
    BY <1>1, <1>5, <2>1, <2>2, <2>3, <2>6, PassOrder DEF Passes
  <2>7. CASE phase = "prime"
    BY <1>1, <1>5, <2>1, <2>2, <2>3, <2>7, PassOrder DEF Passes
  <2> QED
    BY <1>1, <2>4, <2>5, <2>6, <2>7
<1>7. Stops' /\ CompleteIsComplete'
  BY <1>1 DEF Stops, CompleteIsComplete, Stoppable, stopping, sorting
<1>8. Stopping'
  BY <1>1, StoppingKept DEF Stopping, stopping
<1> QED
  BY <1>3, <1>4, <1>6, <1>7, <1>8

\* A pass over the bundles comes to the next one.
LEMMA NextBundle ==
  ASSUME IInv, phase # "sort", Advance
  PROVE  /\ new[next] \in Bundles /\ next \in Nat
         /\ next' \in 1 .. Cardinality(Bundles) + 1 /\ next' = next + 1
<1>1. orig = <<>> /\ Len(orig) + Len(new) = Cardinality(Bundles) /\ new \in Seq(Bundles)
  BY DEF IInv, Split
<1>2. Len(new) \in Nat /\ Len(new) = Cardinality(Bundles)
  BY <1>1, LenProperties
<1>3. next \in Nat /\ next \in 1 .. Len(new) /\ next' = next + 1
  BY <1>2 DEF IInv, Fixed, Advance
<1> QED
  BY <1>1, <1>2, <1>3

\* Bundles are loaded before any function is called.
LEMMA LoadIInv ==
  ASSUME IInv, loadBundle
  PROVE  IInv'
<1> USE DEF IInv
<1>1. /\ phase = "loadBundle" /\ phase' = phase /\ Advance
      /\ loaded' \in {loaded, loaded \cup {new[next]}}
      /\ UNCHANGED <<sorting, called, stopping, exited>> /\ Running
  BY DEF loadBundle
<1>2. Split' /\ Ordered' /\ RequiredFirst'
  BY <1>1, SortKept
<1>3. Fixed' /\ loaded \subseteq loaded'
  BY <1>1, NextBundle DEF Fixed, sorting
<1>4. Passes'
  BY <1>1 DEF Passes, Has
<1>5. Stops'
  BY <1>1, <1>3, Zenon DEF Stops, stopping
<1>6. CompleteIsComplete'
  BY <1>1 DEF CompleteIsComplete, Running
<1>7. Stopping'
  BY <1>1, StoppingKept DEF Stopping, stopping
<1> QED
  BY <1>2, <1>3, <1>4, <1>5, <1>6, <1>7

\* A function of the next bundle is called.
LEMMA CallIInv ==
  ASSUME IInv, callFunction
  PROVE  IInv'
<1> USE DEF IInv
<1> DEFINE b == new[next]
<1>1. /\ phase \in {"load", "start", "prime"} /\ phase' = phase /\ Advance /\ Running
      /\ called' = IF b \in loaded THEN [called EXCEPT ![b] = @ \cup ({phase} \cap entry[b])]
                                    ELSE called
      /\ UNCHANGED <<sorting, loaded, stopping, exited>>
  BY DEF callFunction
<1>2. Split' /\ Ordered' /\ RequiredFirst'
  BY <1>1, SortKept
<1>3. /\ b \in Bundles /\ next \in Nat
      /\ next' \in 1 .. Cardinality(Bundles) + 1 /\ next' = next + 1
  BY <1>1, NextBundle
<1>4. entry' = entry /\ loaded' = loaded /\ new' = new
  BY <1>1 DEF sorting
<1> HIDE DEF b
<1>5. /\ called' \in [Bundles -> SUBSET {"load", "start", "prime", "stop"}]
      /\ \A c \in Bundles : called[c] \subseteq called'[c] /\ called'[c] \subseteq called[c] \cup {phase}
      /\ b \in loaded => phase \notin entry[b] \/ phase \in called'[b]
  <2>1. called \in [Bundles -> SUBSET {"load", "start", "prime", "stop"}]
    BY DEF Fixed
  <2>2. CASE b \in loaded
    <3>1. called' = [called EXCEPT ![b] = called[b] \cup ({phase} \cap entry[b])]
      BY <1>1, <2>2 DEF b
    <3> QED
      BY <1>1, <1>3, <2>1, <3>1
  <2>3. CASE b \notin loaded
    BY <1>1, <2>1, <2>3
  <2> QED
    BY <2>2, <2>3
<1>6. Fixed'
  BY <1>1, <1>3, <1>4, <1>5 DEF Fixed, sorting
<1>7. /\ Has("prime")' => Has("prime") \/ phase = "prime"
      /\ Has("stop")' => Has("stop")
  BY <1>1, <1>5 DEF Has
<1>8. /\ Owed("load")' \subseteq Owed("load") /\ Owed("start")' \subseteq Owed("start")
      /\ Owed("prime")' \subseteq Owed("prime") /\ Owed(phase)' \subseteq Owed(phase)
  BY <1>1, <1>4, <1>5 DEF Owed, Fixed
<1>9. \A k \in 1 .. next' - 1 : new[k] \notin Owed(phase)'
  <2>1. b \notin Owed(phase)'
    BY <1>1, <1>4, <1>5 DEF Owed
  <2>2. \A k \in 1 .. next - 1 : new[k] \notin Owed(phase)'
    BY <1>1, <1>8 DEF Passes
  <2>3. \A k \in 1 .. next' - 1 : k \in 1 .. next - 1 \/ k = next
    BY <1>3
  <2> QED
    BY <2>1, <2>2, <2>3 DEF b
<1>10. Passes'
  BY <1>1, <1>4, <1>7, <1>8, <1>9 DEF Passes
<1>11. Stops'
  <2>1. \A c \in Bundles : "stop" \in called'[c] => c \in loaded'
    BY <1>1, <1>4, <1>5 DEF Stops
  <2>2. Stoppable' = Stoppable
    BY <1>4 DEF Stoppable
  <2>3. exiting' = exiting /\ termRls' = termRls /\ signalled' = signalled
        /\ inStop' = inStop
    BY <1>1 DEF stopping
  <2> QED
    BY <1>1, <1>4, <2>1, <2>2, <2>3, Zenon DEF Stops
<1>12. CompleteIsComplete'
  BY <1>1 DEF CompleteIsComplete, Running
<1>13. Stopping'
  BY <1>1, StoppingKept DEF Stopping, stopping
<1> QED
  BY <1>2, <1>6, <1>10, <1>11, <1>12, <1>13

\* The passes are over, or have not been reached by a step of the shut down, and
\* it adds at most calls of stop().
LEMMA PassesKept ==
  ASSUME IInv, UNCHANGED <<sorting, phase, loaded>>,
         next' = next \/ (phase = "run" /\ next' \in 1 .. Cardinality(Bundles) + 1),
         called' \in [Bundles -> SUBSET {"load", "start", "prime", "stop"}],
         \A b \in Bundles : /\ called[b] \subseteq called'[b]
                            /\ called'[b] \subseteq called[b] \cup {"stop"},
         called' = called \/ phase = "run",
         exited' \in {"no", "loading", "complete", "delayed"}
  PROVE  Fixed' /\ Split' /\ Ordered' /\ RequiredFirst' /\ Passes'
<1> USE DEF IInv
<1>1. Split' /\ Ordered' /\ RequiredFirst'
  BY SortKept
<1>2. entry' = entry /\ requires' = requires /\ keyed' = keyed /\ new' = new
  BY DEF sorting
<1>3. Fixed'
  BY <1>2 DEF Fixed
<1>4. \A f \in {"load", "start", "prime"} : Owed(f)' \subseteq Owed(f)
  BY <1>2 DEF Owed, Fixed
<1>5. /\ Has("prime")' => Has("prime")
      /\ Has("stop")' => Has("stop") \/ phase = "run"
  BY DEF Has
<1>6. Passes'
  BY <1>2, <1>4, <1>5 DEF Passes
<1> QED
  BY <1>1, <1>3, <1>6

\* stopBundles begins.
LEMMA StopBundlesIInv ==
  ASSUME IInv, stopBundles
  PROVE  IInv'
<1> USE DEF IInv
<1>1. /\ Running /\ phase = "run" /\ next' = 1 /\ inStop' = "between"
      /\ UNCHANGED <<sorting, phase, loaded, called, exiting, signalled, exited>>
  BY DEF stopBundles, RunLoopIdle
<1>2. termRls /\ ~ termRls'
  BY Zenon DEF stopBundles
<1>3. exiting = {} /\ exiting # NULL
  BY <1>2, LoaderAssumption DEF Stops
<1>4. Stoppable' = Stoppable
  BY <1>1 DEF sorting, Stoppable
<1>5. Fixed' /\ Split' /\ Ordered' /\ RequiredFirst' /\ Passes'
  <2>1. next' \in 1 .. Cardinality(Bundles) + 1
    BY <1>1, LoaderAssumption, FS_CardinalityType
  <2> QED
    BY <1>1, <2>1, PassesKept DEF Fixed
<1>6. Stops'
  BY <1>1, <1>2, <1>3, <1>4 DEF Stops
<1>7. Stopping'
  <2>1. 1 .. next' - 1 = {}
    BY <1>1
  <2> QED
    BY <1>1, <1>2, <1>3, <2>1 DEF Stopping
<1>8. CompleteIsComplete'
  BY <1>1 DEF CompleteIsComplete, Running
<1> QED
  BY <1>5, <1>6, <1>7, <1>8

\* stopBundles comes to a bundle, or its stop() function returns.
LEMMA StopBundleIInv ==
  ASSUME IInv, stopBundle \/ stopReturns
  PROVE  IInv'
<1> USE DEF IInv
<1> DEFINE b == new[next]
<1>1. /\ Running /\ inStop # "no" /\ next <= Len(new)
      /\ UNCHANGED <<sorting, phase, loaded, signalled, exited>>
      /\ termRls' = termRls
  BY Zenon DEF stopBundle, stopReturns, Advance
<1>2. phase = "run" /\ exiting # NULL /\ ~ termRls /\ ~ termRls'
  BY <1>1, Zenon DEF Stopping
<1>3. /\ Len(new) \in Nat /\ Len(new) = Cardinality(Bundles) /\ next \in 1 .. Len(new)
      /\ next \in Nat /\ b \in Bundles
  <2>1. orig = <<>> /\ Len(orig) + Len(new) = Cardinality(Bundles) /\ new \in Seq(Bundles)
    BY <1>2 DEF Split
  <2> QED
    BY <1>1, <2>1, LenProperties DEF Fixed
<1>4. Stoppable' = Stoppable /\ new' = new /\ Stoppable \subseteq loaded /\ entry' = entry
  BY <1>1 DEF sorting, Stoppable
<1>5. \/ /\ b \in Stoppable /\ exiting' = exiting \cup {b} /\ inStop' = "inside"
         /\ called' = [called EXCEPT ![b] = called[b] \cup {"stop"}] /\ next' = next
      \/ /\ b \notin Stoppable \/ b \in exiting
         /\ exiting' = exiting /\ called' = called /\ next' = next + 1
         /\ inStop' = "between"
  BY DEF stopBundle, stopReturns, Advance, Stopping
<1> HIDE DEF b
<1>6. /\ called' \in [Bundles -> SUBSET {"load", "start", "prime", "stop"}]
      /\ \A c \in Bundles : /\ called[c] \subseteq called'[c]
                            /\ called'[c] \subseteq called[c] \cup {"stop"}
                            /\ (c = b /\ b \in Stoppable) \/ called'[c] = called[c]
  BY <1>3, <1>5 DEF Fixed
<1>7. Fixed' /\ Split' /\ Ordered' /\ RequiredFirst' /\ Passes'
  <2>1. next' \in 1 .. Cardinality(Bundles) + 1
    BY <1>3, <1>5 DEF Fixed
  <2>2. exited' \in {"no", "loading", "complete", "delayed"}
    BY <1>1 DEF Fixed
  <2> QED
    BY <1>1, <1>2, <1>6, <2>1, <2>2, PassesKept
<1>8. exiting \subseteq exiting' /\ exiting' \subseteq loaded /\ exiting' # NULL
  <2>1. exiting \subseteq exiting' /\ exiting' \subseteq loaded
    BY <1>2, <1>4, <1>5 DEF Stops
  <2> QED
    BY <2>1, LoaderAssumption DEF Fixed
<1>9. Stops'
  <2>1. \A c \in Bundles : "stop" \in called'[c] => c \in loaded'
    BY <1>1, <1>4, <1>6 DEF Stops
  <2> QED
    BY <1>1, <1>2, <1>5, <1>8, <2>1 DEF Stops
<1>10. Stopping'
  <2>1. \A k \in 1 .. next' - 1 : k \in 1 .. next - 1 \/ (k = next /\ next' = next + 1)
    BY <1>3, <1>5
  <2>2. ASSUME NEW k \in 1 .. next' - 1, new[k] \in Stoppable
        PROVE  new[k] \in exiting'
    <3>1. CASE k \in 1 .. next - 1
      BY <1>1, <1>8, <2>2, <3>1 DEF Stopping
    <3>2. CASE k = next /\ next' = next + 1
      BY <1>3, <1>5, <2>2, <3>2 DEF b
    <3> QED
      BY <2>1, <3>1, <3>2
  <2>3. inStop' = "inside" => next' <= Len(new') /\ new'[next'] \in exiting'
    BY <1>1, <1>4, <1>5 DEF b
  <2>4. phase' = "run" /\ inStop' \in {"no", "between", "inside"}
    BY <1>1, <1>2, <1>5
  <2> QED
    BY <1>2, <1>4, <1>8, <2>2, <2>3, <2>4 DEF Stopping
<1>11. CompleteIsComplete'
  BY <1>1 DEF CompleteIsComplete, Running
<1> QED
  BY <1>7, <1>9, <1>10, <1>11

\* Every bundle has been passed: everyone who has a stop() function is waited for.
LEMMA StopsCalledIInv ==
  ASSUME IInv, StopsCalled
  PROVE  IInv'
<1> USE DEF IInv
<1>1. /\ Running /\ inStop = "between" /\ next > Len(new) /\ inStop' = "no"
      /\ exited' = IF exiting = {} THEN "complete" ELSE exited
      /\ UNCHANGED <<sorting, phase, next, loaded, called, exiting, termRls, signalled>>
  BY DEF StopsCalled, calling
<1>2. phase = "run" /\ exiting # NULL
  BY <1>1, Zenon DEF Stopping
<1>3. Stoppable' = Stoppable
  BY <1>1 DEF sorting, Stoppable
<1>4. Stoppable \subseteq exiting
  <2>1. orig = <<>> /\ Range(orig) \cup Range(new) = Bundles
    BY <1>2 DEF Split
  <2>2. Range(orig) = {}
    BY <2>1 DEF Range
  <2>3. Stoppable \subseteq Range(new)
    BY <2>1, <2>2 DEF Stoppable, Fixed
  <2>4. DOMAIN new = 1 .. Len(new) /\ Len(new) \in Nat /\ next \in Nat
    BY LenProperties DEF Split, Fixed
  <2>5. \A k \in DOMAIN new : k \in 1 .. next - 1
    BY <1>1, <2>4
  <2>6. \A k \in DOMAIN new : new[k] \in Stoppable => new[k] \in exiting
    BY <1>1, <2>5 DEF Stopping
  <2> QED
    BY <2>3, <2>6 DEF Range
<1>5. Fixed' /\ Split' /\ Ordered' /\ RequiredFirst' /\ Passes'
  <2>1. exited' \in {"no", "loading", "complete", "delayed"}
    BY <1>1 DEF Fixed
  <2> QED
    BY <1>1, <2>1, PassesKept DEF Fixed
<1>6. Stops'
  <2>1. Stoppable' \ exiting' \subseteq signalled'
    BY <1>1, <1>3, <1>4
  <2> QED
    BY <1>1, <2>1, Zenon DEF Stops
<1>7. Stopping'
  BY <1>1 DEF Stopping
<1>8. CompleteIsComplete'
  BY <1>1, <1>3, <1>4 DEF CompleteIsComplete, Running
<1> QED
  BY <1>5, <1>6, <1>7, <1>8

\* A plug-in is ready, and is seen to be.
LEMMA ReadyIInv ==
  ASSUME IInv, NEW b \in Bundles, PluginReady(b) \/ stopComplete(b)
  PROVE  IInv'
<1> USE DEF IInv
<1>1. /\ Running /\ UNCHANGED <<sorting, phase, next, loaded, called, termRls, inStop>>
  BY DEF PluginReady, stopComplete, calling
<1>2. Fixed' /\ Split' /\ Ordered' /\ RequiredFirst' /\ Passes'
  <2>1. exited' \in {"no", "loading", "complete", "delayed"}
    BY DEF PluginReady, stopComplete, Fixed
  <2> QED
    BY <1>1, <2>1, PassesKept DEF Fixed
<1>3. Stoppable' = Stoppable
  BY <1>1 DEF sorting, Stoppable
<1>4. CASE PluginReady(b)
  <2>1. /\ exiting' = exiting /\ signalled' = signalled \cup {b} /\ b \in loaded
        /\ exited' = exited
    BY <1>4 DEF PluginReady, Stops
  <2>2. Stops'
    BY <1>1, <1>3, <2>1, Zenon DEF Stops
  <2>3. CompleteIsComplete'
    BY <1>1, <2>1 DEF CompleteIsComplete, Running
  <2>4. Stopping'
    BY <1>1, <2>1, StoppingKept
  <2> QED
    BY <1>2, <2>2, <2>3, <2>4
<1>5. CASE stopComplete(b)
  <2>1. /\ exiting # NULL /\ b \in exiting \cap signalled /\ phase = "run" /\ inStop = "no"
        /\ exiting' = exiting \ {b} /\ signalled' = signalled
        /\ exited' = IF exiting' = {} THEN "complete" ELSE exited
    BY <1>5 DEF stopComplete, RunLoopIdle
  <2>2. ~ termRls
    BY <2>1 DEF Stops
  <2>3. Stoppable \ exiting' \subseteq signalled
    BY <2>1, <2>2 DEF Stops
  <2>4. exiting' \subseteq loaded
    BY <2>1 DEF Stops
  <2>5. ~ termRls'
    BY <1>1, <2>2, Zenon
  <2>6. Stops'
    BY <1>1, <1>3, <2>1, <2>3, <2>4, <2>5 DEF Stops
  <2>7. CompleteIsComplete'
    BY <1>1, <1>3, <2>1, <2>3 DEF CompleteIsComplete, Running
  <2>8. Stopping'
    BY <1>1, <2>1, StoppingKept
  <2> QED
    BY <1>2, <2>6, <2>7, <2>8
<1> QED
  BY <1>4, <1>5

\* The timer fires.
LEMMA DelayedIInv ==
  ASSUME IInv, stopDelayed
  PROVE  IInv'
<1> USE DEF IInv
<1>1. /\ UNCHANGED <<sorting, phase, next, loaded, called, exiting, termRls, inStop,
                     signalled>>
      /\ exited' = "delayed"
  BY DEF stopDelayed, calling, stopping
<1>2. Fixed' /\ Split' /\ Ordered' /\ RequiredFirst' /\ Passes'
  BY <1>1, PassesKept DEF Fixed
<1>3. Stops'
  BY <1>1, Zenon DEF Stops, Stoppable, sorting
<1>4. CompleteIsComplete'
  BY <1>1 DEF CompleteIsComplete
<1>5. Stopping'
  BY <1>1, StoppingKept
<1> QED
  BY <1>2, <1>3, <1>4, <1>5

\* The main thread asks the plug-in thread to stop, or ends the process.
LEMMA TermIInv ==
  ASSUME IInv, term
  PROVE  IInv'
<1> USE DEF IInv
<1>1. /\ Running /\ UNCHANGED <<sorting, phase, next, loaded, called, inStop, signalled>>
  BY DEF term, calling
<1>2. entry' = entry /\ Stoppable' = Stoppable
  BY <1>1 DEF sorting, Stoppable
<1>3. exited' \in {"no", "loading"}
  BY <1>1 DEF term, plugin_term, Running
<1>4. Fixed' /\ Split' /\ Ordered' /\ RequiredFirst' /\ Passes'
  BY <1>1, <1>3, PassesKept DEF Fixed
<1>5. Stops'
  <2>1. CASE exiting' = exiting /\ (termRls' <=> termRls)
    BY <1>1, <1>2, <2>1 DEF Stops
  <2>2. CASE phase = "run" /\ exiting' = {} /\ termRls'
    BY <1>1, <1>2, <2>2 DEF Stops
  <2> QED
    BY <2>1, <2>2, Zenon DEF term, plugin_term
<1>6. CompleteIsComplete'
  BY <1>3 DEF CompleteIsComplete
<1>7. Stopping'
  <2>1. UNCHANGED <<exiting, termRls>> \/ exiting = NULL
    BY Zenon DEF term, plugin_term
  <2>2. exiting = NULL => inStop = "no"
    BY DEF Stopping
  <2> QED
    BY <1>1, <2>1, <2>2, StoppingKept
<1> QED
  BY <1>4, <1>5, <1>6, <1>7

\* Signals and clients, and steps that change nothing.
LEMMA WorldIInv ==
  ASSUME IInv, catcher \/ Lock \/ Unlock \/ UNCHANGED vars
  PROVE  IInv'
<1> USE DEF IInv
<1>1. UNCHANGED <<sorting, phase, next, loaded, called, stopping, exited>>
  BY DEF catcher, Lock, Unlock, vars, calling
<1>2. Fixed' /\ Split' /\ Ordered' /\ RequiredFirst' /\ Passes'
  BY <1>1, PassesKept DEF Fixed
<1>3. Stops' /\ CompleteIsComplete'
  BY <1>1, Zenon DEF Stops, CompleteIsComplete, Stoppable, sorting, stopping
<1>4. Stopping'
  BY <1>1, StoppingKept DEF stopping
<1> QED
  BY <1>2, <1>3, <1>4

\* Nothing has been sorted, loaded or asked for.
LEMMA InitIInv == Init => IInv
<1> SUFFICES ASSUME Init PROVE IInv
  OBVIOUS
<1>1. Fixed
  <2>1. 1 \in 1 .. Cardinality(Bundles) + 1
    BY LoaderAssumption, FS_CardinalityType
  <2> QED
    BY <2>1, PassOrder DEF Init, Fixed
<1>2. Split
  <2>1. /\ new \in Seq(Bundles) /\ Len(new) = 0
        /\ IsInjective(new) /\ Range(new) = {}
    BY DEF Init, IsInjective, Range
  <2>2. Cardinality(Bundles) \in Nat
    BY LoaderAssumption, FS_CardinalityType
  <2>3. /\ orig \in Seq(Bundles) /\ IsInjective(orig) /\ Range(orig) = Bundles
        /\ Len(orig) = Cardinality(Bundles) /\ phase = "sort"
    BY Listed DEF Init
  <2> QED
    BY <2>1, <2>2, <2>3 DEF Split
<1>3. Ordered
  BY DEF Init, Ordered, Follows, Range
<1>4. RequiredFirst
  BY DEF Init, RequiredFirst
<1>5. Passes
  BY DEF Init, Passes, Has
<1>6. Stops /\ Stopping /\ CompleteIsComplete
  BY DEF Init, Stops, Stopping, CompleteIsComplete
<1> QED
  BY <1>1, <1>2, <1>3, <1>4, <1>5, <1>6 DEF IInv

\* Every step keeps it.
LEMMA NextIInv == IInv /\ [Next]_vars => IInv'
<1> SUFFICES ASSUME IInv, [Next]_vars PROVE IInv'
  OBVIOUS
<1>1. CASE Place \/ Sorted
  BY <1>1, SortIInv
<1>2. CASE loadBundle
  BY <1>2, LoadIInv
<1>3. CASE callFunction
  BY <1>3, CallIInv
<1>4. CASE PassDone
  BY <1>4, PassDoneIInv
<1>5. CASE stopBundles
  BY <1>5, StopBundlesIInv
<1>6. CASE stopDelayed
  BY <1>6, DelayedIInv
<1>7. CASE \E b \in Bundles : PluginReady(b) \/ stopComplete(b)
  BY <1>7, ReadyIInv
<1>8. CASE term
  BY <1>8, TermIInv
<1>9. CASE catcher \/ Lock \/ Unlock \/ UNCHANGED vars
  BY <1>9, WorldIInv
<1>10. CASE stopBundle \/ stopReturns
  BY <1>10, StopBundleIInv
<1>11. CASE StopsCalled
  BY <1>11, StopsCalledIInv
<1> QED
  BY <1>1, <1>2, <1>3, <1>4, <1>5, <1>6, <1>7, <1>8, <1>9, <1>10, <1>11 DEF Next

LEMMA Invariance == Spec => []IInv
<1> QED
  BY InitIInv, NextIInv, PTL DEF Spec

---------------------------------------------------------------------------
(* The theorems.                                                           *)

\* sortBundles puts every bundle that can be ordered behind those it requires and
\* reports a circular dependency exactly when one cannot be, for any number of
\* bundles and any Requires lists.
THEOREM RequirementsComeFirst == Spec => []RequiredFirst
<1>1. IInv => RequiredFirst
  BY DEF IInv
<1> QED
  BY <1>1, Invariance, PTL

\* prime() waits for every load() and start(), stop() for every prime(), whenever
\* SIGTERM arrives; a process that ends as complete has waited for every plug-in.
THEOREM CallsAreOrdered == Spec => []LoaderInv
<1>1. ASSUME IInv PROVE LoaderInv
  <2> USE <1>1 DEF IInv
  <2>1. TypeOK
    <3>1. Cardinality(Range(orig) \cup Range(new)) = Cardinality(Bundles)
      BY DEF Split
    <3> QED
      BY <3>1 DEF TypeOK, Fixed, Split, Stops, Stopping
  <2>2. CallsInOrder
    BY DEF CallsInOrder, Passes
  <2> QED
    BY <2>1, <2>2 DEF LoaderInv
<1> QED
  BY <1>1, Invariance, PTL

=============================================================================
