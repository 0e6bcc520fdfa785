--------------------------- MODULE StartOrderProofs ---------------------------
(***************************************************************************)
(* Theorems about StartOrder for every set of services and every           *)
(* dependency between them.  Both walks keep the same invariant, which is  *)
(* stated on what they read and write and proved for a call that returns   *)
(* at once, a call that goes on and a return.                              *)
(***************************************************************************)
EXTENDS StartOrder, SequenceTheorems, TLAPS

Frames == Seq([name: Services, left: SUBSET Services])
Documents == [Services -> SUBSET Services]

-----------------------------------------------------------------------------
(* The calls in progress, as sequences.                                    *)

LEMMA ExceptFrames ==
    ASSUME NEW F, NEW fr \in Seq(F), NEW m \in 1 .. Len(fr), NEW x \in F,
           NEW w, w = [fr EXCEPT ![m] = x]
    PROVE  /\ w \in Seq(F)
           /\ Len(w) = Len(fr)
           /\ \A k \in 1 .. Len(fr) : w[k] = IF k = m THEN x ELSE fr[k]
BY ExceptSeq

\* The innermost call crosses n off.
CrossOff(fr, n) == [fr EXCEPT ![Len(fr)].left = @ \ {n}]

LEMMA CrossedOff ==
    ASSUME NEW fr \in Frames, fr # <<>>, NEW n
    PROVE  /\ CrossOff(fr, n) \in Frames
           /\ Len(CrossOff(fr, n)) = Len(fr)
           /\ \A k \in 1 .. Len(fr) :
                 /\ CrossOff(fr, n)[k].name = fr[k].name
                 /\ CrossOff(fr, n)[k].left =
                       IF k = Len(fr) THEN fr[k].left \ {n} ELSE fr[k].left
<1> DEFINE F == [name: Services, left: SUBSET Services]
           top == fr[Len(fr)]
           down == [top EXCEPT !.left = top.left \ {n}]
<1>1. fr \in Seq(F) /\ Len(fr) \in 1 .. Len(fr)
  BY DEF Frames
<1>2. top \in F
  <2> HIDE DEF F
  <2> QED
    BY <1>1, ElementOfSeq
<1>3. down \in F /\ down.name = top.name /\ down.left = top.left \ {n}
  BY <1>2
<1>4. CrossOff(fr, n) = [fr EXCEPT ![Len(fr)] = down]
  BY DEF CrossOff
<1> HIDE DEF F, down
<1>5. /\ CrossOff(fr, n) \in Seq(F)
      /\ Len(CrossOff(fr, n)) = Len(fr)
      /\ \A k \in 1 .. Len(fr) : CrossOff(fr, n)[k] = IF k = Len(fr) THEN down ELSE fr[k]
  BY <1>1, <1>3, <1>4, ExceptFrames
<1> QED
  BY <1>3, <1>5 DEF Frames, F

LEMMA AppendFrames ==
    ASSUME NEW F, NEW fr \in Seq(F), NEW x \in F
    PROVE  /\ Append(fr, x) \in Seq(F)
           /\ Len(Append(fr, x)) = Len(fr) + 1
           /\ \A k \in 1 .. Len(fr) : Append(fr, x)[k] = fr[k]
           /\ Append(fr, x)[Len(fr) + 1] = x
OBVIOUS

LEMMA Prefix ==
    ASSUME NEW F, NEW fr, NEW n \in Nat, \A k \in 1 .. n : fr[k] \in F
    PROVE  /\ SubSeq(fr, 1, n) \in Seq(F)
           /\ Len(SubSeq(fr, 1, n)) = n
           /\ \A k \in 1 .. n : SubSeq(fr, 1, n)[k] = fr[k]
OBVIOUS

LEMMA FrontFrames ==
    ASSUME NEW F, NEW fr \in Seq(F), fr # <<>>
    PROVE  /\ Front(fr) \in Seq(F)
           /\ Len(Front(fr)) = Len(fr) - 1
           /\ \A k \in 1 .. Len(fr) - 1 : Front(fr)[k] = fr[k]
<1> DEFINE n == Len(fr) - 1
<1>1. n \in Nat /\ \A k \in 1 .. n : fr[k] \in F
  BY EmptySeq, ElementOfSeq
<1>2. Front(fr) = SubSeq(fr, 1, n)
  BY DEF Front
<1>3. Len(fr) - 1 = n
  OBVIOUS
<1> HIDE DEF n
<1> DEFINE g == SubSeq(fr, 1, n)
<1>4. g \in Seq(F) /\ Len(g) = n /\ \A k \in 1 .. n : g[k] = fr[k]
  BY <1>1, Prefix
<1> HIDE DEF g
<1>5. Front(fr) = g
  BY <1>2 DEF g
<1> QED
  BY <1>3, <1>4, <1>5

LEMMA ToSetAppend ==
    ASSUME NEW S, NEW s \in Seq(S), NEW x \in S
    PROVE  ToSet(Append(s, x)) = ToSet(s) \cup {x}
<1>1. /\ DOMAIN s = 1 .. Len(s) /\ Len(s) \in Nat
      /\ DOMAIN Append(s, x) = 1 .. Len(s) + 1
  OBVIOUS
<1>2. /\ \A k \in 1 .. Len(s) : Append(s, x)[k] = s[k]
      /\ Append(s, x)[Len(s) + 1] = x
  OBVIOUS
<1>3. \A k : k \in 1 .. Len(s) + 1 <=> k \in 1 .. Len(s) \/ k = Len(s) + 1
  BY <1>1
<1> QED
  BY <1>1, <1>2, <1>3 DEF ToSet

LEMMA ToSetMembers ==
    ASSUME NEW S, NEW s \in Seq(S)
    PROVE  ToSet(s) \subseteq S /\ \A x : x \in ToSet(s) <=> \E k \in 1 .. Len(s) : s[k] = x
<1>1. DOMAIN s = 1 .. Len(s) /\ \A k \in 1 .. Len(s) : s[k] \in S
  OBVIOUS
<1> QED
  BY <1>1 DEF ToSet

-----------------------------------------------------------------------------
(* The invariant of a depth-first walk: fr are its calls in progress, td   *)
(* is what its loop has not come to, done is what it has finished.         *)

\* What a call has come to is done, or the next call is about it.
Gone(fr, dep, done, k) ==
    \A d \in dep[fr[k].name] \ fr[k].left :
       d \in done \/ (k < Len(fr) /\ d = fr[k + 1].name)

Walks(fr, td, dep, done) ==
    /\ \A k \in 1 .. Len(fr) :
          /\ fr[k].name \notin done
          /\ fr[k].left \subseteq dep[fr[k].name]
          /\ Gone(fr, dep, done, k)
          /\ k < Len(fr) => fr[k + 1].name \in dep[fr[k].name]
    /\ \A j, k \in 1 .. Len(fr) : fr[j].name = fr[k].name => j = k
    /\ \A n \in Services \ td : n \in done \/ (fr # <<>> /\ fr[1].name = n)

\* The walk comes to n: the loop, or the innermost call.
Reaches(fr, td, n) ==
    \/ fr = <<>> /\ n \in td
    \/ fr # <<>> /\ n \in fr[Len(fr)].left

Crossed(fr, n) == IF fr = <<>> THEN fr ELSE CrossOff(fr, n)
Rest(fr, td, n) == IF fr = <<>> THEN td \ {n} ELSE td

LEMMA CrossedFrames ==
    ASSUME NEW fr \in Frames, NEW n
    PROVE  /\ Crossed(fr, n) \in Frames
           /\ Len(Crossed(fr, n)) = Len(fr)
           /\ \A k \in 1 .. Len(fr) :
                 /\ Crossed(fr, n)[k].name = fr[k].name
                 /\ Crossed(fr, n)[k].left =
                       IF k = Len(fr) THEN fr[k].left \ {n} ELSE fr[k].left
<1>1. CASE fr = <<>>
  BY <1>1 DEF Crossed
<1>2. CASE fr # <<>>
  BY <1>2, CrossedOff DEF Crossed
<1> QED
  BY <1>1, <1>2

LEMMA FramesType ==
    ASSUME NEW fr \in Frames
    PROVE  /\ Len(fr) \in Nat
           /\ fr # <<>> <=> Len(fr) > 0
           /\ DOMAIN fr = 1 .. Len(fr)
           /\ \A k \in 1 .. Len(fr) : /\ fr[k].name \in Services
                                      /\ fr[k].left \in SUBSET Services
<1> DEFINE F == [name: Services, left: SUBSET Services]
<1>1. fr \in Seq(F)
  BY DEF Frames
<1>2. \A x \in F : x.name \in Services /\ x.left \in SUBSET Services
  OBVIOUS
<1> HIDE DEF F
<1>3. Len(fr) \in Nat /\ DOMAIN fr = 1 .. Len(fr) /\ \A k \in 1 .. Len(fr) : fr[k] \in F
  BY <1>1, LenProperties, ElementOfSeq
<1>4. fr # <<>> <=> Len(fr) > 0
  BY <1>1, <1>3, EmptySeq
<1> QED
  BY <1>2, <1>3, <1>4

\* A call that returns at once, since what it is about is done.
LEMMA SkipKeepsWalk ==
    ASSUME NEW fr \in Frames, NEW td, NEW dep \in Documents, NEW done,
           Walks(fr, td, dep, done), NEW n \in done
    PROVE  Walks(Crossed(fr, n), Rest(fr, td, n), dep, done)
<1> DEFINE w == Crossed(fr, n)
<1>1. /\ Len(w) = Len(fr)
      /\ \A k \in 1 .. Len(fr) : /\ w[k].name = fr[k].name
                                 /\ w[k].left =
                                       IF k = Len(fr) THEN fr[k].left \ {n} ELSE fr[k].left
  BY CrossedFrames
<1>2. fr # <<>> <=> w # <<>>
  BY <1>1, CrossedFrames, FramesType
<1> HIDE DEF w
<1>3. Len(fr) \in Nat /\ (fr # <<>> => 1 \in 1 .. Len(fr))
  BY FramesType
<1>4. ASSUME NEW k \in 1 .. Len(w)
      PROVE  /\ w[k].name \notin done
             /\ w[k].left \subseteq dep[w[k].name]
             /\ Gone(w, dep, done, k)
             /\ k < Len(w) => w[k + 1].name \in dep[w[k].name]
  <2>1. /\ fr[k].name \notin done
        /\ fr[k].left \subseteq dep[fr[k].name]
        /\ Gone(fr, dep, done, k)
        /\ k < Len(fr) => fr[k + 1].name \in dep[fr[k].name]
    BY <1>1, <1>4 DEF Walks
  <2>2. k < Len(fr) => w[k + 1].name = fr[k + 1].name
    <3>1. k < Len(fr) => k + 1 \in 1 .. Len(fr)
      BY <1>1, <1>3, <1>4
    <3> QED
      BY <1>1, <3>1
  <2>3. w[k].name = fr[k].name /\ fr[k].left \subseteq w[k].left \cup {n}
        /\ w[k].left \subseteq fr[k].left
    BY <1>1, <1>4
  <2>4. Gone(w, dep, done, k)
    BY <1>1, <2>1, <2>2, <2>3 DEF Gone
  <2> QED
    BY <1>1, <2>1, <2>2, <2>3, <2>4
<1>5. \A j, k \in 1 .. Len(w) : w[j].name = w[k].name => j = k
  BY <1>1 DEF Walks
<1>6. \A m \in Services \ Rest(fr, td, n) : m \in done \/ (w # <<>> /\ w[1].name = m)
  <2>1. \A m \in Services \ Rest(fr, td, n) : m = n \/ m \in Services \ td
    BY DEF Rest
  <2> QED
    BY <1>1, <1>2, <1>3, <2>1 DEF Walks
<1> QED
  BY <1>4, <1>5, <1>6 DEF Walks, w

\* A call that goes through the dependencies of what it is about.
LEMMA EnterKeepsWalk ==
    ASSUME NEW fr \in Frames, NEW td \in SUBSET Services, NEW dep \in Documents, NEW done,
           Walks(fr, td, dep, done), NEW n \in Services, Reaches(fr, td, n), n \notin done,
           \A k \in 1 .. Len(fr) : fr[k].name # n,
           NEW x, x = [name |-> n, left |-> dep[n]]
    PROVE  /\ Append(Crossed(fr, n), x) \in Frames
           /\ Walks(Append(Crossed(fr, n), x), Rest(fr, td, n), dep, done)
<1> DEFINE w == Crossed(fr, n)
           v == Append(w, x)
           F == [name: Services, left: SUBSET Services]
<1>1. /\ w \in Frames
      /\ Len(w) = Len(fr)
      /\ \A k \in 1 .. Len(fr) : /\ w[k].name = fr[k].name
                                 /\ w[k].left =
                                       IF k = Len(fr) THEN fr[k].left \ {n} ELSE fr[k].left
  BY CrossedFrames
<1>2. x \in F /\ x.name = n /\ x.left = dep[n] /\ dep[n] \in SUBSET Services
  BY DEF Documents
<1>3. Len(fr) \in Nat
  BY FramesType
<1> HIDE DEF w, F
<1>4. /\ v \in Frames
      /\ Len(v) = Len(fr) + 1
      /\ \A k \in 1 .. Len(fr) : v[k] = w[k]
      /\ v[Len(fr) + 1] = x
  BY <1>1, <1>2, AppendFrames DEF Frames, F
<1> HIDE DEF v
<1>5. v # <<>>
  BY <1>3, <1>4, FramesType
<1>6. /\ \A k \in 1 .. Len(fr) : v[k].name = fr[k].name
      /\ v[Len(fr) + 1].name = n
  BY <1>1, <1>2, <1>4
<1>7. ASSUME NEW k \in 1 .. Len(v)
      PROVE  /\ v[k].name \notin done
             /\ v[k].left \subseteq dep[v[k].name]
             /\ Gone(v, dep, done, k)
             /\ k < Len(v) => v[k + 1].name \in dep[v[k].name]
  <2>1. CASE k = Len(fr) + 1
    <3>1. v[k] = x /\ ~(k < Len(v))
      BY <1>3, <1>4, <2>1
    <3> QED
      BY <1>2, <3>1 DEF Gone
  <2>2. CASE k = Len(fr) /\ k \in 1 .. Len(fr)
    <3>1. /\ fr[k].name \notin done
          /\ fr[k].left \subseteq dep[fr[k].name]
          /\ Gone(fr, dep, done, k)
      BY <2>2 DEF Walks
    <3>2. v[k].name = fr[k].name /\ v[k].left = fr[k].left \ {n}
      BY <1>1, <1>4, <2>2
    <3>3. k + 1 = Len(fr) + 1 /\ k < Len(v) /\ ~(k < Len(fr))
      BY <1>3, <1>4, <2>2
    <3>4. n \in fr[k].left
      BY <1>3, <2>2, FramesType DEF Reaches
    <3> QED
      BY <1>6, <3>1, <3>2, <3>3, <3>4 DEF Gone
  <2>3. CASE k < Len(fr)
    <3>0. k \in 1 .. Len(fr) /\ k + 1 \in 1 .. Len(fr)
      BY <1>3, <1>4, <2>3
    <3>1. /\ fr[k].name \notin done
          /\ fr[k].left \subseteq dep[fr[k].name]
          /\ Gone(fr, dep, done, k)
          /\ fr[k + 1].name \in dep[fr[k].name]
      BY <2>3, <3>0 DEF Walks
    <3>2. v[k].name = fr[k].name /\ v[k].left = fr[k].left /\ v[k + 1].name = fr[k + 1].name
      BY <1>1, <1>3, <1>4, <1>6, <2>3, <3>0
    <3>3. k < Len(v)
      BY <1>3, <1>4, <2>3
    <3> QED
      BY <2>3, <3>1, <3>2, <3>3 DEF Gone
  <2> QED
    BY <1>3, <1>4, <2>1, <2>2, <2>3
<1>8. \A j, k \in 1 .. Len(v) : v[j].name = v[k].name => j = k
  <2>1. \A j \in 1 .. Len(v) : j \in 1 .. Len(fr) \/ j = Len(fr) + 1
    BY <1>3, <1>4
  <2> QED
    BY <1>6, <2>1 DEF Walks
<1>9. \A m \in Services \ Rest(fr, td, n) : m \in done \/ (v # <<>> /\ v[1].name = m)
  <2>1. CASE fr = <<>>
    <3>1. v[1].name = n
      BY <1>6, <2>1
    <3> QED
      BY <1>5, <2>1, <3>1 DEF Rest, Walks
  <2>2. CASE fr # <<>>
    <3>1. v[1].name = fr[1].name
      BY <1>6, <2>2, FramesType
    <3> QED
      BY <1>5, <2>2, <3>1 DEF Rest, Walks
  <2> QED
    BY <2>1, <2>2
<1>10. Walks(v, Rest(fr, td, n), dep, done)
  BY <1>7, <1>8, <1>9 DEF Walks
<1> QED
  BY <1>4, <1>10 DEF v, w

\* A return, of a call that has come to all of its dependencies.
LEMMA LeaveKeepsWalk ==
    ASSUME NEW fr \in Frames, NEW td, NEW dep \in Documents, NEW done,
           Walks(fr, td, dep, done), fr # <<>>, fr[Len(fr)].left = {}
    PROVE  /\ Front(fr) \in Frames
           /\ dep[fr[Len(fr)].name] \subseteq done
           /\ Walks(Front(fr), td, dep, done \cup {fr[Len(fr)].name})
<1> DEFINE w == Front(fr)
           n == fr[Len(fr)].name
<1>1. /\ w \in Frames
      /\ Len(w) = Len(fr) - 1
      /\ \A k \in 1 .. Len(fr) - 1 : w[k] = fr[k]
  BY FrontFrames DEF Frames
<1> HIDE DEF w
<1>2. Len(fr) \in Nat /\ Len(fr) > 0
  BY FramesType
<1>3. dep[n] \subseteq done
  <2>1. Len(fr) \in 1 .. Len(fr) /\ ~(Len(fr) < Len(fr))
    BY <1>2
  <2> QED
    BY <2>1 DEF Walks, Gone
<1>4. ASSUME NEW k \in 1 .. Len(w)
      PROVE  /\ w[k].name \notin done \cup {n}
             /\ w[k].left \subseteq dep[w[k].name]
             /\ Gone(w, dep, done \cup {n}, k)
             /\ k < Len(w) => w[k + 1].name \in dep[w[k].name]
  <2>1. k \in 1 .. Len(fr) /\ k < Len(fr) /\ k # Len(fr) /\ Len(fr) \in 1 .. Len(fr)
    BY <1>1, <1>2, <1>4
  <2>2. /\ fr[k].name \notin done
        /\ fr[k].left \subseteq dep[fr[k].name]
        /\ Gone(fr, dep, done, k)
        /\ fr[k + 1].name \in dep[fr[k].name]
        /\ fr[k].name # n
    BY <2>1 DEF Walks
  <2>3. w[k] = fr[k] /\ (k < Len(w) => w[k + 1] = fr[k + 1])
    BY <1>1, <1>2, <1>4
  <2>4. k < Len(w) \/ fr[k + 1].name = n
    <3>1. k < Len(w) \/ k + 1 = Len(fr)
      BY <1>1, <1>2, <1>4
    <3> QED
      BY <3>1
  <2> QED
    BY <2>1, <2>2, <2>3, <2>4 DEF Gone
<1>5. \A j, k \in 1 .. Len(w) : w[j].name = w[k].name => j = k
  <2>1. \A j \in 1 .. Len(w) : j \in 1 .. Len(fr) /\ w[j] = fr[j]
    BY <1>1, <1>2
  <2> QED
    BY <2>1 DEF Walks
<1>6. \A m \in Services \ td : m \in done \cup {n} \/ (w # <<>> /\ w[1].name = m)
  <2>1. CASE Len(fr) = 1
    BY <2>1 DEF Walks
  <2>2. CASE Len(fr) # 1
    <3>1. w # <<>> /\ w[1] = fr[1]
      BY <1>1, <1>2, <2>2, FramesType
    <3> QED
      BY <3>1 DEF Walks
  <2> QED
    BY <2>1, <2>2
<1> QED
  BY <1>1, <1>3, <1>4, <1>5, <1>6 DEF Walks, w

\* Circular, of the dependencies it is about.
Knotted(dep) ==
    \E knot \in SUBSET Services : knot # {} /\ \A m \in knot : dep[m] \cap knot # {}

\* A call for a service that is in progress already closes a knot.
LEMMA KnotOnPath ==
    ASSUME NEW fr \in Frames, NEW td, NEW dep \in Documents, NEW done,
           Walks(fr, td, dep, done), NEW n, Reaches(fr, td, n),
           NEW i \in 1 .. Len(fr), fr[i].name = n
    PROVE  Knotted(dep)
<1> DEFINE knot == {fr[k].name : k \in i .. Len(fr)}
<1>1. Len(fr) \in Nat /\ fr # <<>>
  BY FramesType
<1>2. n \in knot
  <2>1. i \in i .. Len(fr)
    BY <1>1
  <2> QED
    BY <2>1
<1>3. knot \in SUBSET Services
  <2>1. \A k \in i .. Len(fr) : k \in 1 .. Len(fr)
    BY <1>1
  <2> QED
    BY <2>1, FramesType
<1>4. ASSUME NEW m \in knot
      PROVE  dep[m] \cap knot # {}
  <2>1. PICK k \in i .. Len(fr) : m = fr[k].name
    BY <1>4
  <2>2. k \in 1 .. Len(fr)
    BY <1>1
  <2>3. CASE k = Len(fr)
    <3>1. n \in fr[k].left /\ fr[k].left \subseteq dep[fr[k].name]
      BY <1>1, <2>2, <2>3 DEF Reaches, Walks
    <3> QED
      BY <1>2, <2>1, <3>1
  <2>4. CASE k < Len(fr)
    <3>1. k + 1 \in i .. Len(fr)
      BY <1>1, <2>2, <2>4
    <3>2. fr[k + 1].name \in dep[fr[k].name]
      BY <2>2, <2>4 DEF Walks
    <3>3. fr[k + 1].name \in knot
      BY <3>1
    <3> QED
      BY <2>1, <3>2, <3>3
  <2> QED
    BY <1>1, <2>2, <2>3, <2>4
<1> QED
  BY <1>2, <1>3, <1>4 DEF Knotted

-----------------------------------------------------------------------------
(* What the walks finish: require_acyclic's set, and start_order's list.   *)

Closed(dep, done) == \A n \in done : dep[n] \subseteq done
KnotFree(dep, done) ==
    \A knot \in SUBSET done : knot # {} => \E n \in knot : dep[n] \cap knot = {}

\* Each service of s comes after its dependencies.
Placed(dep, s) ==
    \A k \in 1 .. Len(s) : \A d \in dep[s[k]] : \E j \in 1 .. k - 1 : s[j] = d
Distinct(s) == \A j, k \in 1 .. Len(s) : s[j] = s[k] => j = k

\* A service whose dependencies are finished, and which is not one of them, ties no knot.
LEMMA NoKnotTied ==
    ASSUME NEW dep \in Dependencies, NEW done \in SUBSET Services,
           Closed(dep, done), KnotFree(dep, done),
           NEW x \in Services, x \notin done, dep[x] \subseteq done
    PROVE  Closed(dep, done \cup {x}) /\ KnotFree(dep, done \cup {x})
<1>1. Closed(dep, done \cup {x})
  BY DEF Closed
<1>2. ASSUME NEW knot \in SUBSET (done \cup {x}), knot # {}
      PROVE  \E n \in knot : dep[n] \cap knot = {}
  <2>1. CASE x \notin knot
    BY <1>2, <2>1 DEF KnotFree
  <2>2. CASE x \in knot /\ knot \ {x} = {}
    <3>1. x \notin dep[x]
      BY DEF Dependencies
    <3> QED
      BY <2>2, <3>1
  <2>3. CASE x \in knot /\ knot \ {x} # {}
    <3>1. PICK n \in knot \ {x} : dep[n] \cap (knot \ {x}) = {}
      BY <1>2, <2>3 DEF KnotFree
    <3>2. x \notin dep[n]
      BY <3>1 DEF Closed
    <3> QED
      BY <3>1, <3>2
  <2> QED
    BY <2>1, <2>2, <2>3
<1> QED
  BY <1>1, <1>2 DEF KnotFree

\* A service whose dependencies are in the list may come next in it.
LEMMA PlacedNext ==
    ASSUME NEW dep, NEW s \in Seq(Services), Placed(dep, s), Distinct(s),
           NEW x \in Services, x \notin ToSet(s), dep[x] \subseteq ToSet(s)
    PROVE  Placed(dep, Append(s, x)) /\ Distinct(Append(s, x))
<1> DEFINE t == Append(s, x)
<1>1. /\ Len(t) = Len(s) + 1 /\ Len(s) \in Nat
      /\ \A k \in 1 .. Len(s) : t[k] = s[k]
      /\ t[Len(s) + 1] = x
  BY LenProperties, AppendFrames
<1> HIDE DEF t
<1>2. \A d : d \in ToSet(s) <=> \E k \in 1 .. Len(s) : s[k] = d
  BY ToSetMembers
<1>3. \A k \in 1 .. Len(t) : k \in 1 .. Len(s) \/ k = Len(s) + 1
  BY <1>1
<1>4. ASSUME NEW k \in 1 .. Len(t), NEW d \in dep[t[k]]
      PROVE  \E j \in 1 .. k - 1 : t[j] = d
  <2>1. CASE k \in 1 .. Len(s)
    <3>1. PICK j \in 1 .. k - 1 : s[j] = d
      BY <1>1, <1>4, <2>1 DEF Placed
    <3>2. j \in 1 .. Len(s)
      BY <1>1, <2>1
    <3> QED
      BY <1>1, <3>1, <3>2
  <2>2. CASE k = Len(s) + 1
    <3>1. PICK j \in 1 .. Len(s) : s[j] = d
      BY <1>1, <1>2, <1>4, <2>2
    <3>2. j \in 1 .. k - 1
      BY <1>1, <2>2
    <3> QED
      BY <1>1, <3>1, <3>2
  <2> QED
    BY <1>3, <2>1, <2>2
<1>5. \A j, k \in 1 .. Len(t) : t[j] = t[k] => j = k
  BY <1>1, <1>2, <1>3 DEF Distinct
<1> QED
  BY <1>4, <1>5 DEF Placed, Distinct, t

-----------------------------------------------------------------------------
(* The inductive invariant.                                                *)

Checking == {"checking", "refused"}
Delivering == {"starting", "failed", "started"}
Phases == Checking \cup {"ordering"} \cup Delivering

Types ==
    /\ depends \in Dependencies
    /\ phase \in Phases
    /\ todo \in SUBSET Services
    /\ frames \in Frames
    /\ finished \in SUBSET Services
    /\ ordered \in Seq(Services)
    /\ started \in Seq(Services)

\* require_acyclic: nothing it has finished waits for itself.
CheckInv ==
    /\ phase = "checking" => Walks(frames, todo, depends, finished)
    /\ Closed(depends, finished) /\ KnotFree(depends, finished)
    /\ phase = "refused" => Circular
    /\ phase \notin Checking => ~Circular

\* start_order: what is in the list comes after its dependencies, once.
OrderInv ==
    /\ phase = "ordering" => Walks(frames, todo, depends, ToSet(ordered))
    /\ phase \in Checking => ordered = <<>>
    /\ Placed(depends, ordered) /\ Distinct(ordered)
    /\ phase \in Delivering => ToSet(ordered) = Services

\* Runtime.apply: the services started are the first of the list.
StartInv ==
    /\ phase \notin Delivering => started = <<>>
    /\ Len(started) <= Len(ordered)
    /\ \A k \in 1 .. Len(started) : started[k] = ordered[k]
    /\ phase = "started" => Len(started) = Len(ordered)

OrderingInv == Types /\ CheckInv /\ OrderInv /\ StartInv /\ VisitsApart

LEMMA WalksApart ==
    ASSUME NEW fr \in Frames, NEW td, NEW dep, NEW done, Walks(fr, td, dep, done)
    PROVE  \A j, k \in DOMAIN fr : fr[j].name = fr[k].name => j = k
BY FramesType DEF Walks

\* The walk has gone through everything.
LEMMA WalkEnds ==
    ASSUME NEW dep, NEW done \in SUBSET Services, Walks(<<>>, {}, dep, done)
    PROVE  done = Services
BY DEF Walks

LEMMA WalkBegins ==
    ASSUME NEW dep, NEW done
    PROVE  Walks(<<>>, Services, dep, done)
<1>1. ~(\E k : k \in 1 .. Len(<<>>))
  OBVIOUS
<1> QED
  BY <1>1 DEF Walks

\* The steps of a walk, in the terms of the lemmas above.
LEMMA Coming ==
    ASSUME NEW n, Comes(n)
    PROVE  Reaches(frames, todo, n)
BY DEF Comes, Reaches, Last

LEMMA Skipping ==
    ASSUME NEW n, Skip(n)
    PROVE  frames' = Crossed(frames, n) /\ todo' = Rest(frames, todo, n)
BY DEF Skip, Without, Crossed, CrossOff, Rest

LEMMA Entering ==
    ASSUME NEW n, Enter(n)
    PROVE  /\ frames' = Append(Crossed(frames, n), [name |-> n, left |-> depends[n]])
           /\ todo' = Rest(frames, todo, n)
BY DEF Enter, Without, Frame, Crossed, CrossOff, Rest

LEMMA OnPath ==
    ASSUME Types, NEW n
    PROVE  n \in InProgress <=> \E k \in 1 .. Len(frames) : frames[k].name = n
BY FramesType DEF Types, InProgress

LEMMA RestOfLoop ==
    ASSUME NEW fr, NEW td \in SUBSET Services, NEW n
    PROVE  Rest(fr, td, n) \in SUBSET Services
BY DEF Rest

LEMMA KnottedCircular == Circular <=> Knotted(depends)
BY DEF Circular, Knotted

LEMMA InvInit == Init => OrderingInv
<1> SUFFICES ASSUME Init PROVE OrderingInv
  OBVIOUS
<1>1. Types
  BY DEF Init, Types, Phases, Checking, Frames
<1>2. CheckInv
  BY WalkBegins DEF Init, CheckInv, Closed, KnotFree, Checking
<1>3. OrderInv
  <2>1. ~(\E k : k \in 1 .. Len(<<>>))
    OBVIOUS
  <2> QED
    BY <2>1 DEF Init, OrderInv, Placed, Distinct, Checking, Delivering
<1>4. StartInv
  BY DEF Init, StartInv
<1>5. VisitsApart
  BY DEF Init, VisitsApart
<1> QED
  BY <1>1, <1>2, <1>3, <1>4, <1>5 DEF OrderingInv

LEMMA InvCheckVisit ==
    ASSUME OrderingInv, NEW n \in Services, CheckVisit(n)
    PROVE  OrderingInv'
<1>1. /\ Types /\ CheckInv /\ OrderInv /\ StartInv /\ VisitsApart
      /\ phase = "checking" /\ Reaches(frames, todo, n)
      /\ UNCHANGED <<depends, finished, ordered, started>>
      /\ Walks(frames, todo, depends, finished)
  BY Coming DEF OrderingInv, CheckVisit, CheckInv
<1>2. depends \in Documents /\ frames \in Frames /\ todo \in SUBSET Services
  BY <1>1 DEF Types, Dependencies, Documents
<1>3. CASE Refuses(n) /\ phase' = "refused" /\ frames' = frames /\ todo' = todo
  <2>1. frames' = frames /\ todo' = todo
    BY <1>3
  <2>2. Circular
    <3>1. PICK i \in 1 .. Len(frames) : frames[i].name = n
      BY <1>1, <1>3, OnPath DEF Refuses
    <3> QED
      BY <1>1, <1>2, <3>1, KnotOnPath, KnottedCircular
  <2>3. Types'
    BY <1>1, <1>3, <2>1 DEF Types, Phases, Checking
  <2>4. CheckInv'
    BY <1>1, <1>3, <2>2 DEF CheckInv, Circular, Checking
  <2>5. OrderInv' /\ StartInv' /\ VisitsApart'
    BY <1>1, <1>3, <2>1 DEF OrderInv, StartInv, VisitsApart, Checking, Delivering
  <2> QED
    BY <2>3, <2>4, <2>5 DEF OrderingInv
<1>4. CASE /\ ~Refuses(n) /\ phase' = phase
          /\ \/ Skip(n) /\ n \in finished
             \/ Enter(n) /\ n \notin finished
  <2>1. frames' \in Frames /\ todo' \in SUBSET Services /\ Walks(frames', todo', depends, finished)
    <3>1. CASE Skip(n) /\ n \in finished
      BY <1>1, <1>2, <3>1, Skipping, SkipKeepsWalk, CrossedFrames, RestOfLoop
    <3>2. CASE Enter(n) /\ n \notin finished
      <4>1. \A k \in 1 .. Len(frames) : frames[k].name # n
        BY <1>1, <1>4, OnPath DEF Refuses
      <4> QED
        BY <1>1, <1>2, <3>2, <4>1, Entering, EnterKeepsWalk, RestOfLoop
    <3> QED
      BY <1>4, <3>1, <3>2
  <2>2. VisitsApart'
    BY <2>1, WalksApart DEF VisitsApart
  <2>3. Types'
    BY <1>1, <1>4, <2>1 DEF Types
  <2>4. CheckInv'
    BY <1>1, <1>4, <2>1 DEF CheckInv, Circular, Checking
  <2>5. OrderInv' /\ StartInv'
    BY <1>1, <1>4 DEF OrderInv, StartInv, Checking, Delivering
  <2> QED
    BY <2>2, <2>3, <2>4, <2>5 DEF OrderingInv
<1>5. \/ Refuses(n) /\ phase' = "refused" /\ frames' = frames /\ todo' = todo
      \/ ~Refuses(n) /\ n \in finished /\ Skip(n) /\ phase' = phase
      \/ ~Refuses(n) /\ n \notin finished /\ Enter(n) /\ phase' = phase
  BY DEF CheckVisit, walk
<1> QED
  BY <1>3, <1>4, <1>5

LEMMA InvCheckReturn ==
    ASSUME OrderingInv, CheckReturn
    PROVE  OrderingInv'
<1> DEFINE x == frames[Len(frames)].name
<1>1. /\ Types /\ CheckInv /\ OrderInv /\ StartInv /\ VisitsApart
      /\ phase = "checking" /\ frames # <<>> /\ frames[Len(frames)].left = {}
      /\ frames' = Front(frames) /\ finished' = finished \cup {x}
      /\ UNCHANGED <<depends, phase, todo, ordered, started>>
      /\ Walks(frames, todo, depends, finished)
  BY DEF OrderingInv, CheckReturn, Leave, Last, CheckInv
<1>2. depends \in Documents /\ frames \in Frames
  BY <1>1 DEF Types, Dependencies, Documents
<1>3. x \in Services /\ x \notin finished
  BY <1>1, <1>2, FramesType DEF Walks
<1>4. /\ frames' \in Frames
      /\ depends[x] \subseteq finished
      /\ Walks(frames', todo, depends, finished')
  BY <1>1, <1>2, LeaveKeepsWalk
<1> HIDE DEF x
<1>5. Closed(depends, finished') /\ KnotFree(depends, finished')
  BY <1>1, <1>3, <1>4, NoKnotTied DEF Types, CheckInv
<1>6. VisitsApart'
  BY <1>4, WalksApart DEF VisitsApart
<1>7. Types'
  BY <1>1, <1>3, <1>4 DEF Types
<1>8. CheckInv'
  BY <1>1, <1>4, <1>5 DEF CheckInv, Circular, Checking
<1>9. OrderInv' /\ StartInv'
  BY <1>1 DEF OrderInv, StartInv, Checking, Delivering
<1> QED
  BY <1>6, <1>7, <1>8, <1>9 DEF OrderingInv

LEMMA InvAccept ==
    ASSUME OrderingInv, Accept
    PROVE  OrderingInv'
<1>1. /\ Types /\ CheckInv /\ OrderInv /\ StartInv
      /\ phase = "checking" /\ frames = <<>> /\ todo = {}
      /\ phase' = "ordering" /\ todo' = Services
      /\ UNCHANGED <<depends, frames, finished, ordered, started>>
      /\ Walks(<<>>, {}, depends, finished)
  BY DEF OrderingInv, Accept, CheckInv
<1>2. ~Circular
  BY <1>1, WalkEnds DEF Types, CheckInv, KnotFree, Circular
<1>3. Types'
  BY <1>1 DEF Types, Phases
<1>4. CheckInv'
  BY <1>1, <1>2 DEF CheckInv, Circular
<1>5. OrderInv'
  BY <1>1, WalkBegins DEF OrderInv, Checking, Delivering
<1>6. StartInv' /\ VisitsApart'
  BY <1>1 DEF StartInv, VisitsApart, Delivering
<1> QED
  BY <1>3, <1>4, <1>5, <1>6 DEF OrderingInv

LEMMA InvOrderVisit ==
    ASSUME OrderingInv, NEW n \in Services, OrderVisit(n)
    PROVE  OrderingInv'
<1>1. /\ Types /\ CheckInv /\ OrderInv /\ StartInv
      /\ phase = "ordering" /\ Reaches(frames, todo, n)
      /\ UNCHANGED <<depends, phase, finished, ordered, started>>
      /\ Walks(frames, todo, depends, ToSet(ordered))
  BY Coming DEF OrderingInv, OrderVisit, OrderInv
<1>2. depends \in Documents /\ frames \in Frames /\ todo \in SUBSET Services
  BY <1>1 DEF Types, Dependencies, Documents
<1>3. frames' \in Frames /\ todo' \in SUBSET Services /\ Walks(frames', todo', depends, ToSet(ordered))
  <2>1. CASE n \in ToSet(ordered) /\ Skip(n)
    BY <1>1, <1>2, <2>1, Skipping, SkipKeepsWalk, CrossedFrames, RestOfLoop
  <2>2. CASE n \notin ToSet(ordered) /\ Enter(n)
    <3>1. ~Circular
      BY <1>1 DEF CheckInv, Checking
    <3>2. \A k \in 1 .. Len(frames) : frames[k].name # n
      BY <1>1, <1>2, <3>1, KnotOnPath, KnottedCircular
    <3> QED
      BY <1>1, <1>2, <2>2, <3>2, Entering, EnterKeepsWalk, RestOfLoop
  <2> QED
    BY <2>1, <2>2 DEF OrderVisit
<1>4. VisitsApart'
  BY <1>3, WalksApart DEF VisitsApart
<1>5. Types'
  BY <1>1, <1>3 DEF Types
<1>6. CheckInv'
  BY <1>1 DEF CheckInv, Circular, Checking
<1>7. OrderInv'
  BY <1>1, <1>3 DEF OrderInv, Checking, Delivering
<1>8. StartInv'
  BY <1>1 DEF StartInv
<1> QED
  BY <1>4, <1>5, <1>6, <1>7, <1>8 DEF OrderingInv

LEMMA InvOrderReturn ==
    ASSUME OrderingInv, OrderReturn
    PROVE  OrderingInv'
<1> DEFINE x == frames[Len(frames)].name
<1>1. /\ Types /\ CheckInv /\ OrderInv /\ StartInv
      /\ phase = "ordering" /\ frames # <<>> /\ frames[Len(frames)].left = {}
      /\ frames' = Front(frames) /\ ordered' = Append(ordered, x)
      /\ UNCHANGED <<depends, phase, todo, finished, started>>
      /\ Walks(frames, todo, depends, ToSet(ordered))
  BY DEF OrderingInv, OrderReturn, Leave, Last, OrderInv
<1>2. depends \in Documents /\ frames \in Frames
  BY <1>1 DEF Types, Dependencies, Documents
<1>3. x \in Services /\ x \notin ToSet(ordered)
  BY <1>1, <1>2, FramesType DEF Walks
<1>4. /\ frames' \in Frames
      /\ depends[x] \subseteq ToSet(ordered)
      /\ Walks(frames', todo, depends, ToSet(ordered) \cup {x})
  BY <1>1, <1>2, LeaveKeepsWalk
<1> HIDE DEF x
<1>5. ToSet(ordered') = ToSet(ordered) \cup {x}
  BY <1>1, <1>3, ToSetAppend DEF Types
<1>6. Placed(depends, ordered') /\ Distinct(ordered')
  BY <1>1, <1>3, <1>4, PlacedNext DEF Types, OrderInv
<1>7. VisitsApart'
  BY <1>4, WalksApart DEF VisitsApart
<1>8. Types'
  BY <1>1, <1>3, <1>4, AppendFrames DEF Types
<1>9. CheckInv'
  BY <1>1 DEF CheckInv, Circular, Checking
<1>10. OrderInv'
  BY <1>1, <1>4, <1>5, <1>6 DEF OrderInv, Checking, Delivering
<1>11. StartInv'
  BY <1>1, <1>3, EmptySeq, LenProperties, AppendFrames DEF StartInv, Types, Delivering
<1> QED
  BY <1>7, <1>8, <1>9, <1>10, <1>11 DEF OrderingInv

LEMMA InvOrderEnds ==
    ASSUME OrderingInv, OrderEnds
    PROVE  OrderingInv'
<1>1. /\ Types /\ CheckInv /\ OrderInv /\ StartInv /\ VisitsApart
      /\ phase = "ordering" /\ phase' = "starting"
      /\ UNCHANGED <<depends, todo, frames, finished, ordered, started>>
      /\ Walks(<<>>, {}, depends, ToSet(ordered))
  BY DEF OrderingInv, OrderEnds, OrderInv, walk
<1>2. ToSet(ordered) = Services
  BY <1>1, WalkEnds, ToSetMembers DEF Types
<1>3. Types'
  BY <1>1 DEF Types, Phases, Delivering
<1>4. CheckInv'
  BY <1>1 DEF CheckInv, Circular, Checking
<1>5. OrderInv'
  BY <1>1, <1>2 DEF OrderInv, Checking
<1>6. StartInv' /\ VisitsApart'
  BY <1>1 DEF StartInv, VisitsApart, Delivering
<1> QED
  BY <1>3, <1>4, <1>5, <1>6 DEF OrderingInv

\* Runtime.apply goes through the list.
LEMMA InvDeliver ==
    ASSUME OrderingInv, Start \/ StartFails \/ AllStarted
    PROVE  OrderingInv'
<1>1. /\ Types /\ CheckInv /\ OrderInv /\ StartInv /\ VisitsApart
      /\ phase = "starting" /\ phase' \in Delivering
      /\ UNCHANGED <<depends, todo, frames, finished, ordered>>
  BY DEF OrderingInv, Start, StartFails, AllStarted, walk, Delivering
<1>2. started' \in Seq(Services) /\ StartInv'
  <2>1. /\ Len(ordered) \in Nat /\ Len(started) \in Nat
        /\ \A k \in 1 .. Len(ordered) : ordered[k] \in Services
    BY <1>1, LenProperties, ElementOfSeq DEF Types
  <2>2. CASE Start
    <3> DEFINE x == ordered[Len(started) + 1]
    <3>1. x \in Services
      BY <2>1, <2>2 DEF Start
    <3>2. started' = Append(started, x) /\ Len(started) < Len(ordered)
      BY <2>2 DEF Start
    <3> HIDE DEF x
    <3>3. /\ started' \in Seq(Services)
          /\ Len(started') = Len(started) + 1
          /\ \A k \in 1 .. Len(started) : started'[k] = started[k]
          /\ started'[Len(started) + 1] = x
      BY <1>1, <3>1, <3>2, AppendFrames DEF Types
    <3>4. \A k \in 1 .. Len(started') : k \in 1 .. Len(started) \/ k = Len(started) + 1
      BY <2>1, <3>3
    <3>5. \A k \in 1 .. Len(started') : started'[k] = ordered[k]
      BY <1>1, <3>3, <3>4 DEF StartInv, x
    <3>6. phase' = "starting" /\ ordered' = ordered /\ Len(started') <= Len(ordered)
      BY <1>1, <2>1, <2>2, <3>2, <3>3 DEF Start
    <3> QED
      BY <3>3, <3>5, <3>6 DEF StartInv, Delivering
  <2>3. CASE StartFails
    BY <1>1, <2>3 DEF StartFails, StartInv, Delivering, Types
  <2>4. CASE AllStarted
    BY <1>1, <2>4 DEF AllStarted, StartInv, Delivering, Types
  <2> QED
    BY <2>2, <2>3, <2>4
<1>3. Types'
  BY <1>1, <1>2 DEF Types, Phases
<1>4. CheckInv'
  BY <1>1 DEF CheckInv, Circular, Checking, Delivering
<1>5. OrderInv' /\ VisitsApart'
  BY <1>1 DEF OrderInv, VisitsApart, Checking, Delivering
<1> QED
  BY <1>2, <1>3, <1>4, <1>5 DEF OrderingInv

LEMMA InvStutter ==
    ASSUME OrderingInv, UNCHANGED vars
    PROVE  OrderingInv'
BY DEF OrderingInv, vars, walk, Types, CheckInv, OrderInv, StartInv, VisitsApart, Circular

\* The order of a delivery's services, as require_acyclic and start_order walk it: the
\* inductive invariant of both walks, and of the services started after them.
THEOREM OrderingInvariance == Spec => []OrderingInv
<1>1. OrderingInv /\ [Next]_vars => OrderingInv'
  <2> SUFFICES ASSUME OrderingInv, [Next]_vars PROVE OrderingInv'
    OBVIOUS
  <2>1. ASSUME NEW n \in Services, CheckVisit(n) PROVE OrderingInv'
    BY <2>1, InvCheckVisit
  <2>2. ASSUME NEW n \in Services, OrderVisit(n) PROVE OrderingInv'
    BY <2>2, InvOrderVisit
  <2>3. CASE CheckReturn
    BY <2>3, InvCheckReturn
  <2>4. CASE Accept
    BY <2>4, InvAccept
  <2>5. CASE OrderReturn
    BY <2>5, InvOrderReturn
  <2>6. CASE OrderEnds
    BY <2>6, InvOrderEnds
  <2>7. CASE Start \/ StartFails \/ AllStarted
    BY <2>7, InvDeliver
  <2>8. CASE UNCHANGED vars
    BY <2>8, InvStutter
  <2> QED
    BY <2>1, <2>2, <2>3, <2>4, <2>5, <2>6, <2>7, <2>8 DEF Next
<1> QED
  BY InvInit, <1>1, PTL DEF Spec

\* require_acyclic refuses the deliveries in which some services wait for one another,
\* and no other.
THEOREM CyclesRefused == Spec => []ExactlyCyclesRefused
<1>1. OrderingInv => ExactlyCyclesRefused
  BY DEF OrderingInv, Types, CheckInv, ExactlyCyclesRefused, Phases, Checking
<1> QED
  BY <1>1, OrderingInvariance, PTL

\* A service is started when everything it depends on is, once, and a delivery that gets
\* through has started every service.
THEOREM DependenciesStarted == Spec => []DependenciesFirst
<1>1. OrderingInv => DependenciesFirst
  <2> SUFFICES ASSUME OrderingInv PROVE DependenciesFirst
    OBVIOUS
  <2>1. /\ Types /\ OrderInv /\ StartInv
        /\ Len(ordered) \in Nat /\ Len(started) \in Nat /\ DOMAIN started = 1 .. Len(started)
        /\ Len(started) <= Len(ordered)
        /\ \A k \in 1 .. Len(started) : k \in 1 .. Len(ordered) /\ started[k] = ordered[k]
    BY LenProperties DEF OrderingInv, Types, StartInv
  <2>2. \A x : x \in ToSet(started) <=> \E k \in 1 .. Len(started) : started[k] = x
    BY <2>1, ToSetMembers DEF Types
  <2>3. IsInjective(started)
    BY <2>1 DEF OrderInv, Distinct, IsInjective
  <2>4. ASSUME NEW n \in ToSet(started), NEW d \in depends[n]
        PROVE  d \in ToSet(started)
    <3>1. PICK k \in 1 .. Len(started) : started[k] = n
      BY <2>2
    <3>2. PICK j \in 1 .. k - 1 : ordered[j] = d
      BY <2>1, <2>4, <3>1 DEF OrderInv, Placed
    <3>3. j \in 1 .. Len(started)
      BY <2>1, <3>2
    <3> QED
      BY <2>1, <2>2, <3>2, <3>3
  <2>5. phase = "started" => ToSet(started) = Services
    <3> SUFFICES ASSUME phase = "started" PROVE ToSet(started) = Services
      OBVIOUS
    <3>1. Len(started) = Len(ordered) /\ ToSet(ordered) = Services
      BY <2>1 DEF StartInv, OrderInv, Delivering
    <3>2. \A x : x \in ToSet(ordered) <=> \E k \in 1 .. Len(ordered) : ordered[k] = x
      BY <2>1, ToSetMembers DEF Types
    <3>3. \A x : x \in ToSet(started) <=> x \in ToSet(ordered)
      BY <2>1, <2>2, <3>1, <3>2
    <3> QED
      BY <3>1, <3>3
  <2> QED
    BY <2>3, <2>4, <2>5 DEF DependenciesFirst
<1> QED
  BY <1>1, OrderingInvariance, PTL

\* Neither walk comes back to a service it is still in, so `visit` nests no deeper than
\* the delivery has services: start_order has no check of its own.
THEOREM VisitsNeverNest == Spec => []VisitsApart
<1>1. OrderingInv => VisitsApart
  BY DEF OrderingInv
<1> QED
  BY <1>1, OrderingInvariance, PTL
=============================================================================
