------------------------ MODULE AutoHostlistProofs ------------------------
(***************************************************************************)
(* Proofs about AutoHostlist for any number of processes, profiles and     *)
(* connections, any host names and lists and any thresholds.               *)
(*                                                                         *)
(* A process goes by the time and size of the file it has read.  These     *)
(* grow with every change of the file, so that nobody ever goes by what a  *)
(* later file will have (SigInv); a process whose time and size are those  *)
(* of the file has read this very file.                                    *)
(***************************************************************************)
EXTENDS AutoHostlist, FiniteSetTheorems, TLAPS

-----------------------------------------------------------------------------
(* Names.                                                                  *)

LEMMA SameSequence ==
  ASSUME NEW x \in Seq(STRING), NEW y \in Seq(STRING), Len(x) = Len(y),
         \A i \in 1 .. Len(x) : x[i] = y[i]
  PROVE  x = y
OBVIOUS

LEMMA PartOf ==
  ASSUME NEW s \in Seq(STRING), NEW m \in Nat \ {0}, NEW n \in Nat, m <= n + 1, n <= Len(s)
  PROVE  /\ SubSeq(s, m, n) \in Seq(STRING) /\ Len(SubSeq(s, m, n)) = n - m + 1
         /\ \A i \in 1 .. n - m + 1 : SubSeq(s, m, n)[i] = s[i + m - 1]
OBVIOUS

LEMMA SuffixIs ==
  ASSUME NEW s \in Seq(STRING), NEW t \in Seq(STRING)
  PROVE  IsSuffix(s, t) <=>
           Len(s) <= Len(t) /\ \A i \in 1 .. Len(s) : s[i] = t[Len(t) - Len(s) + i]
<1> DEFINE a == Reverse(s)
           b == Reverse(t)
<1>1. /\ a \in Seq(STRING) /\ Len(a) = Len(s)
      /\ \A i \in 1 .. Len(s) : a[i] = s[Len(s) - i + 1]
  BY DEF Reverse
<1>2. /\ b \in Seq(STRING) /\ Len(b) = Len(t)
      /\ \A i \in 1 .. Len(t) : b[i] = t[Len(t) - i + 1]
  BY DEF Reverse
<1> HIDE DEF a, b
<1>3. CASE Len(s) <= Len(t)
  <2> DEFINE x == SubSeq(a, 1, Len(a))
             y == SubSeq(b, 1, Len(a))
  <2>1. x \in Seq(STRING) /\ Len(x) = Len(s) /\ \A i \in 1 .. Len(s) : x[i] = s[Len(s) - i + 1]
    <3>1. Len(a) \in Nat
      BY <1>1
    <3>2. \A i \in 1 .. Len(a) : x[i] = a[i]
      BY <1>1, <3>1, PartOf
    <3> QED BY <1>1, <3>1, <3>2, PartOf
  <2>2. y \in Seq(STRING) /\ Len(y) = Len(s) /\ \A i \in 1 .. Len(s) : y[i] = t[Len(t) - i + 1]
    <3>1. Len(a) \in Nat /\ Len(a) <= Len(b)
      BY <1>1, <1>2, <1>3
    <3>2. \A i \in 1 .. Len(a) : y[i] = b[i]
      BY <1>2, <3>1, PartOf
    <3>3. y \in Seq(STRING) /\ Len(y) = Len(s)
      BY <1>1, <1>2, <3>1, PartOf
    <3>4. Len(s) <= Len(t) /\ Len(s) \in Nat /\ Len(t) \in Nat
      BY <1>3
    <3> HIDE DEF y
    <3> QED BY <1>1, <1>2, <3>2, <3>3, <3>4
  <2> HIDE DEF x, y
  <2>3. ASSUME x = y, NEW i \in 1 .. Len(s) PROVE s[i] = t[Len(t) - Len(s) + i]
    <3> DEFINE j == Len(s) - i + 1
    <3>1. j \in 1 .. Len(s) /\ Len(s) - j + 1 = i /\ Len(t) - j + 1 = Len(t) - Len(s) + i
      OBVIOUS
    <3> HIDE DEF j
    <3> QED BY <2>1, <2>2, <2>3, <3>1
  <2>4. ASSUME \A i \in 1 .. Len(s) : s[i] = t[Len(t) - Len(s) + i] PROVE x = y
    <3>1. ASSUME NEW j \in 1 .. Len(s) PROVE x[j] = y[j]
      <4> DEFINE i == Len(s) - j + 1
      <4>1. i \in 1 .. Len(s) /\ Len(t) - Len(s) + i = Len(t) - j + 1
        OBVIOUS
      <4>2. s[i] = t[Len(t) - Len(s) + i]
        BY <2>4, <4>1
      <4> QED BY <2>1, <2>2, <4>1, <4>2
    <3> QED BY <2>1, <2>2, <3>1, SameSequence
  <2>5. IsSuffix(s, t) <=> x = y
    BY <1>1, <1>2, <1>3 DEF IsSuffix, IsPrefix, a, b, x, y
  <2> QED BY <1>3, <2>3, <2>4, <2>5
<1>4. CASE ~(Len(s) <= Len(t))
  BY <1>1, <1>2, <1>4 DEF IsSuffix, IsPrefix, a, b
<1> QED BY <1>3, <1>4

\* A name is in its own domain; the other domains are what follows a dot of it.
LEMMA SelfSuffix == \A s \in Seq(STRING) : IsSuffix(s, s)
BY SuffixIs

LEMMA WithinIsSuffix ==
  ASSUME NEW h \in Seq(STRING), NEW k \in 1 .. Len(h)
  PROVE  IsSuffix(SubSeq(h, k, Len(h)), h)
<1> DEFINE e == SubSeq(h, k, Len(h))
<1>1. /\ e \in Seq(STRING) /\ Len(e) = Len(h) - k + 1
      /\ \A i \in 1 .. Len(h) - k + 1 : e[i] = h[i + k - 1]
  BY PartOf
<1> HIDE DEF e
<1>2. ASSUME NEW i \in 1 .. Len(e) PROVE e[i] = h[Len(h) - Len(e) + i]
  <2>1. Len(h) \in Nat /\ Len(e) \in Nat /\ i \in 1 .. Len(h) - k + 1
    BY <1>1
  <2>2. Len(h) - Len(e) + i = i + k - 1
    BY <1>1, <2>1
  <2>3. e[i] = h[i + k - 1]
    BY <1>1, <2>1
  <2> QED BY <2>2, <2>3
<1>3. Len(e) <= Len(h)
  BY <1>1
<1>4. e \in Seq(STRING)
  BY <1>1
<1>5. IsSuffix(e, h)
  BY <1>2, <1>3, <1>4, SuffixIs, Zenon
<1> QED BY <1>5 DEF e

LEMMA SuffixWithin ==
  ASSUME NEW h \in Seq(STRING), NEW e \in Seq(STRING), e # <<>>, IsSuffix(e, h)
  PROVE  \E k \in 1 .. Len(h) : e = SubSeq(h, k, Len(h))
<1> DEFINE k == Len(h) - Len(e) + 1
           f == SubSeq(h, k, Len(h))
<1>1. Len(e) \in Nat \ {0} /\ Len(h) \in Nat
  OBVIOUS
<1>2. Len(e) <= Len(h) /\ \A i \in 1 .. Len(e) : e[i] = h[Len(h) - Len(e) + i]
  BY SuffixIs
<1>3. k \in 1 .. Len(h)
  BY <1>1, <1>2
<1>4. /\ f \in Seq(STRING) /\ Len(f) = Len(e)
      /\ \A i \in 1 .. Len(e) : f[i] = h[Len(h) - Len(e) + i]
  <2>1. f \in Seq(STRING) /\ Len(f) = Len(h) - k + 1 /\ \A i \in 1 .. Len(h) - k + 1 : f[i] = h[i + k - 1]
    BY <1>1, <1>3, PartOf
  <2> HIDE DEF f
  <2>2. Len(h) - k + 1 = Len(e)
    BY <1>1
  <2>3. \A i \in 1 .. Len(e) : i + k - 1 = Len(h) - Len(e) + i
    BY <1>1
  <2> QED BY <2>1, <2>2, <2>3
<1> HIDE DEF f
<1>5. e = f
  BY <1>2, <1>4, SameSequence
<1> QED BY <1>3, <1>5 DEF f

\* Every host is a sequence of labels, and the marker is no domain of it.
LEMMA HostFacts ==
  /\ \A h \in Host : h \in Seq(STRING) /\ h # NoHost /\ IsSuffix(h, h) /\ ~IsSuffix(Marker, h)
  /\ Marker \notin Host
<1>1. \A h \in Host : h \in Seq(STRING) /\ h # NoHost /\ IsSuffix(h, h) /\ ~IsSuffix(Marker, h)
  BY ListAssumption, HostAssumption, SelfSuffix
<1> QED BY <1>1

\* OnlyListed for one host with the list in memory
Listed(list, h) ==
  LET within == {SubSeq(h, k, Len(h)) : k \in 1 .. Len(h)}
  IN within \cap (UserList \cup (list \ {Marker})) # {} /\ within \cap Exclude = {}

\* What a match and a miss mean when some list has a line.
LEMMA VerdictFacts ==
  ASSUME NEW list \in SUBSET (Host \cup {Marker}), list # {}, NEW h \in Host
  PROVE  /\ Verdict(UserList \cup list, h) = "miss" => h \notin list
         /\ Verdict(UserList \cup list, h) = "match" => Listed(list, h)
<1> DEFINE within == {SubSeq(h, k, Len(h)) : k \in 1 .. Len(h)}
<1>1. h \in Seq(STRING) /\ IsSuffix(h, h) /\ ~IsSuffix(Marker, h)
  BY HostFacts
<1>2. Verdict(UserList \cup list, h) = "miss" => h \notin list
  BY <1>1 DEF Verdict, Search
<1>3. ASSUME Verdict(UserList \cup list, h) = "match"
      PROVE  within \cap (UserList \cup (list \ {Marker})) # {} /\ within \cap Exclude = {}
  <2>1. ~Search(Exclude, h) /\ Search(UserList \cup list, h)
    BY <1>3 DEF Verdict
  <2>2. PICK e \in UserList \cup list : IsSuffix(e, h)
    BY <2>1 DEF Search
  <2>3. e # Marker
    BY <1>1, <2>2
  <2>4. e \in Seq(STRING) /\ e # <<>>
    BY <2>2, <2>3, ListAssumption DEF NoHost
  <2>5. e \in within
    BY <1>1, <2>2, <2>4, SuffixWithin
  <2>6. ASSUME NEW x \in within \cap Exclude PROVE FALSE
    <3>1. IsSuffix(x, h)
      BY <1>1, WithinIsSuffix
    <3> QED BY <2>1, <3>1 DEF Search
  <2> QED BY <2>2, <2>3, <2>5, <2>6
<1> QED BY <1>2, <1>3 DEF Listed

-----------------------------------------------------------------------------
(* Types.  A step of a process changes what is its own, and the file.      *)

Memory == SUBSET (Host \cup {Marker})
Conns == [Profile -> [Slot -> Watched]]
Counters == [Profile -> [Host -> Counter]]

\* A handler that will add a host, or look one up, has one; so has a connection that is watched.
Named(j) ==
  j.step \in {"append", "sign"} \/ (j.step = "read" /\ j.why \in {"check", "recheck"})
    => j.host \in Host
WatchesHosts(c) == \A d \in Profile, s \in Slot : c[d][s].ah => c[d][s].host \in Host

ListsTyped(p) ==
  /\ mem[p] \in Memory /\ sig[p] \in Sig
  /\ job[p] \in Job /\ Named(job[p])
  /\ conn[p] \in Conns /\ WatchesHosts(conn[p])
CountsTyped(p) ==
  fails[p] \in Counters /\ purged[p] \in Nat \cup {-1} /\ purger[p] \in Profile

ListsShaped ==
  /\ mem = [p \in Proc |-> mem[p]] /\ sig = [p \in Proc |-> sig[p]]
  /\ job = [p \in Proc |-> job[p]] /\ conn = [p \in Proc |-> conn[p]]
CountsShaped ==
  /\ fails = [p \in Proc |-> fails[p]] /\ purged = [p \in Proc |-> purged[p]]
  /\ purger = [p \in Proc |-> purger[p]]

TypeInv == TypeOK /\ \A p \in Proc : Named(job[p]) /\ WatchesHosts(conn[p])

\* The lists, and the counters, of the other processes stay.
ListsOf(p) ==
  \A q \in Proc \ {p} :
    mem'[q] = mem[q] /\ sig'[q] = sig[q] /\ job'[q] = job[q] /\ conn'[q] = conn[q]
CountsOf(p) ==
  \A q \in Proc \ {p} : fails'[q] = fails[q] /\ purged'[q] = purged[q] /\ purger'[q] = purger[q]

ListsStep(p) == ListsShaped' /\ ListsTyped(p)' /\ ListsOf(p)
CountsStep(p) == CountsShaped' /\ CountsTyped(p)' /\ CountsOf(p)

\* The file and what is kept beside the lists.
RestTyped ==
  /\ has \in [Proc -> SUBSET Profile]
  /\ now \in 0 .. MaxTime /\ file \in FileState /\ edits \in 0 .. MaxEdits /\ apart \in SUBSET Proc

\* A process has only profiles that there are.
Acts(p) ==
  \/ ReadList(p) \/ ReadFails(p) \/ AppendHost(p) \/ SignList(p)
  \/ Reload(p) \/ Die(p) \/ Start(p)
  \/ \E d \in Profile, s \in Slot :
       \/ \E h \in Host : Request(p, d, s, h)
       \/ RstIn(p, d, s) \/ HupOut(p, d, s) \/ RedirectIn(p, d, s) \/ ReplyIn(p, d, s)
       \/ Close(p, d, s)

LEMMA ProcessActs ==
  ASSUME TypeInv, NEW p \in Proc, Process(p)
  PROVE  Acts(p)
<1>1. has[p] \subseteq Profile
  BY DEF TypeInv, TypeOK
<1> QED BY <1>1 DEF Process, Acts

LEMMA Parts ==
  ASSUME TypeInv
  PROVE  /\ ListsShaped /\ CountsShaped
         /\ \A p \in Proc : ListsTyped(p) /\ CountsTyped(p)
BY DEF TypeInv, TypeOK, ListsShaped, CountsShaped, ListsTyped, CountsTyped, Memory, Conns, Counters

LEMMA Together ==
  ASSUME ListsShaped, CountsShaped, \A p \in Proc : ListsTyped(p) /\ CountsTyped(p),
         RestTyped
  PROVE  TypeInv
BY DEF TypeInv, TypeOK, RestTyped, ListsShaped, CountsShaped, ListsTyped, CountsTyped, Memory, Conns, Counters

LEMMA TogetherNext ==
  ASSUME ListsShaped', CountsShaped', \A p \in Proc : ListsTyped(p)' /\ CountsTyped(p)',
         RestTyped'
  PROVE  TypeInv'
BY DEF TypeInv, TypeOK, RestTyped, ListsShaped, CountsShaped, ListsTyped, CountsTyped, Memory, Conns, Counters

LEMMA IdleType ==
  /\ Idle \in Job /\ Idle.step = "idle" /\ Named(Idle)
  /\ \A step \in Step : [Idle EXCEPT !.step = step] \in Job /\ [Idle EXCEPT !.step = step].step = step
<1>1. SomeProfile \in Profile /\ SomeSlot \in Slot
  BY ProfileAssumption DEF SomeProfile, SomeSlot
<1>2. NoSig \in Sig
  BY DEF NoSig, Sig
<1> QED BY <1>1, <1>2 DEF Idle, Job, Step, Why, Named

LEMMA NoConnectionType == NoConnection \in Watched /\ ~NoConnection.ah /\ ~NoConnection.matches
BY DEF NoConnection, Watched

LEMMA WatchType ==
  ASSUME NEW list, NEW h \in Host
  PROVE  LET c == Watch(list, h) IN
         /\ c \in Watched /\ c.host = h /\ (c.matches <=> Verdict(list, h) = "match")
         /\ ~c.cutoff /\ ~c.hup
<1> DEFINE m == Verdict(list, h) = "match"
           a == Verdict(list, h) = "miss"
<1>1. m \in BOOLEAN /\ a \in BOOLEAN
  OBVIOUS
<1>2. Watch(list, h) = [NoConnection EXCEPT !.host = h, !.matches = m, !.ah = a]
  BY DEF Watch
<1> HIDE DEF m, a
<1>3. LET c == [NoConnection EXCEPT !.host = h, !.matches = m, !.ah = a] IN
      c \in Watched /\ c.host = h /\ c.matches = m /\ ~c.cutoff /\ ~c.hup
  BY <1>1 DEF NoConnection, Watched
<1> QED BY <1>2, <1>3 DEF m

\* What a handler does once its list is in memory: m is the list it leaves, k the next step.
GoesOn(p, j, list, cs, m, k) ==
  /\ mem' = [mem EXCEPT ![p] = m] /\ job' = [job EXCEPT ![p] = k] /\ Named(k)
  /\ \/ k = Idle /\ m = list
     \/ /\ k = [j EXCEPT !.step = "append"] /\ m = list \cup {j.host}
        /\ j.why = "recheck" /\ j.host \in Host \ list
  /\ \/ conn' = cs
     \/ /\ j.why = "check" /\ j.host \in Host
        /\ conn' = [cs EXCEPT ![p][j.d][j.s] = Watch(UserList \cup list, j.host)]

LEMMA LoadedEffect ==
  ASSUME NEW p \in Proc, NEW j \in Job, NEW list \in Memory, list # {},
         j.why \in {"check", "recheck"} => j.host \in Host,
         NEW cs \in [Proc -> Conns],
         Loaded_(p, j, list, cs)
  PROVE  \E m \in Memory, k \in Job : GoesOn(p, j, list, cs, m, k)
<1>1. CASE j.why = "check"
  BY <1>1, IdleType DEF Loaded_, Checked, GoesOn
<1>2. CASE j.why = "recheck"
  <2>1. Rechecked(p, j, list, cs) /\ j.host \in Host
    BY <1>2 DEF Loaded_
  <2>2. CASE Verdict(UserList \cup list, j.host) = "miss"
    <3> DEFINE m == list \cup {j.host}
               k == [j EXCEPT !.step = "append"]
    <3>1. mem' = [mem EXCEPT ![p] = m] /\ job' = [job EXCEPT ![p] = k] /\ conn' = cs
      BY <2>1, <2>2 DEF Rechecked
    <3>2. m \in Memory /\ j.host \notin list
      BY <2>1, <2>2, VerdictFacts DEF Memory
    <3>3. k \in Job /\ Named(k)
      BY <2>1 DEF Job, Step, Named
    <3> QED BY <1>2, <2>1, <3>1, <3>2, <3>3 DEF GoesOn
  <2>3. CASE Verdict(UserList \cup list, j.host) # "miss"
    BY <2>1, <2>3, IdleType DEF Rechecked, GoesOn
  <2> QED BY <2>2, <2>3
<1>3. CASE j.why \notin {"check", "recheck"}
  BY <1>3, IdleType DEF Loaded_, GoesOn
<1> QED BY <1>1, <1>2, <1>3

LEMMA LoadedStep ==
  ASSUME TypeInv, NEW p \in Proc, NEW j \in Job, NEW list \in Memory, list # {},
         j.why \in {"check", "recheck"} => j.host \in Host,
         NEW cs \in [Proc -> Conns], WatchesHosts(cs[p]), \A q \in Proc \ {p} : cs[q] = conn[q],
         Loaded_(p, j, list, cs),
         NEW g \in Sig, sig' = [sig EXCEPT ![p] = g]
  PROVE  ListsStep(p)
<1>1. PICK m \in Memory, k \in Job : GoesOn(p, j, list, cs, m, k)
  BY LoadedEffect
<1>2. /\ mem = [q \in Proc |-> mem[q]] /\ sig = [q \in Proc |-> sig[q]]
      /\ job = [q \in Proc |-> job[q]]
  BY Parts DEF ListsShaped
<1>3. /\ mem' = [q \in Proc |-> mem'[q]] /\ mem'[p] = m
      /\ job' = [q \in Proc |-> job'[q]] /\ job'[p] = k
      /\ sig' = [q \in Proc |-> sig'[q]] /\ sig'[p] = g
      /\ \A q \in Proc \ {p} : mem'[q] = mem[q] /\ sig'[q] = sig[q] /\ job'[q] = job[q]
  BY <1>1, <1>2 DEF GoesOn
<1>4. j.d \in Profile /\ j.s \in Slot
  BY DEF Job
<1>5. /\ conn' = [q \in Proc |-> conn'[q]] /\ conn'[p] \in Conns /\ WatchesHosts(conn'[p])
      /\ \A q \in Proc \ {p} : conn'[q] = conn[q]
  <2>1. CASE conn' = cs
    BY <2>1
  <2>2. CASE /\ j.host \in Host
             /\ conn' = [cs EXCEPT ![p][j.d][j.s] = Watch(UserList \cup list, j.host)]
    <3> DEFINE w == Watch(UserList \cup list, j.host)
    <3>1. w \in Watched /\ w.host \in Host
      BY <2>2, WatchType
    <3> HIDE DEF w
    <3>2. conn' = [cs EXCEPT ![p] = [cs[p] EXCEPT ![j.d] = [cs[p][j.d] EXCEPT ![j.s] = w]]]
      BY <2>2 DEF w
    <3>3. conn'[p] \in Conns /\ WatchesHosts(conn'[p])
      BY <1>4, <3>1, <3>2 DEF Conns, WatchesHosts
    <3> QED BY <3>2, <3>3
  <2> QED BY <1>1, <2>1, <2>2 DEF GoesOn
<1> QED BY <1>1, <1>3, <1>5 DEF ListsStep, ListsShaped, ListsTyped, ListsOf, GoesOn

LEMMA ListTypes ==
  ASSUME TypeInv
  PROVE  /\ SigOf(file) \in Sig /\ NoSig \in Sig
         /\ Loaded(file) \in Memory /\ Loaded(file) # {}
         /\ \A p \in Proc : NonEmpty(mem[p]) \in Memory /\ NonEmpty(mem[p]) # {}
<1>1. file \in FileState /\ \A p \in Proc : mem[p] \in Memory
  BY Parts DEF TypeInv, TypeOK, ListsTyped
<1>2. SigOf(file) \in Sig /\ NoSig \in Sig
  BY <1>1 DEF SigOf, NoSig, Sig, FileState
<1>3. Loaded(file) \in Memory /\ Loaded(file) # {}
  BY DEF Loaded, Hosts, Memory
<1>4. \A p \in Proc : NonEmpty(mem[p]) \in Memory /\ NonEmpty(mem[p]) # {}
  BY <1>1 DEF NonEmpty, Memory
<1> QED BY <1>2, <1>3, <1>4

\* What a handler does to the connections before it comes to the lists.
Leaves(p, cs) ==
  /\ cs \in [Proc -> Conns] /\ WatchesHosts(cs[p])
  /\ \A q \in Proc \ {p} : cs[q] = conn[q]

LEMMA LoadStep ==
  ASSUME TypeInv, NEW p \in Proc, NEW j \in Job, j.why \in {"check", "recheck"} => j.host \in Host,
         NEW cs, Leaves(p, cs), Load(p, j, cs)
  PROVE  ListsStep(p)
<1>1. CASE UpToDate(p)
  <2>1. PICK list \in Memory : list = NonEmpty(mem[p]) /\ list # {}
    BY ListTypes
  <2>2. PICK g \in Sig : g = sig[p]
    BY Parts DEF ListsTyped
  <2>3. Loaded_(p, j, list, cs)
    BY <1>1, <2>1 DEF Load
  <2>4. sig' = [sig EXCEPT ![p] = g]
    BY <1>1, <2>2, Parts DEF Load, ListsShaped
  <2>5. cs \in [Proc -> Conns] /\ WatchesHosts(cs[p]) /\ \A q \in Proc \ {p} : cs[q] = conn[q]
    BY DEF Leaves
  <2> QED BY <2>1, <2>2, <2>3, <2>4, <2>5, LoadedStep
<1>2. CASE ~UpToDate(p)
  <2> DEFINE k == [j EXCEPT !.step = "read", !.seen = SigOf(file)]
  <2>1. job' = [job EXCEPT ![p] = k] /\ conn' = cs /\ UNCHANGED <<mem, sig>>
    BY <1>2 DEF Load
  <2>2. SigOf(file) \in Sig
    BY ListTypes
  <2>3. k \in Job /\ Named(k)
    BY <2>2 DEF Job, Step, Named
  <2> HIDE DEF k
  <2>4. ListsShaped /\ ListsTyped(p)
    BY Parts
  <2>5. job' = [q \in Proc |-> job'[q]] /\ job'[p] = k /\ \A q \in Proc \ {p} : job'[q] = job[q]
    BY <2>1, <2>4 DEF ListsShaped
  <2>6. conn' = [q \in Proc |-> conn'[q]] /\ conn'[p] \in Conns /\ WatchesHosts(conn'[p])
        /\ \A q \in Proc \ {p} : conn'[q] = conn[q]
    BY <2>1 DEF Leaves
  <2> QED BY <2>1, <2>3, <2>4, <2>5, <2>6 DEF ListsStep, ListsShaped, ListsTyped, ListsOf
<1> QED BY <1>1, <1>2

\* A step that leaves the lists or the counters alone.
LEMMA SameLists ==
  ASSUME TypeInv, NEW p \in Proc, UNCHANGED <<mem, sig, job, conn>>
  PROVE  ListsStep(p)
BY Parts DEF ListsStep, ListsShaped, ListsTyped, ListsOf

LEMMA SameCounts ==
  ASSUME TypeInv, NEW p \in Proc, UNCHANGED <<fails, purged, purger>>
  PROVE  CountsStep(p)
BY Parts DEF CountsStep, CountsShaped, CountsTyped, CountsOf

\* The handler is in another step; the connections are as it leaves them.
LEMMA JobStep ==
  ASSUME TypeInv, NEW p \in Proc, NEW m \in Memory, NEW g \in Sig, NEW k \in Job, Named(k), NEW cs, Leaves(p, cs),
         mem' = [mem EXCEPT ![p] = m], sig' = [sig EXCEPT ![p] = g], job' = [job EXCEPT ![p] = k], conn' = cs
  PROVE  ListsStep(p)
<1>1. ListsShaped
  BY Parts
<1>2. /\ mem' = [q \in Proc |-> mem'[q]] /\ mem'[p] = m /\ job' = [q \in Proc |-> job'[q]] /\ job'[p] = k
      /\ sig' = [q \in Proc |-> sig'[q]] /\ sig'[p] = g
      /\ \A q \in Proc \ {p} : mem'[q] = mem[q] /\ sig'[q] = sig[q] /\ job'[q] = job[q]
  BY <1>1 DEF ListsShaped
<1>3. conn' = [q \in Proc |-> conn'[q]] /\ conn'[p] \in Conns /\ WatchesHosts(conn'[p])
      /\ \A q \in Proc \ {p} : conn'[q] = conn[q]
  BY DEF Leaves
<1> QED BY <1>2, <1>3 DEF ListsStep, ListsShaped, ListsTyped, ListsOf

LEMMA ConnsStay == ASSUME TypeInv, NEW p \in Proc PROVE Leaves(p, conn)
BY Parts DEF Leaves, ListsShaped, ListsTyped

LEMMA ConnLeaves ==
  ASSUME TypeInv, NEW p \in Proc, NEW d \in Profile, NEW s \in Slot, NEW c \in Watched,
         c.ah => c.host \in Host
  PROVE  Leaves(p, [conn EXCEPT ![p][d][s] = c])
<1> DEFINE cs == [conn EXCEPT ![p][d][s] = c]
<1>1. conn \in [Proc -> Conns] /\ WatchesHosts(conn[p])
  BY ConnsStay DEF Leaves
<1>2. cs \in [Proc -> Conns] /\ \A q \in Proc \ {p} : cs[q] = conn[q]
  BY <1>1 DEF Conns
<1>3. WatchesHosts(cs[p])
  BY <1>1 DEF Conns, WatchesHosts
<1> QED BY <1>2, <1>3 DEF Leaves

-----------------------------------------------------------------------------
(* The counters.                                                           *)

LEMMA CounterTypes == NoCounter \in Counter
BY LimitAssumption DEF NoCounter, Counter

LEMMA TimeTypes ==
  ASSUME TypeInv
  PROVE  now \in Nat /\ now + FailTime \in Nat /\ now + FailTime > now
BY LimitAssumption, BoundAssumption DEF TypeInv, TypeOK

LEMMA CountedType ==
  ASSUME TypeInv, NEW k \in Counter
  PROVE  /\ Counted(k).n = k.n + 1 /\ Counted(k).expire \in Nat
         /\ k.n + 1 < Threshold => Counted(k) \in Counter
         /\ Counted(k).expire = IF k.n = 0 THEN now + FailTime ELSE k.expire
<1>1. now + FailTime \in Nat /\ k.n \in 0 .. Threshold - 1 /\ k.expire \in Nat /\ Threshold \in Nat
  BY TimeTypes, LimitAssumption DEF Counter
<1> QED BY <1>1 DEF Counted, Counter

LEMMA PurgedType ==
  ASSUME TypeInv, NEW p \in Proc, NEW d \in Profile
  PROVE  /\ Purged(p, d) \in Counters
         /\ \A e \in Profile \ {d} : Purged(p, d)[e] = fails[p][e]
         /\ purged[p] = now => Purged(p, d) = fails[p]
         /\ purged[p] # now =>
              \A h \in Host : LET k == Purged(p, d)[d][h]
                              IN \/ k = NoCounter
                                 \/ k = fails[p][d][h] /\ ~(k.n > 0 /\ now >= k.expire)
<1>1. fails[p] \in Counters
  BY Parts DEF CountsTyped
<1>2. CASE purged[p] = now
  BY <1>1, <1>2 DEF Purged
<1>3. CASE purged[p] # now
  <2> DEFINE x == [h \in Host |-> IF fails[p][d][h].n > 0 /\ now >= fails[p][d][h].expire THEN NoCounter
                                  ELSE fails[p][d][h]]
  <2>1. Purged(p, d) = [fails[p] EXCEPT ![d] = x]
    BY <1>3 DEF Purged
  <2>2. x \in [Host -> Counter]
    BY <1>1, CounterTypes DEF Counters
  <2>3. \A h \in Host : \/ x[h] = NoCounter
                        \/ x[h] = fails[p][d][h] /\ ~(x[h].n > 0 /\ now >= x[h].expire)
    OBVIOUS
  <2> HIDE DEF x
  <2>4. /\ Purged(p, d) \in Counters /\ Purged(p, d)[d] = x
        /\ \A e \in Profile \ {d} : Purged(p, d)[e] = fails[p][e]
    BY <1>1, <2>1, <2>2 DEF Counters
  <2> QED BY <1>3, <2>3, <2>4
<1> QED BY <1>2, <1>3

\* One counter of a process is set, after a purge.
LEMMA CountStep ==
  ASSUME TypeInv, NEW p \in Proc, NEW u \in Nat \cup {-1}, NEW r \in Profile, NEW f \in Counters,
         fails' = [fails EXCEPT ![p] = f], purged' = [purged EXCEPT ![p] = u],
         purger' = [purger EXCEPT ![p] = r]
  PROVE  CountsStep(p)
<1>1. CountsShaped
  BY Parts
<1>2. /\ fails' = [q \in Proc |-> fails'[q]] /\ fails'[p] = f
      /\ purged' = [q \in Proc |-> purged'[q]] /\ purged'[p] = u
      /\ purger' = [q \in Proc |-> purger'[q]] /\ purger'[p] = r
      /\ \A q \in Proc \ {p} :
            fails'[q] = fails[q] /\ purged'[q] = purged[q] /\ purger'[q] = purger[q]
  BY <1>1 DEF CountsShaped
<1> QED BY <1>2 DEF CountsStep, CountsShaped, CountsTyped, CountsOf

\* The profile that the only purge of a second is for.
Purger(p, d) == IF purged[p] = now THEN purger[p] ELSE d

LEMMA PurgerType ==
  ASSUME TypeInv, NEW p \in Proc, NEW d \in Profile, PurgedBy(p, d)
  PROVE  /\ Purger(p, d) \in Profile /\ now \in Nat
         /\ purged' = [purged EXCEPT ![p] = now] /\ purger' = [purger EXCEPT ![p] = Purger(p, d)]
         /\ purged'[p] = now /\ purger'[p] = Purger(p, d)
<1>1. Purger(p, d) \in Profile
  BY Parts DEF Purger, CountsTyped
<1>2. purged' = [purged EXCEPT ![p] = now] /\ purger' = [purger EXCEPT ![p] = Purger(p, d)]
  BY DEF PurgedBy, Purger
<1> QED BY <1>1, <1>2, Parts, TimeTypes DEF CountsShaped

\* What a failure does: to the counters, and to the lists when it is the last one.
Fails(p, d, cs, f, h, k) ==
  /\ f = Purged(p, d) /\ k = Counted(f[d][h])
  /\ \/ /\ k \in Counter /\ fails' = [fails EXCEPT ![p] = [f EXCEPT ![d][h] = k]]
        /\ conn' = cs /\ UNCHANGED <<mem, sig, job>>
     \/ \E j \in Job :
          /\ fails' = [fails EXCEPT ![p] = [f EXCEPT ![d][h] = NoCounter]]
          /\ j.why = "recheck" /\ j.step = "idle" /\ j.host = h
          /\ j.expire = k.expire /\ j.at = now /\ j.d = d
          /\ Load(p, j, cs)

LEMMA FailedEffect ==
  ASSUME TypeInv, NEW p \in Proc, NEW d \in Profile, NEW s \in Slot, conn[p][d][s].ah,
         NEW cs, Leaves(p, cs), Failed(p, d, s, cs)
  PROVE  \E f \in Counters, h \in Host, k \in [n : Nat, expire : Nat] : Fails(p, d, cs, f, h, k)
<1>1. PICK h \in Host : h = conn[p][d][s].host
  BY Parts DEF ListsTyped, WatchesHosts
<1>2. PICK f \in Counters : f = Purged(p, d)
  BY PurgedType
<1>3. f[d][h] \in Counter
  BY DEF Counters
<1>4. PICK k \in [n : Nat, expire : Nat] : k = Counted(f[d][h])
  <2> DEFINE x == f[d][h]
             e == IF x.n = 0 THEN now + FailTime ELSE x.expire
  <2>1. x.n \in Nat /\ x.expire \in Nat
    BY <1>3, LimitAssumption DEF Counter
  <2>2. x.n + 1 \in Nat /\ e \in Nat
    BY <2>1, TimeTypes
  <2>3. Counted(x) = [n |-> x.n + 1, expire |-> e]
    BY DEF Counted
  <2> HIDE DEF e
  <2> QED BY <2>2, <2>3
<1>5. k.expire \in Nat /\ (k.n < Threshold => k \in Counter)
  <2>1. k.n = f[d][h].n + 1
    BY <1>3, <1>4, CountedType
  <2> QED BY <1>3, <1>4, <2>1, CountedType
<1> DEFINE j == [Idle EXCEPT !.why = "recheck", !.d = d, !.s = s, !.host = h,
                             !.expire = k.expire, !.at = now]
<1>6. /\ j \in Job /\ j.why = "recheck" /\ j.step = "idle" /\ j.host = h
      /\ j.expire = k.expire /\ j.at = now /\ j.d = d
  BY <1>5, IdleType, TimeTypes DEF Job, Why
<1>7. /\ k.n < Threshold =>
           /\ fails' = [fails EXCEPT ![p] = [f EXCEPT ![d][h] = k]]
           /\ conn' = cs /\ UNCHANGED <<mem, sig, job>>
      /\ ~(k.n < Threshold) =>
           /\ fails' = [fails EXCEPT ![p] = [f EXCEPT ![d][h] = NoCounter]]
           /\ Load(p, j, cs)
  <2> DEFINE hh == conn[p][d][s].host
             ff == Purged(p, d)
             kk == Counted(ff[d][hh])
             jj == [Idle EXCEPT !.why = "recheck", !.d = d, !.s = s, !.host = hh,
                                !.expire = kk.expire, !.at = now]
  <2>1. /\ kk.n < Threshold =>
             /\ fails' = [fails EXCEPT ![p] = [ff EXCEPT ![d][hh] = kk]]
             /\ conn' = cs /\ UNCHANGED <<mem, sig, job>>
        /\ ~(kk.n < Threshold) =>
             /\ fails' = [fails EXCEPT ![p] = [ff EXCEPT ![d][hh] = NoCounter]]
             /\ Load(p, jj, cs)
    BY ZenonT(30) DEF Failed
  <2>2. hh = h /\ ff = f /\ kk = k /\ jj = j
    BY <1>1, <1>2, <1>4
  <2> HIDE DEF hh, ff, kk, jj, j
  <2> QED BY <2>1, <2>2
<1> HIDE DEF j
<1>8. CASE k.n < Threshold
  BY <1>2, <1>4, <1>5, <1>7, <1>8 DEF Fails
<1>9. CASE ~(k.n < Threshold)
  <2>1. fails' = [fails EXCEPT ![p] = [f EXCEPT ![d][h] = NoCounter]] /\ Load(p, j, cs)
    BY <1>7, <1>9
  <2> QED BY <1>2, <1>4, <1>6, <2>1 DEF Fails
<1> QED BY <1>8, <1>9

LEMMA EventStep ==
  ASSUME TypeInv, NEW p \in Proc, NEW d \in Profile, NEW s \in Slot, conn[p][d][s].ah,
         NEW c \in Watched, c.ah => c.host \in Host, Event(p, d, s, c)
  PROVE  ListsStep(p) /\ CountsStep(p)
<1>1. PICK cs : cs = [conn EXCEPT ![p][d][s] = c]
  OBVIOUS
<1>2. Leaves(p, cs)
  BY <1>1, ConnLeaves
<1>3. PICK u \in Nat \cup {-1}, r \in Profile : u = now /\ r = Purger(p, d)
  BY PurgerType DEF Event
<1>4. purged' = [purged EXCEPT ![p] = u] /\ purger' = [purger EXCEPT ![p] = r]
  BY <1>3, PurgerType DEF Event
<1>5. CASE conn[p][d][s].cutoff
  <2>1. OnlyPurge(p, d, cs)
    BY <1>1, <1>5 DEF Event
  <2>2. PICK f \in Counters : f = Purged(p, d)
    BY PurgedType
  <2>3. CountsStep(p)
    BY <1>4, <2>1, <2>2, CountStep DEF OnlyPurge
  <2>4. conn' = cs /\ UNCHANGED <<mem, sig, job>>
    BY <2>1 DEF OnlyPurge
  <2>5. ListsStep(p)
    BY <1>2, <2>4, Parts DEF ListsStep, ListsShaped, ListsTyped, ListsOf, Leaves
  <2> QED BY <2>3, <2>5
<1>6. CASE ~conn[p][d][s].cutoff
  <2>1. Failed(p, d, s, cs)
    BY <1>1, <1>6 DEF Event
  <2>2. PICK f \in Counters, h \in Host, k \in [n : Nat, expire : Nat] : Fails(p, d, cs, f, h, k)
    BY <1>2, <2>1, FailedEffect
  <2>3. CASE /\ k \in Counter /\ fails' = [fails EXCEPT ![p] = [f EXCEPT ![d][h] = k]]
             /\ conn' = cs /\ UNCHANGED <<mem, sig, job>>
    <3>1. PICK g \in Counters : g = [f EXCEPT ![d][h] = k]
      BY <2>3 DEF Counters
    <3>2. CountsStep(p)
      BY <1>4, <2>3, <3>1, CountStep
    <3>3. ListsStep(p)
      BY <1>2, <2>3, Parts DEF ListsStep, ListsShaped, ListsTyped, ListsOf, Leaves
    <3> QED BY <3>2, <3>3
  <2>4. ASSUME NEW j \in Job, fails' = [fails EXCEPT ![p] = [f EXCEPT ![d][h] = NoCounter]],
               j.host = h, Load(p, j, cs)
        PROVE  ListsStep(p) /\ CountsStep(p)
    <3>1. PICK g \in Counters : g = [f EXCEPT ![d][h] = NoCounter]
      BY CounterTypes DEF Counters
    <3>2. CountsStep(p)
      BY <1>4, <2>4, <3>1, CountStep
    <3>3. ListsStep(p)
      BY <1>2, <2>4, LoadStep
    <3> QED BY <3>2, <3>3
  <2> QED BY <2>2, <2>3, <2>4 DEF Fails
<1> QED BY <1>5, <1>6

-----------------------------------------------------------------------------
(* Type correctness.                                                       *)

LEMMA WrittenType ==
  ASSUME TypeInv
  PROVE  /\ \A keep \in SUBSET Host, there \in BOOLEAN :
              /\ Written(there, keep) \in FileState
              /\ Written(there, keep).there = there /\ Written(there, keep).time = now
<1> SUFFICES ASSUME NEW keep \in SUBSET Host, NEW there \in BOOLEAN
             PROVE  /\ Written(there, keep) \in FileState
                    /\ Written(there, keep).there = there /\ Written(there, keep).time = now
  OBVIOUS
<1>1. Cardinality(keep) \in Nat
  BY HostAssumption, FS_Subset, FS_CardinalityType
<1>2. now \in Nat
  BY TimeTypes
<1> QED BY <1>1, <1>2 DEF Written, FileState

LEMMA ReadListStep ==
  ASSUME TypeInv, NEW p \in Proc, ReadList(p)
  PROVE  ListsStep(p)
<1>1. PICK j \in Job : j = job[p] /\ Named(j)
  BY Parts DEF ListsTyped
<1>2. PICK list \in Memory : list = Loaded(file) /\ list # {}
  BY ListTypes
<1>3. PICK g \in Sig : g = j.seen
  BY DEF Job
<1>4. PICK cs : cs = conn
  OBVIOUS
<1>5. Leaves(p, cs)
  BY <1>4, ConnsStay
<1>6. Loaded_(p, j, list, cs) /\ sig' = [sig EXCEPT ![p] = g]
  BY <1>1, <1>2, <1>3, <1>4 DEF ReadList
<1>7. j.why \in {"check", "recheck"} => j.host \in Host
  BY <1>1 DEF ReadList, Named
<1>8. cs \in [Proc -> Conns] /\ WatchesHosts(cs[p]) /\ \A q \in Proc \ {p} : cs[q] = conn[q]
  BY <1>5 DEF Leaves
<1> QED BY <1>2, <1>6, <1>7, <1>8, LoadedStep

LEMMA ReadFailsStep ==
  ASSUME TypeInv, NEW p \in Proc, ReadFails(p)
  PROVE  ListsStep(p)
<1>1. PICK j \in Job : j = job[p] /\ Named(j)
  BY Parts DEF ListsTyped
<1>2. PICK g \in Sig : g = sig[p] /\ sig' = [sig EXCEPT ![p] = g]
  <2>1. UNCHANGED sig
    BY DEF ReadFails
  <2> QED BY <2>1, Parts DEF ListsTyped, ListsShaped
<1>3. j.step = "read" /\ j.d \in Profile /\ j.s \in Slot
  BY <1>1 DEF ReadFails, Job
<1>4. CASE j.why = "check"
  <2>1. PICK ah \in BOOLEAN :
          conn' = [conn EXCEPT ![p][j.d][j.s] = [NoConnection EXCEPT !.host = j.host, !.ah = ah]]
    BY <1>1, <1>4 DEF ReadFails
  <2>2. mem' = [mem EXCEPT ![p] = {}] /\ job' = [job EXCEPT ![p] = Idle]
    BY <1>1, <1>4 DEF ReadFails
  <2>3. j.host \in Host
    BY <1>1, <1>3, <1>4 DEF Named
  <2>4. PICK c \in Watched : c = [NoConnection EXCEPT !.host = j.host, !.ah = ah] /\ c.host \in Host
    <3> DEFINE z == [NoConnection EXCEPT !.host = j.host, !.ah = ah]
    <3>1. z \in Watched
      BY <2>3 DEF NoConnection, Watched
    <3>2. z.host = j.host
      BY DEF NoConnection
    <3> QED BY <2>3, <3>1, <3>2
  <2>5. PICK d \in Profile, s \in Slot : d = j.d /\ s = j.s
    BY <1>3
  <2>6. PICK cs : cs = [conn EXCEPT ![p][d][s] = c]
    OBVIOUS
  <2>7. Leaves(p, cs)
    BY <2>4, <2>6, ConnLeaves
  <2>8. conn' = cs
    BY <2>1, <2>4, <2>5, <2>6
  <2>9. {} \in Memory
    BY DEF Memory
  <2> QED BY <1>2, <2>2, <2>7, <2>8, <2>9, IdleType, JobStep
<1>5. CASE j.why = "recheck"
  <2> DEFINE k == [j EXCEPT !.step = "append"]
  <2>1. mem' = [mem EXCEPT ![p] = {j.host}] /\ job' = [job EXCEPT ![p] = k] /\ UNCHANGED conn
    BY <1>1, <1>5 DEF ReadFails
  <2>2. j.host \in Host
    BY <1>1, <1>3, <1>5 DEF Named
  <2>3. k \in Job /\ Named(k) /\ {j.host} \in Memory
    BY <2>2 DEF Job, Step, Named, Memory
  <2> HIDE DEF k
  <2>4. PICK cs : cs = conn
    OBVIOUS
  <2>5. Leaves(p, cs) /\ conn' = cs
    BY <2>1, <2>4, ConnsStay
  <2> QED BY <1>2, <2>1, <2>3, <2>5, JobStep
<1>6. CASE j.why \notin {"check", "recheck"}
  <2> DEFINE k == [Idle EXCEPT !.step = "dead"]
  <2>1. job' = [job EXCEPT ![p] = k] /\ UNCHANGED <<mem, conn>>
    BY <1>1, <1>6 DEF ReadFails
  <2>2. k \in Job /\ Named(k)
    BY IdleType DEF Step, Named
  <2> HIDE DEF k
  <2>3. PICK cs : cs = conn
    OBVIOUS
  <2>4. Leaves(p, cs) /\ conn' = cs
    BY <2>1, <2>3, ConnsStay
  <2>5. PICK m \in Memory : m = mem[p] /\ mem' = [mem EXCEPT ![p] = m]
    BY <2>1, Parts DEF ListsTyped, ListsShaped
  <2> QED BY <1>2, <2>1, <2>2, <2>4, <2>5, JobStep
<1> QED BY <1>4, <1>5, <1>6

\* The steps that change the job alone, or the memory and the time gone by with it.
LEMMA JobSteps ==
  ASSUME TypeInv, NEW p \in Proc,
         AppendHost(p) \/ SignList(p) \/ Reload(p) \/ Die(p)
  PROVE  ListsStep(p)
<1>1. PICK cs : cs = conn
  OBVIOUS
<1>2. Leaves(p, cs)
  BY <1>1, ConnsStay
<1>3. PICK m \in Memory : m = mem[p] /\ mem = [mem EXCEPT ![p] = m]
  BY Parts DEF ListsTyped, ListsShaped
<1>4. PICK g \in Sig : g = sig[p] /\ sig = [sig EXCEPT ![p] = g]
  BY Parts DEF ListsTyped, ListsShaped
<1>5. PICK j \in Job : j = job[p] /\ Named(j) /\ job = [job EXCEPT ![p] = j]
  BY Parts DEF ListsTyped, ListsShaped
<1>6. ASSUME AppendHost(p) PROVE ListsStep(p)
  <2> DEFINE k == [j EXCEPT !.step = "sign"]
  <2>1. j.step = "append"
    BY <1>5, <1>6 DEF AppendHost
  <2>2. k \in Job /\ Named(k)
    BY <1>5, <2>1 DEF Job, Step, Named
  <2>3. job' = [job EXCEPT ![p] = k] \/ job' = [job EXCEPT ![p] = Idle]
    BY <1>5, <1>6 DEF AppendHost
  <2> HIDE DEF k
  <2>4. conn' = cs /\ mem' = [mem EXCEPT ![p] = m] /\ sig' = [sig EXCEPT ![p] = g]
    BY <1>1, <1>3, <1>4, <1>6 DEF AppendHost
  <2> QED BY <1>2, <2>2, <2>3, <2>4, IdleType, JobStep
<1>7. ASSUME SignList(p) PROVE ListsStep(p)
  <2>1. PICK x \in Sig : x = IF file.there THEN SigOf(file) ELSE NoSig
    BY ListTypes
  <2>2. /\ sig' = [sig EXCEPT ![p] = x] /\ job' = [job EXCEPT ![p] = Idle]
        /\ conn' = cs /\ mem' = [mem EXCEPT ![p] = m]
    BY <1>1, <1>3, <1>7, <2>1 DEF SignList
  <2> QED BY <1>2, <2>2, IdleType, JobStep
<1>8. ASSUME Reload(p) PROVE ListsStep(p)
  <2>1. conn' = cs /\ sig' = [sig EXCEPT ![p] = NoSig]
    BY <1>1, <1>8 DEF Reload
  <2>2. NoSig \in Sig
    BY ListTypes
  <2>3. CASE file.there
    <3>1. PICK x \in Sig : x = SigOf(file)
      BY ListTypes
    <3> DEFINE k == [Idle EXCEPT !.step = "read", !.why = "hup", !.seen = x]
    <3>2. job' = [job EXCEPT ![p] = k] /\ mem' = [mem EXCEPT ![p] = m]
      BY <1>3, <1>8, <2>3, <3>1 DEF Reload
    <3>3. k \in Job /\ Named(k)
      BY IdleType DEF Job, Step, Why, Named
    <3> HIDE DEF k
    <3> QED BY <1>2, <2>1, <2>2, <3>2, <3>3, JobStep
  <2>4. CASE ~file.there
    <3>1. PICK x \in Memory : x = NonEmpty(mem[p])
      BY ListTypes
    <3>2. mem' = [mem EXCEPT ![p] = x] /\ job' = [job EXCEPT ![p] = j]
      BY <1>5, <1>8, <2>4, <3>1 DEF Reload
    <3> QED BY <1>2, <1>5, <2>1, <2>2, <3>2, JobStep
  <2> QED BY <2>3, <2>4
<1>9. ASSUME Die(p) PROVE ListsStep(p)
  <2> DEFINE k == [Idle EXCEPT !.step = "dead"]
  <2>1. k \in Job /\ Named(k)
    BY IdleType DEF Step, Named
  <2>2. /\ job' = [job EXCEPT ![p] = k] /\ conn' = cs
        /\ mem' = [mem EXCEPT ![p] = m] /\ sig' = [sig EXCEPT ![p] = g]
    BY <1>1, <1>3, <1>4, <1>9 DEF Die
  <2> HIDE DEF k
  <2> QED BY <1>2, <2>1, <2>2, JobStep
<1> QED BY <1>6, <1>7, <1>8, <1>9

LEMMA StartStep ==
  ASSUME TypeInv, NEW p \in Proc, Start(p)
  PROVE  ListsStep(p) /\ CountsStep(p) /\ file' \in FileState
<1>1. PICK f \in FileState : f = IF file.there THEN file ELSE Written(TRUE, {})
  BY WrittenType DEF TypeInv, TypeOK
<1>2. PICK g \in Sig : g = SigOf(f)
  BY DEF SigOf, Sig, FileState
<1> DEFINE k == [Idle EXCEPT !.step = "read", !.seen = g]
           none == [d \in Profile |-> [h \in Host |-> NoCounter]]
           idle == [d \in Profile |-> [s \in Slot |-> NoConnection]]
<1>3. /\ file' = f /\ job' = [job EXCEPT ![p] = k] /\ mem' = [mem EXCEPT ![p] = {}]
      /\ sig' = [sig EXCEPT ![p] = NoSig] /\ fails' = [fails EXCEPT ![p] = none]
      /\ purged' = [purged EXCEPT ![p] = -1] /\ purger' = [purger EXCEPT ![p] = SomeProfile]
      /\ conn' = [conn EXCEPT ![p] = idle]
  BY <1>1, <1>2 DEF Start
<1>4. k \in Job /\ Named(k) /\ {} \in Memory /\ NoSig \in Sig
  <2>1. Idle.why = "start"
    BY DEF Idle
  <2> QED BY <2>1, IdleType, ListTypes DEF Job, Step, Named, Memory
<1>5. none \in Counters /\ SomeProfile \in Profile
  BY CounterTypes, ProfileAssumption DEF Counters, SomeProfile
<1>6. idle \in Conns /\ WatchesHosts(idle)
  BY NoConnectionType DEF Conns, WatchesHosts
<1> HIDE DEF k, none, idle
<1>7. PICK cs : cs = [conn EXCEPT ![p] = idle]
  OBVIOUS
<1>8. Leaves(p, cs)
  BY <1>6, <1>7, ConnsStay DEF Leaves
<1>9. ListsStep(p)
  BY <1>3, <1>4, <1>7, <1>8, JobStep
<1>10. CountsStep(p)
  BY <1>3, <1>5, CountStep
<1> QED BY <1>3, <1>9, <1>10

\* The events of a connection.
SameWatch(c, x) == (x.ah <=> c.ah) /\ x.host = c.host /\ (x.matches <=> c.matches)

LEMMA WatchedFacts ==
  ASSUME TypeInv, NEW p \in Proc, NEW d \in Profile, NEW s \in Slot
  PROVE  \E c, x, y \in Watched :
           /\ c = conn[p][d][s] /\ (c.ah => c.host \in Host)
           /\ x = [c EXCEPT !.hup = TRUE] /\ SameWatch(c, x)
           /\ y = [c EXCEPT !.cutoff = TRUE] /\ SameWatch(c, y)
<1>1. PICK c \in Watched : c = conn[p][d][s] /\ (c.ah => c.host \in Host)
  BY Parts DEF ListsTyped, Conns, WatchesHosts
<1>2. PICK x \in Watched :
        x = [c EXCEPT !.hup = TRUE] /\ SameWatch(c, x)
  <2> DEFINE z == [c EXCEPT !.hup = TRUE]
  <2>1. z \in Watched
    BY DEF Watched
  <2>2. SameWatch(c, z)
    BY DEF Watched, SameWatch
  <2> QED BY <2>1, <2>2
<1>3. PICK y \in Watched :
        y = [c EXCEPT !.cutoff = TRUE] /\ SameWatch(c, y)
  <2> DEFINE z == [c EXCEPT !.cutoff = TRUE]
  <2>1. z \in Watched
    BY DEF Watched
  <2>2. SameWatch(c, z)
    BY DEF Watched, SameWatch
  <2> QED BY <2>1, <2>2
<1> QED BY <1>1, <1>2, <1>3

LEMMA ConnectionStep ==
  ASSUME TypeInv, NEW p \in Proc, NEW d \in Profile, NEW s \in Slot,
         RstIn(p, d, s) \/ HupOut(p, d, s) \/ RedirectIn(p, d, s) \/ ReplyIn(p, d, s) \/ Close(p, d, s)
  PROVE  ListsStep(p) /\ CountsStep(p)
<1>1. PICK c, up, cut \in Watched :
        /\ c = conn[p][d][s] /\ (c.ah => c.host \in Host)
        /\ up = [c EXCEPT !.hup = TRUE] /\ SameWatch(c, up)
        /\ cut = [c EXCEPT !.cutoff = TRUE] /\ SameWatch(c, cut)
  BY WatchedFacts
<1>2. ASSUME NEW x \in Watched, conn[p][d][s].ah, x.ah => x.host \in Host, Event(p, d, s, x)
      PROVE  ListsStep(p) /\ CountsStep(p)
  BY <1>2, EventStep
<1>3. CASE RstIn(p, d, s)
  BY <1>2, <1>3, NoConnectionType DEF RstIn, Watching
<1>4. CASE HupOut(p, d, s)
  <2>1. conn[p][d][s].ah /\ Event(p, d, s, up)
    BY <1>1, <1>4 DEF HupOut, Watching
  <2> QED BY <1>1, <1>2, <2>1 DEF SameWatch
<1>5. CASE RedirectIn(p, d, s)
  <2>1. conn[p][d][s].ah /\ Event(p, d, s, cut)
    BY <1>1, <1>5 DEF RedirectIn, Watching
  <2> QED BY <1>1, <1>2, <2>1 DEF SameWatch
<1>6. CASE ReplyIn(p, d, s)
  <2>1. PICK f \in Counters : f = Purged(p, d)
    BY PurgedType
  <2>2. PICK h \in Host : h = conn[p][d][s].host
    BY <1>1, <1>6 DEF ReplyIn, Watching
  <2>3. PICK g \in Counters : g = [f EXCEPT ![d][h] = NoCounter]
    BY CounterTypes DEF Counters
  <2>4. PICK u \in Nat \cup {-1}, r \in Profile : u = now /\ r = Purger(p, d)
    BY <1>6, PurgerType DEF ReplyIn
  <2>5. /\ fails' = [fails EXCEPT ![p] = g]
        /\ purged' = [purged EXCEPT ![p] = u] /\ purger' = [purger EXCEPT ![p] = r]
    BY <1>6, <2>1, <2>2, <2>3, <2>4, PurgerType DEF ReplyIn
  <2>6. conn' = [conn EXCEPT ![p][d][s] = [@ EXCEPT !.cutoff = TRUE]]
    BY <1>6 DEF ReplyIn
  <2>7. PICK cs : cs = [conn EXCEPT ![p][d][s] = cut]
    OBVIOUS
  <2>8. conn' = cs
    BY <1>1, <2>6, <2>7
  <2>9. Leaves(p, cs)
    BY <1>1, <2>7, ConnLeaves DEF SameWatch
  <2>10. ListsStep(p)
    BY <1>6, <2>8, <2>9, Parts DEF ReplyIn, ListsStep, ListsShaped, ListsTyped, ListsOf, Leaves
  <2> QED BY <2>5, <2>10, CountStep
<1>7. CASE Close(p, d, s)
  <2>1. PICK cs : cs = [conn EXCEPT ![p][d][s] = NoConnection]
    OBVIOUS
  <2>2. Leaves(p, cs) /\ conn' = cs
    BY <1>7, <2>1, NoConnectionType, ConnLeaves DEF Close
  <2>3. ListsStep(p)
    BY <1>7, <2>2, Parts DEF Close, ListsStep, ListsShaped, ListsTyped, ListsOf, Leaves
  <2> QED BY <1>7, <2>3, SameCounts DEF Close
<1> QED BY <1>3, <1>4, <1>5, <1>6, <1>7

LEMMA RequestStep ==
  ASSUME TypeInv, NEW p \in Proc, NEW d \in Profile, NEW s \in Slot, NEW h \in Host, Request(p, d, s, h)
  PROVE  ListsStep(p)
<1>1. PICK j \in Job :
        j = [Idle EXCEPT !.why = "check", !.d = d, !.s = s, !.host = h] /\ j.host = h
  <2> DEFINE z == [Idle EXCEPT !.why = "check", !.d = d, !.s = s, !.host = h]
  <2>1. z \in Job /\ z.host = h
    BY IdleType DEF Job, Why
  <2> QED BY <2>1
<1>2. PICK cs : cs = conn
  OBVIOUS
<1>3. Leaves(p, cs)
  BY <1>2, ConnsStay
<1>4. Load(p, j, cs)
  BY <1>1, <1>2 DEF Request
<1> QED BY <1>1, <1>3, <1>4, LoadStep

LEMMA AppendedType ==
  ASSUME TypeInv, NEW p \in Proc, AppendHost(p)
  PROVE  file' \in FileState
<1>1. PICK h \in Host : h = job[p].host
  BY Parts DEF AppendHost, ListsTyped, Named
<1>2. file \in FileState /\ now \in Nat
  BY TimeTypes DEF TypeInv, TypeOK
<1>3. file' = file \/ file' = [there |-> TRUE, lines |-> [file.lines EXCEPT ![h] = @ + 1],
                               size |-> file.size + 1, time |-> now]
  BY <1>1 DEF AppendHost
<1>4. PICK lines \in [Host -> Nat], size \in Nat :
        lines = [file.lines EXCEPT ![h] = @ + 1] /\ size = file.size + 1
  <2> DEFINE x == [file.lines EXCEPT ![h] = @ + 1]
  <2>1. x \in [Host -> Nat] /\ file.size + 1 \in Nat
    BY <1>2 DEF FileState
  <2> QED BY <2>1
<1>5. file' = file \/ file' = [there |-> TRUE, lines |-> lines, size |-> size, time |-> now]
  BY <1>3, <1>4
<1>6. [there |-> TRUE, lines |-> lines, size |-> size, time |-> now] \in FileState
  BY <1>2 DEF FileState
<1> QED BY <1>2, <1>5, <1>6

LEMMA RestStep ==
  ASSUME TypeInv, NEW p \in Proc, Process(p)
  PROVE  RestTyped'
<1>1. /\ has \in [Proc -> SUBSET Profile]
      /\ now \in 0 .. MaxTime /\ file \in FileState /\ edits \in 0 .. MaxEdits /\ apart \in SUBSET Proc
  BY DEF TypeInv, TypeOK
<1>2. CASE AppendHost(p)
  <2>1. file' \in FileState
    BY <1>2, AppendedType
  <2>2. has' = has /\ now' = now /\ edits' = edits /\ apart' \in SUBSET Proc
    BY <1>1, <1>2 DEF AppendHost
  <2> QED BY <1>1, <2>1, <2>2 DEF RestTyped
<1>3. CASE Start(p)
  <2>1. file' \in FileState
    BY <1>3, StartStep
  <2>2. has' = has /\ now' = now /\ edits' = edits /\ apart' = apart
    BY <1>3 DEF Start
  <2> QED BY <1>1, <2>1, <2>2 DEF RestTyped
<1>4. CASE Reload(p) \/ Die(p)
  <2>1. has' = has /\ edits' \in 0 .. MaxEdits /\ now' = now /\ file' = file /\ apart' = apart
    BY <1>1, <1>4, BoundAssumption DEF Reload, Die, Edited
  <2> QED BY <1>1, <2>1 DEF RestTyped
<1>5. CASE ReadList(p) \/ ReadFails(p) \/ SignList(p)
  <2>1. has' = has /\ now' = now /\ file' = file /\ edits' = edits /\ apart' \in SUBSET Proc
    BY <1>1, <1>5 DEF ReadList, ReadFails, SignList
  <2> QED BY <1>1, <2>1 DEF RestTyped
<1>6. ASSUME NEW d \in Profile, NEW s \in Slot,
             (\E h \in Host : Request(p, d, s, h)) \/ RstIn(p, d, s) \/ HupOut(p, d, s)
               \/ RedirectIn(p, d, s) \/ ReplyIn(p, d, s) \/ Close(p, d, s)
      PROVE  RestTyped'
  <2>1. UNCHANGED <<has, now, file, edits, apart>>
    BY <1>6 DEF Request, RstIn, HupOut, RedirectIn, Event, ReplyIn, Close
  <2> QED BY <1>1, <2>1 DEF RestTyped
<1> QED BY <1>2, <1>3, <1>4, <1>5, <1>6, ProcessActs DEF Acts

LEMMA ProcessStep ==
  ASSUME TypeInv, NEW p \in Proc, Process(p)
  PROVE  ListsStep(p) /\ CountsStep(p)
<1>1. CASE ReadList(p)
  BY <1>1, ReadListStep, SameCounts DEF ReadList
<1>2. CASE ReadFails(p)
  <2>1. UNCHANGED <<fails, purged, purger>>
    BY <1>2 DEF ReadFails
  <2> QED BY <1>2, <2>1, ReadFailsStep, SameCounts
<1>3. CASE AppendHost(p) \/ SignList(p) \/ Reload(p) \/ Die(p)
  <2>1. UNCHANGED <<fails, purged, purger>>
    BY <1>3 DEF AppendHost, SignList, Reload, Die
  <2> QED BY <1>3, <2>1, JobSteps, SameCounts
<1>4. CASE Start(p)
  BY <1>4, StartStep
<1>5. ASSUME NEW d \in Profile, NEW s \in Slot, NEW h \in Host, Request(p, d, s, h)
      PROVE  ListsStep(p) /\ CountsStep(p)
  <2>1. UNCHANGED <<fails, purged, purger>>
    BY <1>5 DEF Request
  <2> QED BY <1>5, <2>1, RequestStep, SameCounts
<1>6. ASSUME NEW d \in Profile, NEW s \in Slot,
             RstIn(p, d, s) \/ HupOut(p, d, s) \/ RedirectIn(p, d, s) \/ ReplyIn(p, d, s) \/ Close(p, d, s)
      PROVE  ListsStep(p) /\ CountsStep(p)
  BY <1>6, ConnectionStep
<1> QED BY <1>1, <1>2, <1>3, <1>4, <1>5, <1>6, ProcessActs DEF Acts

\* The lists and counters of every process keep their types when one of them has made a step.
LEMMA AllTyped ==
  ASSUME TypeInv, NEW p \in Proc, ListsStep(p), CountsStep(p), RestTyped'
  PROVE  TypeInv'
<1>1. ASSUME NEW q \in Proc PROVE ListsTyped(q)' /\ CountsTyped(q)'
  <2>1. CASE q = p
    BY <2>1 DEF ListsStep, CountsStep
  <2>2. CASE q # p
    <3>1. ListsTyped(q) /\ CountsTyped(q)
      BY Parts
    <3>2. mem'[q] = mem[q] /\ sig'[q] = sig[q] /\ job'[q] = job[q] /\ conn'[q] = conn[q]
      BY <2>2 DEF ListsStep, ListsOf
    <3>3. fails'[q] = fails[q] /\ purged'[q] = purged[q] /\ purger'[q] = purger[q]
      BY <2>2 DEF CountsStep, CountsOf
    <3>4. ListsTyped(q)'
      BY <3>1, <3>2 DEF ListsTyped
    <3>5. CountsTyped(q)'
      BY <3>1, <3>3 DEF CountsTyped
    <3> QED BY <3>4, <3>5
  <2> QED BY <2>1, <2>2
<1>2. ListsShaped' /\ CountsShaped'
  BY DEF ListsStep, CountsStep
<1> QED BY <1>1, <1>2, TogetherNext

LEMMA TypeInit == Init => TypeInv
<1> SUFFICES ASSUME Init PROVE TypeInv
  OBVIOUS
<1>1. now = 0 /\ edits = 0 /\ apart = {}
  BY DEF Init
<1>2. Cardinality({}) = 0
  BY FS_EmptySet
<1>3. file = [there |-> TRUE, lines |-> [h \in Host |-> 0], size |-> 0, time |-> 0]
  BY <1>1, <1>2 DEF Init, Written
<1>4. file \in FileState
  BY <1>3 DEF FileState
<1>5. RestTyped
  <2>1. has \in [Proc -> SUBSET Profile]
    BY ConfigAssumption DEF Init
  <2>2. 0 \in 0 .. MaxTime /\ 0 \in 0 .. MaxEdits
    BY BoundAssumption
  <2> QED BY <1>1, <1>4, <2>1, <2>2 DEF RestTyped
<1>6. SigOf(file) \in Sig
  BY <1>4 DEF SigOf, Sig, FileState
<1> DEFINE none == [d \in Profile |-> [h \in Host |-> NoCounter]]
           idle == [d \in Profile |-> [s \in Slot |-> NoConnection]]
<1>7. none \in Counters
  BY CounterTypes DEF Counters
<1>8. idle \in Conns /\ WatchesHosts(idle)
  BY NoConnectionType DEF Conns, WatchesHosts
<1>9. /\ mem = [p \in Proc |-> {Marker}] /\ sig = [p \in Proc |-> SigOf(file)]
      /\ job = [p \in Proc |-> Idle] /\ conn = [p \in Proc |-> idle]
      /\ fails = [p \in Proc |-> none] /\ purged = [p \in Proc |-> -1]
      /\ purger = [p \in Proc |-> SomeProfile] /\ SomeProfile \in Profile
  BY ProfileAssumption DEF Init, SomeProfile
<1> HIDE DEF none, idle
<1>10. ListsShaped /\ CountsShaped
  BY <1>9 DEF ListsShaped, CountsShaped
<1>11. ASSUME NEW p \in Proc PROVE ListsTyped(p) /\ CountsTyped(p)
  BY <1>6, <1>7, <1>8, <1>9, IdleType DEF ListsTyped, CountsTyped, Memory
<1> QED BY <1>5, <1>10, <1>11, Together

LEMMA WorldStep ==
  ASSUME TypeInv, Tick \/ EditFile \/ UNCHANGED vars
  PROVE  TypeInv'
<1>1. UNCHANGED <<has, mem, sig, fails, purged, purger, conn, job, apart>>
  BY DEF Tick, EditFile, vars
<1>2. ListsShaped' /\ CountsShaped'
  BY <1>1, Parts DEF ListsShaped, CountsShaped
<1>3. ASSUME NEW p \in Proc PROVE ListsTyped(p)' /\ CountsTyped(p)'
  BY <1>1, Parts DEF ListsTyped, CountsTyped
<1>4. /\ has \in [Proc -> SUBSET Profile]
      /\ now \in 0 .. MaxTime /\ file \in FileState /\ edits \in 0 .. MaxEdits /\ apart \in SUBSET Proc
  BY DEF TypeInv, TypeOK
<1>5. now' \in 0 .. MaxTime /\ edits' \in 0 .. MaxEdits /\ apart' \in SUBSET Proc
  <2>1. CASE Tick
    BY <1>1, <1>4, <2>1, BoundAssumption DEF Tick
  <2>2. CASE EditFile
    BY <1>1, <1>4, <2>2, BoundAssumption DEF EditFile, Edited
  <2>3. CASE UNCHANGED vars
    BY <1>1, <1>4, <2>3 DEF vars
  <2> QED BY <2>1, <2>2, <2>3
<1>6. file' \in FileState
  <2>1. CASE EditFile
    <3>1. (\E keep \in SUBSET Host : file' = Written(TRUE, keep)) \/ file' = Written(FALSE, {})
      BY <2>1 DEF EditFile
    <3> QED BY <3>1, WrittenType
  <2>2. CASE Tick \/ UNCHANGED vars
    BY <1>4, <2>2 DEF Tick, vars
  <2> QED BY <2>1, <2>2
<1>7. RestTyped'
  BY <1>1, <1>4, <1>5, <1>6 DEF RestTyped
<1> QED BY <1>2, <1>3, <1>7, TogetherNext

LEMMA TypeStep == TypeInv /\ [Next]_vars => TypeInv'
<1> SUFFICES ASSUME TypeInv, [Next]_vars PROVE TypeInv'
  OBVIOUS
<1>1. CASE Tick \/ EditFile \/ UNCHANGED vars
  BY <1>1, WorldStep
<1>2. ASSUME NEW p \in Proc, Process(p) PROVE TypeInv'
  BY <1>2, ProcessStep, RestStep, AllTyped
<1> QED BY <1>1, <1>2 DEF Next

\* Lists, counters, connections and jobs keep their types: in particular a host is known
\* wherever a line is written or a failure is counted (tamper.c:560).
THEOREM TypeCorrect == Spec => []TypeOK
<1>1. Spec => []TypeInv
  BY TypeInit, TypeStep, PTL DEF Spec
<1>2. TypeInv => TypeOK
  BY DEF TypeInv
<1> QED BY <1>1, <1>2, PTL

-----------------------------------------------------------------------------
(* A process that goes by the file as it is.                               *)

\* g is older than what the file f has, or will have when it comes back.
Before(g, f) == g.time < f.time \/ (f.there /\ g.time = f.time /\ g.size < f.size)
NotAfter(g, f) == Before(g, f) \/ (f.there /\ g = SigOf(f))

\* GoesByItsFile for the process p
Goes(p) ==
  file.there /\ sig[p] = SigOf(file) /\ p \notin apart =>
    /\ IsIdle(p) => mem[p] \ {Marker} = Hosts(file)
    /\ job[p].step = "append" => file.lines[job[p].host] = 0

SigInvOf(p) ==
  /\ NotAfter(sig[p], file)
  /\ job[p].step = "read" => NotAfter(job[p].seen, file)
  /\ Goes(p)
SigInv == file.time <= now /\ \A p \in Proc : SigInvOf(p)

\* The file stays, or becomes newer than anything that anybody goes by.
FileMoves == file' = file \/ \A g \in Sig : NotAfter(g, file) => Before(g, file')

LEMMA BeforeIsOther ==
  ASSUME NEW g \in Sig, NEW f \in FileState, Before(g, f)
  PROVE  g # SigOf(f)
BY DEF Before, Sig, SigOf, FileState

LEMMA NoSigBefore == \A f \in FileState : Before(NoSig, f)
BY DEF Before, NoSig, FileState

LEMMA SigOfNotAfter == \A f \in FileState : f.there => NotAfter(SigOf(f), f)
BY DEF NotAfter

LEMMA AppendIsNewer ==
  ASSUME NEW g \in Sig, NEW f \in FileState, NEW t \in Nat, f.time <= t, NotAfter(g, f),
         NEW e \in FileState, e.there, e.time = t, e.size = f.size + 1
  PROVE  Before(g, e)
BY DEF Before, NotAfter, Sig, SigOf, FileState

LEMMA WriteIsNewer ==
  ASSUME NEW g \in Sig, NEW f \in FileState, NEW t \in Nat, f.time <= t, NotAfter(g, f),
         NEW e \in FileState, e.time = t, f.time < t \/ ~f.there
  PROVE  Before(g, e)
BY DEF Before, NotAfter, Sig, SigOf, FileState

LEMMA ProcessFile ==
  ASSUME TypeInv, file.time <= now, NEW p \in Proc, Process(p)
  PROVE  now' = now /\ file'.time <= now' /\ FileMoves
<1>1. file \in FileState /\ now \in Nat
  BY TimeTypes DEF TypeInv, TypeOK
<1>2. file' \in FileState
  BY RestStep DEF RestTyped
<1>3. CASE AppendHost(p)
  <2>1. now' = now
    BY <1>3 DEF AppendHost
  <2>2. CASE file' = file
    BY <2>1, <2>2 DEF FileMoves
  <2>3. CASE file' = [there |-> TRUE, lines |-> [file.lines EXCEPT ![job[p].host] = @ + 1],
                      size |-> file.size + 1, time |-> now]
    <3>1. file'.there /\ file'.time = now /\ file'.size = file.size + 1
      BY <2>3
    <3>2. PICK e \in FileState : e = file'
      BY <1>2
    <3>3. ASSUME NEW g \in Sig, NotAfter(g, file) PROVE Before(g, e)
      <4>1. PICK f \in FileState, t \in Nat : f = file /\ t = now
        BY <1>1
      <4> QED BY <3>1, <3>2, <3>3, <4>1, AppendIsNewer
    <3> QED BY <1>1, <2>1, <3>1, <3>2, <3>3 DEF FileMoves
  <2> QED BY <1>3, <2>2, <2>3 DEF AppendHost
<1>4. CASE Start(p)
  <2>1. now' = now
    BY <1>4 DEF Start
  <2>2. CASE file.there
    BY <1>4, <2>1, <2>2 DEF Start, FileMoves
  <2>3. CASE ~file.there
    <3>1. file' = Written(TRUE, {})
      BY <1>4, <2>3 DEF Start
    <3>2. file'.time = now
      BY <3>1, WrittenType
    <3>3. PICK e \in FileState : e = file'
      BY <1>2
    <3>4. ASSUME NEW g \in Sig, NotAfter(g, file) PROVE Before(g, e)
      <4>1. PICK f \in FileState, t \in Nat : f = file /\ t = now
        BY <1>1
      <4> QED BY <2>3, <3>2, <3>3, <3>4, <4>1, WriteIsNewer
    <3> QED BY <1>1, <2>1, <3>2, <3>3, <3>4 DEF FileMoves
  <2> QED BY <2>2, <2>3
<1>5. CASE ReadList(p) \/ ReadFails(p) \/ SignList(p) \/ Reload(p) \/ Die(p)
  <2>1. now' = now /\ file' = file
    BY <1>5 DEF ReadList, ReadFails, SignList, Reload, Die
  <2> QED BY <2>1 DEF FileMoves
<1>6. ASSUME NEW d \in Profile, NEW s \in Slot,
             (\E h \in Host : Request(p, d, s, h)) \/ RstIn(p, d, s) \/ HupOut(p, d, s)
               \/ RedirectIn(p, d, s) \/ ReplyIn(p, d, s) \/ Close(p, d, s)
      PROVE  now' = now /\ file' = file
  BY <1>6 DEF Request, RstIn, HupOut, RedirectIn, Event, ReplyIn, Close
<1> QED BY <1>3, <1>4, <1>5, <1>6, ProcessActs DEF Acts, FileMoves

\* Who does nothing still goes by what it has read, or knows that the file is newer.
LEMMA OthersGo ==
  ASSUME TypeInv, NEW q \in Proc, SigInvOf(q), FileMoves, file' \in FileState,
         sig'[q] = sig[q], job'[q] = job[q], mem'[q] = mem[q], q \in apart' <=> q \in apart
  PROVE  SigInvOf(q)'
<1>1. sig[q] \in Sig /\ job[q].seen \in Sig
  BY Parts DEF ListsTyped, Job
<1>2. CASE file' = file
  <2>1. Goes(q)'
    BY <1>2 DEF SigInvOf, Goes, IsIdle
  <2> QED BY <1>2, <2>1 DEF SigInvOf
<1>3. CASE \A g \in Sig : NotAfter(g, file) => Before(g, file')
  <2>1. Before(sig[q], file')
    BY <1>1, <1>3 DEF SigInvOf
  <2>2. sig[q] # SigOf(file')
    BY <1>1, <2>1, BeforeIsOther
  <2>3. Goes(q)'
    BY <2>2 DEF Goes, SigOf
  <2>4. job[q].step = "read" => Before(job[q].seen, file')
    BY <1>1, <1>3 DEF SigInvOf
  <2> QED BY <2>1, <2>3, <2>4 DEF SigInvOf, NotAfter
<1> QED BY <1>2, <1>3 DEF FileMoves

\* A list that is what the file holds remains so when the handler goes on with it.
LEMMA LoadedGoes ==
  ASSUME TypeInv, NEW p \in Proc, NEW j \in Job, NEW list \in Memory, list # {},
         j.why \in {"check", "recheck"} => j.host \in Host,
         NEW cs \in [Proc -> Conns], Loaded_(p, j, list, cs), file' = file,
         NEW g \in Sig, sig'[p] = g, NotAfter(g, file),
         file.there /\ g = SigOf(file) /\ p \notin apart' => list \ {Marker} = Hosts(file)
  PROVE  SigInvOf(p)'
<1>1. PICK m \in Memory, k \in Job : GoesOn(p, j, list, cs, m, k)
  BY LoadedEffect
<1>2. mem'[p] = m /\ job'[p] = k
  BY <1>1, Parts DEF ListsShaped, GoesOn
<1>3. CASE k = Idle /\ m = list
  <2>1. k.step = "idle"
    BY <1>3, IdleType
  <2> QED BY <1>2, <1>3, <2>1 DEF SigInvOf, Goes
<1>4. CASE k = [j EXCEPT !.step = "append"] /\ j.host \in Host \ list
  <2>1. k.step = "append" /\ k.host = j.host
    BY <1>4 DEF Job
  <2>2. file.lines \in [Host -> Nat]
    BY DEF TypeInv, TypeOK, FileState
  <2>3. file.there /\ list \ {Marker} = Hosts(file) => file.lines[j.host] = 0
    BY <1>4, <2>2, HostFacts DEF Hosts
  <2> QED BY <1>2, <2>1, <2>3 DEF SigInvOf, Goes, IsIdle
<1> QED BY <1>1, <1>3, <1>4 DEF GoesOn

LEMMA LoadGoes ==
  ASSUME TypeInv, NEW p \in Proc, SigInvOf(p), IsIdle(p), NEW j \in Job, j.step = "idle",
         j.why \in {"check", "recheck"} => j.host \in Host,
         NEW cs, Leaves(p, cs), Load(p, j, cs), file' = file, apart' = apart
  PROVE  SigInvOf(p)'
<1>1. CASE UpToDate(p)
  <2>1. PICK list \in Memory : list = NonEmpty(mem[p]) /\ list # {}
    BY ListTypes
  <2>2. Loaded_(p, j, list, cs) /\ sig' = sig
    BY <1>1, <2>1 DEF Load
  <2>3. list \ {Marker} = mem[p] \ {Marker}
    BY <2>1 DEF NonEmpty
  <2>4. PICK g \in Sig : g = sig[p] /\ sig'[p] = g /\ NotAfter(g, file)
    BY <2>2, Parts DEF SigInvOf, ListsTyped
  <2>5. file.there /\ g = SigOf(file) /\ p \notin apart' => list \ {Marker} = Hosts(file)
    BY <2>3, <2>4 DEF SigInvOf, Goes
  <2>6. cs \in [Proc -> Conns]
    BY DEF Leaves
  <2> QED BY <2>1, <2>2, <2>4, <2>5, <2>6, LoadedGoes
<1>2. CASE ~UpToDate(p)
  <2>1. PICK g \in Sig : g = SigOf(file)
    BY ListTypes
  <2> DEFINE k == [j EXCEPT !.step = "read", !.seen = g]
  <2>2. job' = [job EXCEPT ![p] = k] /\ UNCHANGED <<mem, sig>>
    BY <1>2, <2>1 DEF Load
  <2>3. k.step = "read" /\ k.seen = g
    BY DEF Job
  <2> HIDE DEF k
  <2>4. job'[p] = k
    BY <2>2, Parts DEF ListsShaped
  <2>5. file.there
    BY <1>2 DEF UpToDate
  <2> QED BY <2>1, <2>2, <2>3, <2>4, <2>5 DEF SigInvOf, Goes, IsIdle, NotAfter
<1> QED BY <1>1, <1>2

\* A step after which the handler is over, or just begins, and nobody's file has changed.
LEMMA ReadListGoes ==
  ASSUME TypeInv, NEW p \in Proc, SigInvOf(p), ReadList(p)
  PROVE  SigInvOf(p)'
<1>1. PICK j \in Job : j = job[p] /\ Named(j)
  BY Parts DEF ListsTyped
<1>2. PICK list \in Memory : list = Loaded(file) /\ list # {}
  BY ListTypes
<1>3. PICK g \in Sig : g = j.seen
  BY DEF Job
<1>4. PICK cs : cs = conn
  OBVIOUS
<1>5. cs \in [Proc -> Conns]
  BY <1>4, ConnsStay DEF Leaves
<1>6. /\ Loaded_(p, j, list, cs) /\ sig' = [sig EXCEPT ![p] = g] /\ file' = file
      /\ j.step = "read"
  BY <1>1, <1>2, <1>3, <1>4 DEF ReadList
<1>7. j.why \in {"check", "recheck"} => j.host \in Host
  BY <1>1, <1>6 DEF Named
<1>8. sig'[p] = g
  BY <1>6, Parts DEF ListsShaped
<1>9. NotAfter(g, file)
  BY <1>1, <1>3, <1>6 DEF SigInvOf
<1>10. list \ {Marker} = Hosts(file)
  BY <1>2, HostFacts DEF Loaded, Hosts
<1> QED BY <1>2, <1>5, <1>6, <1>7, <1>8, <1>9, <1>10, LoadedGoes

LEMMA ReadFailsGoes ==
  ASSUME TypeInv, NEW p \in Proc, SigInvOf(p), ReadFails(p)
  PROVE  SigInvOf(p)'
<1>1. UNCHANGED <<file, sig, apart>> /\ ~file.there
  BY DEF ReadFails
<1>2. PICK j \in Job : j = job[p]
  BY Parts DEF ListsTyped
<1>3. PICK k \in Job : job' = [job EXCEPT ![p] = k] /\ k.step # "read"
  <2>1. CASE j.why = "check"
    BY <1>2, <2>1, IdleType DEF ReadFails
  <2>2. CASE j.why = "recheck"
    <3> DEFINE k == [j EXCEPT !.step = "append"]
    <3>1. k \in Job /\ k.step # "read"
      BY DEF Job, Step
    <3>2. job' = [job EXCEPT ![p] = k]
      BY <1>2, <2>2 DEF ReadFails
    <3> QED BY <3>1, <3>2
  <2>3. CASE j.why \notin {"check", "recheck"}
    <3>1. job' = [job EXCEPT ![p] = [Idle EXCEPT !.step = "dead"]]
      BY <1>2, <2>3 DEF ReadFails
    <3> QED BY <3>1, IdleType DEF Step
  <2> QED BY <2>1, <2>2, <2>3
<1>4. job'[p].step # "read"
  BY <1>3, Parts DEF ListsShaped
<1> QED BY <1>1, <1>4 DEF SigInvOf, Goes

LEMMA AppendGoes ==
  ASSUME TypeInv, file.time <= now, NEW p \in Proc, SigInvOf(p), AppendHost(p)
  PROVE  SigInvOf(p)'
<1>1. job[p] \in Job /\ sig[p] \in Sig /\ sig' = sig
  BY Parts DEF ListsTyped, AppendHost
<1>2. file' \in FileState
  BY AppendedType
<1>3. CASE job' = [job EXCEPT ![p] = Idle] /\ apart' = apart \cup {p} /\ file' = file
  <2>1. job'[p].step = "idle"
    BY <1>3, IdleType, Parts DEF ListsShaped
  <2>2. p \in apart'
    BY <1>3
  <2> QED BY <1>1, <1>3, <2>1, <2>2 DEF SigInvOf, Goes
<1>4. CASE /\ job' = [job EXCEPT ![p].step = "sign"]
           /\ file' = [there |-> TRUE, lines |-> [file.lines EXCEPT ![job[p].host] = @ + 1],
                       size |-> file.size + 1, time |-> now]
  <2>1. job'[p].step = "sign"
    BY <1>1, <1>4, Parts DEF ListsShaped, Job
  <2>2. file'.size = file.size + 1 /\ file'.there /\ file'.time = now
    BY <1>4
  <2>3. PICK e \in FileState : e = file'
    BY <1>2
  <2>4. PICK f \in FileState, t \in Nat, g \in Sig : f = file /\ t = now /\ g = sig[p]
    BY <1>1, TimeTypes DEF TypeInv, TypeOK
  <2>5. NotAfter(g, f)
    BY <2>4 DEF SigInvOf
  <2>6. Before(g, e)
    BY <2>2, <2>3, <2>4, <2>5, AppendIsNewer
  <2>7. g # SigOf(e)
    BY <2>6, BeforeIsOther
  <2>8. NotAfter(sig[p], file)'
    BY <1>1, <2>3, <2>4, <2>6 DEF NotAfter
  <2>9. Goes(p)'
    BY <1>1, <2>1, <2>3, <2>4, <2>7 DEF Goes, SigOf
  <2> QED BY <2>1, <2>8, <2>9 DEF SigInvOf
<1> QED BY <1>3, <1>4 DEF AppendHost

LEMMA SignGoes ==
  ASSUME TypeInv, NEW p \in Proc, SignList(p)
  PROVE  SigInvOf(p)'
<1>1. file' = file /\ file \in FileState /\ mem' = mem
  BY DEF SignList, TypeInv, TypeOK
<1>2. job'[p].step = "idle"
  BY IdleType, Parts DEF SignList, ListsShaped
<1>3. sig'[p] = IF file.there THEN SigOf(file) ELSE NoSig
  BY Parts DEF SignList, ListsShaped
<1>4. NotAfter(sig[p], file)'
  BY <1>1, <1>3, NoSigBefore DEF NotAfter
<1>5. p \notin apart' => Hosts(file) = mem[p] \ {Marker}
  BY DEF SignList
<1>6. Goes(p)'
  BY <1>1, <1>2, <1>5 DEF Goes
<1> QED BY <1>2, <1>4, <1>6 DEF SigInvOf

LEMMA ReloadGoes ==
  ASSUME TypeInv, NEW p \in Proc, SigInvOf(p), Reload(p)
  PROVE  SigInvOf(p)'
<1>1. file' = file /\ file \in FileState
  BY DEF Reload, TypeInv, TypeOK
<1>2. sig'[p] = NoSig
  BY Parts DEF Reload, ListsShaped
<1>3. Before(NoSig, file) /\ NoSig # SigOf(file)
  BY <1>1, NoSigBefore, BeforeIsOther, ListTypes
<1>4. NotAfter(sig[p], file)' /\ Goes(p)'
  BY <1>1, <1>2, <1>3 DEF NotAfter, Goes
<1>5. job'[p].step = "read" => NotAfter(job'[p].seen, file)
  <2>1. CASE file.there
    <3>1. PICK g \in Sig : g = SigOf(file)
      BY ListTypes
    <3> DEFINE k == [Idle EXCEPT !.step = "read", !.why = "hup", !.seen = g]
    <3>2. job' = [job EXCEPT ![p] = k]
      BY <2>1, <3>1 DEF Reload
    <3>3. k.seen = g
      BY IdleType DEF Job
    <3> HIDE DEF k
    <3>4. job'[p] = k
      BY <3>2, Parts DEF ListsShaped
    <3> QED BY <2>1, <3>1, <3>3, <3>4 DEF NotAfter
  <2>2. CASE ~file.there
    <3>1. job' = job /\ job[p].step = "idle"
      BY <2>2 DEF Reload, IsIdle
    <3> QED BY <3>1
  <2> QED BY <2>1, <2>2
<1> QED BY <1>1, <1>4, <1>5 DEF SigInvOf

LEMMA DieGoes ==
  ASSUME TypeInv, NEW p \in Proc, SigInvOf(p), Die(p)
  PROVE  SigInvOf(p)'
<1>1. job'[p].step = "dead"
  BY IdleType, Parts DEF Die, ListsShaped, Step
<1>2. UNCHANGED <<file, sig>>
  BY DEF Die
<1> QED BY <1>1, <1>2 DEF SigInvOf, Goes, IsIdle

LEMMA StartGoes ==
  ASSUME TypeInv, NEW p \in Proc, Start(p)
  PROVE  SigInvOf(p)'
<1>1. PICK f \in FileState : f = IF file.there THEN file ELSE Written(TRUE, {})
  BY WrittenType DEF TypeInv, TypeOK
<1>2. file' = f /\ f.there
  BY <1>1, WrittenType DEF Start
<1>3. PICK g \in Sig : g = SigOf(f)
  BY DEF SigOf, Sig, FileState
<1> DEFINE k == [Idle EXCEPT !.step = "read", !.seen = g]
<1>4. job' = [job EXCEPT ![p] = k] /\ sig' = [sig EXCEPT ![p] = NoSig]
  BY <1>1, <1>3 DEF Start
<1>5. k.step = "read" /\ k.seen = g
  BY IdleType DEF Job
<1> HIDE DEF k
<1>6. job'[p] = k /\ sig'[p] = NoSig
  BY <1>4, Parts DEF ListsShaped
<1>7. Before(NoSig, f) /\ NoSig # SigOf(f)
  BY NoSigBefore, BeforeIsOther, ListTypes
<1> QED BY <1>2, <1>3, <1>5, <1>6, <1>7 DEF SigInvOf, NotAfter, Goes

\* A step that leaves the lists and the file alone.
LEMMA SameGoes ==
  ASSUME NEW p \in Proc, SigInvOf(p), UNCHANGED <<file, mem, sig, job, apart>>
  PROVE  SigInvOf(p)'
BY DEF SigInvOf, Goes, IsIdle

LEMMA EventGoes ==
  ASSUME TypeInv, NEW p \in Proc, NEW d \in Profile, NEW s \in Slot, SigInvOf(p), Watching(p, d, s),
         NEW c \in Watched, c.ah => c.host \in Host, Event(p, d, s, c)
  PROVE  SigInvOf(p)'
<1>1. conn[p][d][s].ah /\ IsIdle(p)
  BY DEF Watching
<1>2. PICK cs : cs = [conn EXCEPT ![p][d][s] = c]
  OBVIOUS
<1>3. Leaves(p, cs)
  BY <1>2, ConnLeaves
<1>4. UNCHANGED <<file, apart>>
  BY DEF Event
<1>5. CASE conn[p][d][s].cutoff
  <2>1. UNCHANGED <<mem, sig, job>>
    BY <1>5 DEF Event, OnlyPurge
  <2> QED BY <1>4, <2>1, SameGoes
<1>6. CASE ~conn[p][d][s].cutoff
  <2>1. Failed(p, d, s, cs)
    BY <1>2, <1>6 DEF Event
  <2>2. PICK f \in Counters, h \in Host, k \in [n : Nat, expire : Nat] : Fails(p, d, cs, f, h, k)
    BY <1>1, <1>3, <2>1, FailedEffect
  <2>3. CASE UNCHANGED <<mem, sig, job>>
    BY <1>4, <2>3, SameGoes
  <2>4. ASSUME NEW j \in Job, j.step = "idle", j.host = h, Load(p, j, cs)
        PROVE  SigInvOf(p)'
    BY <1>1, <1>3, <1>4, <2>4, LoadGoes
  <2> QED BY <2>2, <2>3, <2>4 DEF Fails
<1> QED BY <1>5, <1>6

LEMMA ConnectionGoes ==
  ASSUME TypeInv, NEW p \in Proc, NEW d \in Profile, NEW s \in Slot, SigInvOf(p),
         RstIn(p, d, s) \/ HupOut(p, d, s) \/ RedirectIn(p, d, s) \/ ReplyIn(p, d, s) \/ Close(p, d, s)
  PROVE  SigInvOf(p)'
<1>1. PICK c, up, cut \in Watched :
        /\ c = conn[p][d][s] /\ (c.ah => c.host \in Host)
        /\ up = [c EXCEPT !.hup = TRUE] /\ SameWatch(c, up)
        /\ cut = [c EXCEPT !.cutoff = TRUE] /\ SameWatch(c, cut)
  BY WatchedFacts
<1>2. CASE RstIn(p, d, s)
  BY <1>2, NoConnectionType, EventGoes DEF RstIn
<1>3. CASE HupOut(p, d, s)
  <2>1. Watching(p, d, s) /\ Event(p, d, s, up)
    BY <1>1, <1>3 DEF HupOut
  <2> QED BY <1>1, <2>1, EventGoes DEF SameWatch
<1>4. CASE RedirectIn(p, d, s)
  <2>1. Watching(p, d, s) /\ Event(p, d, s, cut)
    BY <1>1, <1>4 DEF RedirectIn
  <2> QED BY <1>1, <2>1, EventGoes DEF SameWatch
<1>5. CASE ReplyIn(p, d, s) \/ Close(p, d, s)
  <2>1. UNCHANGED <<file, mem, sig, job, apart>>
    BY <1>5 DEF ReplyIn, Close
  <2> QED BY <2>1, SameGoes
<1> QED BY <1>2, <1>3, <1>4, <1>5

LEMMA RequestGoes ==
  ASSUME TypeInv, NEW p \in Proc, SigInvOf(p),
         NEW d \in Profile, NEW s \in Slot, NEW h \in Host, Request(p, d, s, h)
  PROVE  SigInvOf(p)'
<1>1. PICK j \in Job :
        /\ j = [Idle EXCEPT !.why = "check", !.d = d, !.s = s, !.host = h]
        /\ j.host = h /\ j.step = "idle"
  <2> DEFINE z == [Idle EXCEPT !.why = "check", !.d = d, !.s = s, !.host = h]
  <2>1. z \in Job /\ z.host = h /\ z.step = "idle"
    BY IdleType DEF Job, Why
  <2> QED BY <2>1
<1>2. PICK cs : cs = conn
  OBVIOUS
<1>3. Leaves(p, cs)
  BY <1>2, ConnsStay
<1>4. Load(p, j, cs) /\ IsIdle(p) /\ UNCHANGED <<file, apart>>
  BY <1>1, <1>2 DEF Request
<1> QED BY <1>1, <1>3, <1>4, LoadGoes

LEMMA OwnGoes ==
  ASSUME TypeInv, file.time <= now, NEW p \in Proc, SigInvOf(p), Process(p)
  PROVE  SigInvOf(p)'
<1>1. CASE ReadList(p)
  BY <1>1, ReadListGoes
<1>2. CASE ReadFails(p)
  BY <1>2, ReadFailsGoes
<1>3. CASE AppendHost(p)
  BY <1>3, AppendGoes
<1>4. CASE SignList(p)
  BY <1>4, SignGoes
<1>5. CASE Reload(p)
  BY <1>5, ReloadGoes
<1>6. CASE Die(p)
  BY <1>6, DieGoes
<1>7. CASE Start(p)
  BY <1>7, StartGoes
<1>8. ASSUME NEW d \in Profile, NEW s \in Slot, NEW h \in Host, Request(p, d, s, h)
      PROVE  SigInvOf(p)'
  BY <1>8, RequestGoes
<1>9. ASSUME NEW d \in Profile, NEW s \in Slot,
             RstIn(p, d, s) \/ HupOut(p, d, s) \/ RedirectIn(p, d, s) \/ ReplyIn(p, d, s) \/ Close(p, d, s)
      PROVE  SigInvOf(p)'
  BY <1>9, ConnectionGoes
<1> QED BY <1>1, <1>2, <1>3, <1>4, <1>5, <1>6, <1>7, <1>8, <1>9, ProcessActs DEF Acts

\* Which processes are apart is for themselves to say.
LEMMA ApartOf ==
  ASSUME TypeInv, NEW p \in Proc, Process(p)
  PROVE  \A q \in Proc \ {p} : q \in apart' <=> q \in apart
<1>1. CASE ReadList(p) \/ ReadFails(p) \/ SignList(p) \/ Reload(p) \/ Die(p) \/ Start(p)
  BY <1>1 DEF ReadList, ReadFails, SignList, Reload, Die, Start
<1>2. CASE AppendHost(p)
  <2>1. apart' = apart \/ apart' = apart \cup {p}
    BY <1>2 DEF AppendHost
  <2> QED BY <2>1
<1>3. ASSUME NEW d \in Profile, NEW s \in Slot,
             (\E h \in Host : Request(p, d, s, h)) \/ RstIn(p, d, s) \/ HupOut(p, d, s)
               \/ RedirectIn(p, d, s) \/ ReplyIn(p, d, s) \/ Close(p, d, s)
      PROVE  apart' = apart
  BY <1>3 DEF Request, RstIn, HupOut, RedirectIn, Event, ReplyIn, Close
<1> QED BY <1>1, <1>2, <1>3, ProcessActs DEF Acts

LEMMA WorldMoves ==
  ASSUME TypeInv, file.time <= now, Tick \/ EditFile \/ UNCHANGED vars
  PROVE  file'.time <= now' /\ FileMoves
<1>1. file \in FileState /\ now \in Nat
  BY TimeTypes DEF TypeInv, TypeOK
<1>2. CASE Tick \/ UNCHANGED vars
  BY <1>1, <1>2 DEF Tick, FileMoves, FileState, vars
<1>3. CASE EditFile
  <2>1. now' = now /\ now > file.time
    BY <1>3 DEF EditFile
  <2>2. (\E keep \in SUBSET Host : file' = Written(TRUE, keep)) \/ file' = Written(FALSE, {})
    BY <1>3 DEF EditFile
  <2>3. file' \in FileState /\ file'.time = now
    <3>1. CASE file' = Written(FALSE, {})
      BY <3>1, WrittenType
    <3>2. ASSUME NEW keep \in SUBSET Host, file' = Written(TRUE, keep)
          PROVE  file' \in FileState /\ file'.time = now
      BY <3>2, WrittenType
    <3> QED BY <2>2, <3>1, <3>2
  <2>4. PICK e \in FileState : e = file'
    BY <2>3
  <2>5. ASSUME NEW g \in Sig, NotAfter(g, file) PROVE Before(g, e)
    <3>1. PICK f \in FileState, t \in Nat : f = file /\ t = now
      BY <1>1
    <3> QED BY <2>1, <2>3, <2>4, <2>5, <3>1, WriteIsNewer
  <2> QED BY <1>1, <2>1, <2>3, <2>4, <2>5 DEF FileMoves
<1> QED BY <1>2, <1>3

LEMMA SigInit == Init => SigInv
<1> SUFFICES ASSUME Init PROVE SigInv
  OBVIOUS
<1>1. TypeInv
  BY TypeInit
<1>2. file = [there |-> TRUE, lines |-> [h \in Host |-> 0], size |-> Cardinality({}), time |-> 0]
      /\ now = 0
  BY DEF Init, Written
<1>3. file.time <= now /\ file.there /\ Hosts(file) = {}
  BY <1>2 DEF Hosts
<1>4. ASSUME NEW p \in Proc PROVE SigInvOf(p)
  <2>1. sig[p] = SigOf(file) /\ job[p].step = "idle" /\ mem[p] = {Marker}
    BY IdleType DEF Init
  <2> QED BY <1>3, <2>1 DEF SigInvOf, NotAfter, Goes
<1> QED BY <1>3, <1>4 DEF SigInv

LEMMA SigStep == TypeInv /\ SigInv /\ [Next]_vars => SigInv'
<1> SUFFICES ASSUME TypeInv, SigInv, [Next]_vars PROVE SigInv'
  OBVIOUS
<1>1. file.time <= now /\ \A p \in Proc : SigInvOf(p)
  BY DEF SigInv
<1>2. file' \in FileState
  BY TypeStep DEF TypeInv, TypeOK
<1>3. CASE Tick \/ EditFile \/ UNCHANGED vars
  <2>1. file'.time <= now' /\ FileMoves
    BY <1>1, <1>3, WorldMoves
  <2>2. UNCHANGED <<mem, sig, job, apart>>
    BY <1>3 DEF Tick, EditFile, vars
  <2>3. ASSUME NEW q \in Proc PROVE SigInvOf(q)'
    BY <1>1, <1>2, <2>1, <2>2, OthersGo
  <2> QED BY <2>1, <2>3 DEF SigInv
<1>4. ASSUME NEW p \in Proc, Process(p) PROVE SigInv'
  <2>1. file'.time <= now' /\ FileMoves
    BY <1>1, <1>4, ProcessFile
  <2>2. ASSUME NEW q \in Proc \ {p} PROVE SigInvOf(q)'
    <3>1. mem'[q] = mem[q] /\ sig'[q] = sig[q] /\ job'[q] = job[q]
      BY <1>4, ProcessStep DEF ListsStep, ListsOf
    <3>2. q \in apart' <=> q \in apart
      BY <1>4, ApartOf
    <3> QED BY <1>1, <1>2, <2>1, <3>1, <3>2, OthersGo
  <2>3. SigInvOf(p)'
    BY <1>1, <1>4, OwnGoes
  <2> QED BY <2>1, <2>2, <2>3 DEF SigInv
<1> QED BY <1>3, <1>4 DEF Next

\* However many processes share the list file, whoever edits it and wherever they die: a
\* process whose time and size are those of the file has in memory what is in the file, and
\* writes no line that is there (hostlist.c:115, tamper.c:573).
THEOREM MemoryFollowsFile == Spec => []GoesByItsFile
<1>1. Spec => [](TypeInv /\ SigInv)
  BY TypeInit, TypeStep, SigInit, SigStep, PTL DEF Spec
<1>2. SigInv => GoesByItsFile
  BY DEF SigInv, SigInvOf, Goes, GoesByItsFile
<1> QED BY <1>1, <1>2, PTL

-----------------------------------------------------------------------------
(* Whom the strategy is applied to.                                        *)

\* OnlyListed for the process p
Treats(p) ==
  \A d \in Profile, s \in Slot :
    ~conn[p][d][s].matches /\ conn'[p][d][s].matches => Listed(mem'[p], conn'[p][d][s].host)

\* The handler has not applied it to anything else yet.
NoMore(p, cs) == \A d \in Profile, s \in Slot : cs[p][d][s].matches => conn[p][d][s].matches

LEMMA NoMoreTreats ==
  ASSUME NEW p \in Proc, NEW cs, NoMore(p, cs), conn' = cs
  PROVE  Treats(p)
BY DEF NoMore, Treats

LEMMA ConnNoMore ==
  ASSUME TypeInv, NEW p \in Proc, NEW d \in Profile, NEW s \in Slot, NEW c \in Watched,
         c.matches => conn[p][d][s].matches
  PROVE  NoMore(p, [conn EXCEPT ![p][d][s] = c])
<1> DEFINE cs == [conn EXCEPT ![p][d][s] = c]
<1>1. conn \in [Proc -> Conns]
  BY ConnsStay DEF Leaves
<1>2. ASSUME NEW e \in Profile, NEW r \in Slot, cs[p][e][r].matches PROVE conn[p][e][r].matches
  <2>1. cs[p][e][r] = IF e = d /\ r = s THEN c ELSE conn[p][e][r]
    BY <1>1 DEF Conns
  <2> HIDE DEF cs
  <2> QED BY <1>2, <2>1
<1> QED BY <1>2 DEF NoMore

LEMMA LoadedTreats ==
  ASSUME TypeInv, NEW p \in Proc, NEW j \in Job, NEW list \in Memory, list # {},
         j.why \in {"check", "recheck"} => j.host \in Host,
         NEW cs \in [Proc -> Conns], NoMore(p, cs), Loaded_(p, j, list, cs)
  PROVE  Treats(p)
<1>1. PICK m \in Memory, k \in Job : GoesOn(p, j, list, cs, m, k)
  BY LoadedEffect
<1>2. CASE conn' = cs
  BY <1>2, NoMoreTreats
<1>3. CASE /\ j.why = "check" /\ j.host \in Host
           /\ conn' = [cs EXCEPT ![p][j.d][j.s] = Watch(UserList \cup list, j.host)]
  <2>1. PICK h \in Host : h = j.host
    BY <1>3
  <2>2. PICK w \in Watched :
          /\ w = Watch(UserList \cup list, h) /\ w.host = h
          /\ (w.matches <=> Verdict(UserList \cup list, h) = "match")
    <3> DEFINE x == Watch(UserList \cup list, h)
    <3>1. x \in Watched /\ x.host = h /\ (x.matches <=> Verdict(UserList \cup list, h) = "match")
      BY WatchType
    <3> HIDE DEF x
    <3> QED BY <3>1 DEF x
  <2>3. mem'[p] = list
    BY <1>1, <1>3, Parts DEF ListsShaped, GoesOn
  <2>4. PICK d \in Profile, s \in Slot : d = j.d /\ s = j.s
    BY DEF Job
  <2>5. \A e \in Profile, r \in Slot :
          conn'[p][e][r] = IF e = d /\ r = s THEN w ELSE cs[p][e][r]
    BY <1>3, <2>1, <2>2, <2>4 DEF Conns
  <2>6. w.matches => Listed(list, h)
    <3>1. list \in SUBSET (Host \cup {Marker})
      BY DEF Memory
    <3>2. Verdict(UserList \cup list, h) = "match" => Listed(list, h)
      BY <3>1, VerdictFacts DEF Memory
    <3> QED BY <2>2, <3>2
  <2>7. ASSUME NEW e \in Profile, NEW r \in Slot, ~conn[p][e][r].matches, conn'[p][e][r].matches
        PROVE  Listed(mem'[p], conn'[p][e][r].host)
    <3>1. CASE e = d /\ r = s
      BY <2>2, <2>3, <2>5, <2>6, <2>7, <3>1
    <3>2. CASE ~(e = d /\ r = s)
      BY <2>5, <2>7, <3>2 DEF NoMore
    <3> QED BY <3>1, <3>2
  <2> QED BY <2>7 DEF Treats
<1> QED BY <1>1, <1>2, <1>3 DEF GoesOn

LEMMA LoadTreats ==
  ASSUME TypeInv, NEW p \in Proc, NEW j \in Job, j.why \in {"check", "recheck"} => j.host \in Host,
         NEW cs, Leaves(p, cs), NoMore(p, cs), Load(p, j, cs)
  PROVE  Treats(p)
<1>1. CASE UpToDate(p)
  <2>1. PICK list \in Memory : list = NonEmpty(mem[p]) /\ list # {}
    BY ListTypes
  <2>2. Loaded_(p, j, list, cs)
    BY <1>1, <2>1 DEF Load
  <2>3. PICK x \in [Proc -> Conns] : x = cs
    BY DEF Leaves
  <2>4. NoMore(p, x) /\ Loaded_(p, j, list, x)
    BY <2>2, <2>3
  <2> QED BY <2>1, <2>4, LoadedTreats
<1>2. CASE ~UpToDate(p)
  BY <1>2, NoMoreTreats DEF Load
<1> QED BY <1>1, <1>2

LEMMA EventTreats ==
  ASSUME TypeInv, NEW p \in Proc, NEW d \in Profile, NEW s \in Slot, Watching(p, d, s),
         NEW c \in Watched, c.ah => c.host \in Host, c.matches => conn[p][d][s].matches,
         Event(p, d, s, c)
  PROVE  Treats(p)
<1>1. conn[p][d][s].ah
  BY DEF Watching
<1>2. PICK cs : cs = [conn EXCEPT ![p][d][s] = c]
  OBVIOUS
<1>3. Leaves(p, cs) /\ NoMore(p, cs)
  BY <1>2, ConnLeaves, ConnNoMore
<1>4. CASE conn[p][d][s].cutoff
  <2>1. conn' = cs
    BY <1>2, <1>4 DEF Event, OnlyPurge
  <2> QED BY <1>3, <2>1, NoMoreTreats
<1>5. CASE ~conn[p][d][s].cutoff
  <2>1. Failed(p, d, s, cs)
    BY <1>2, <1>5 DEF Event
  <2>2. PICK f \in Counters, h \in Host, k \in [n : Nat, expire : Nat] : Fails(p, d, cs, f, h, k)
    BY <1>1, <1>3, <2>1, FailedEffect
  <2>3. CASE conn' = cs
    BY <1>3, <2>3, NoMoreTreats
  <2>4. ASSUME NEW j \in Job, j.host = h, Load(p, j, cs)
        PROVE  Treats(p)
    BY <1>3, <2>4, LoadTreats
  <2> QED BY <2>2, <2>3, <2>4 DEF Fails
<1> QED BY <1>4, <1>5

LEMMA ConnectionTreats ==
  ASSUME TypeInv, NEW p \in Proc, NEW d \in Profile, NEW s \in Slot,
         RstIn(p, d, s) \/ HupOut(p, d, s) \/ RedirectIn(p, d, s) \/ ReplyIn(p, d, s) \/ Close(p, d, s)
  PROVE  Treats(p)
<1>1. PICK c, up, cut \in Watched :
        /\ c = conn[p][d][s] /\ (c.ah => c.host \in Host)
        /\ up = [c EXCEPT !.hup = TRUE] /\ SameWatch(c, up)
        /\ cut = [c EXCEPT !.cutoff = TRUE] /\ SameWatch(c, cut)
  BY WatchedFacts
<1>2. CASE RstIn(p, d, s)
  BY <1>2, NoConnectionType, EventTreats DEF RstIn
<1>3. CASE HupOut(p, d, s)
  <2>1. Watching(p, d, s) /\ Event(p, d, s, up)
    BY <1>1, <1>3 DEF HupOut
  <2> QED BY <1>1, <2>1, EventTreats DEF SameWatch
<1>4. CASE RedirectIn(p, d, s)
  <2>1. Watching(p, d, s) /\ Event(p, d, s, cut)
    BY <1>1, <1>4 DEF RedirectIn
  <2> QED BY <1>1, <2>1, EventTreats DEF SameWatch
<1>5. CASE ReplyIn(p, d, s)
  <2>1. PICK cs : cs = [conn EXCEPT ![p][d][s] = cut]
    OBVIOUS
  <2>2. conn' = [conn EXCEPT ![p][d][s] = [@ EXCEPT !.cutoff = TRUE]]
    BY <1>5 DEF ReplyIn
  <2>3. conn' = cs
    BY <1>1, <2>1, <2>2
  <2>4. NoMore(p, cs)
    BY <1>1, <2>1, ConnNoMore DEF SameWatch
  <2> QED BY <2>3, <2>4, NoMoreTreats
<1>6. CASE Close(p, d, s)
  <2>1. PICK cs : cs = [conn EXCEPT ![p][d][s] = NoConnection]
    OBVIOUS
  <2>2. NoMore(p, cs) /\ conn' = cs
    BY <1>6, <2>1, NoConnectionType, ConnNoMore DEF Close
  <2> QED BY <2>2, NoMoreTreats
<1> QED BY <1>2, <1>3, <1>4, <1>5, <1>6

LEMMA ReadListTreats ==
  ASSUME TypeInv, NEW p \in Proc, ReadList(p)
  PROVE  Treats(p)
<1>1. PICK j \in Job : j = job[p] /\ Named(j)
  BY Parts DEF ListsTyped
<1>2. PICK list \in Memory : list = Loaded(file) /\ list # {}
  BY ListTypes
<1>3. PICK cs : cs = conn
  OBVIOUS
<1>4. cs \in [Proc -> Conns] /\ NoMore(p, cs)
  BY <1>3, ConnsStay DEF Leaves, NoMore
<1>5. Loaded_(p, j, list, cs) /\ j.step = "read"
  BY <1>1, <1>2, <1>3 DEF ReadList
<1>6. j.why \in {"check", "recheck"} => j.host \in Host
  BY <1>1, <1>5 DEF Named
<1> QED BY <1>2, <1>4, <1>5, <1>6, LoadedTreats

LEMMA ReadFailsTreats ==
  ASSUME TypeInv, NEW p \in Proc, ReadFails(p)
  PROVE  Treats(p)
<1>1. PICK j \in Job : j = job[p] /\ Named(j)
  BY Parts DEF ListsTyped
<1>2. CASE j.why = "check"
  <2>1. PICK ah \in BOOLEAN :
          conn' = [conn EXCEPT ![p][j.d][j.s] = [NoConnection EXCEPT !.host = j.host, !.ah = ah]]
    BY <1>1, <1>2 DEF ReadFails
  <2>2. PICK d \in Profile, s \in Slot : d = j.d /\ s = j.s
    BY DEF Job
  <2>3. PICK c \in Watched : c = [NoConnection EXCEPT !.host = j.host, !.ah = ah] /\ ~c.matches
    <3> DEFINE z == [NoConnection EXCEPT !.host = j.host, !.ah = ah]
    <3>1. j.host \in Host
      BY <1>1, <1>2 DEF ReadFails, Named
    <3>2. z \in Watched
      BY <3>1 DEF NoConnection, Watched
    <3>3. ~z.matches
      BY DEF NoConnection
    <3> QED BY <3>2, <3>3
  <2>4. PICK cs : cs = [conn EXCEPT ![p][d][s] = c]
    OBVIOUS
  <2>5. NoMore(p, cs)
    BY <2>3, <2>4, ConnNoMore
  <2>6. conn' = cs
    BY <2>1, <2>2, <2>3, <2>4
  <2> QED BY <2>5, <2>6, NoMoreTreats
<1>3. CASE j.why # "check"
  <2>1. UNCHANGED conn
    BY <1>1, <1>3 DEF ReadFails
  <2> QED BY <2>1 DEF Treats
<1> QED BY <1>2, <1>3

LEMMA OwnTreats ==
  ASSUME TypeInv, NEW p \in Proc, Process(p)
  PROVE  Treats(p)
<1>1. CASE ReadList(p)
  BY <1>1, ReadListTreats
<1>2. CASE ReadFails(p)
  BY <1>2, ReadFailsTreats
<1>3. CASE AppendHost(p) \/ SignList(p) \/ Reload(p) \/ Die(p)
  <2>1. UNCHANGED conn
    BY <1>3 DEF AppendHost, SignList, Reload, Die
  <2> QED BY <2>1 DEF Treats
<1>4. CASE Start(p)
  <2> DEFINE idle == [d \in Profile |-> [s \in Slot |-> NoConnection]]
  <2>1. conn' = [conn EXCEPT ![p] = idle]
    BY <1>4 DEF Start
  <2>2. conn'[p] = idle
    BY <2>1, Parts DEF ListsShaped
  <2>3. \A d \in Profile, s \in Slot : ~conn'[p][d][s].matches
    BY <2>2, NoConnectionType
  <2> QED BY <2>3 DEF Treats
<1>5. ASSUME NEW d \in Profile, NEW s \in Slot, NEW h \in Host, Request(p, d, s, h)
      PROVE  Treats(p)
  <2>1. PICK j \in Job :
          j = [Idle EXCEPT !.why = "check", !.d = d, !.s = s, !.host = h] /\ j.host = h
    <3> DEFINE z == [Idle EXCEPT !.why = "check", !.d = d, !.s = s, !.host = h]
    <3>1. z \in Job /\ z.host = h
      BY IdleType DEF Job, Why
    <3> QED BY <3>1
  <2>2. PICK cs : cs = conn
    OBVIOUS
  <2>3. Leaves(p, cs) /\ NoMore(p, cs)
    BY <2>2, ConnsStay DEF NoMore
  <2>4. Load(p, j, cs)
    BY <1>5, <2>1, <2>2 DEF Request
  <2> QED BY <2>1, <2>3, <2>4, LoadTreats
<1>6. ASSUME NEW d \in Profile, NEW s \in Slot,
             RstIn(p, d, s) \/ HupOut(p, d, s) \/ RedirectIn(p, d, s) \/ ReplyIn(p, d, s) \/ Close(p, d, s)
      PROVE  Treats(p)
  BY <1>6, ConnectionTreats
<1> QED BY <1>1, <1>2, <1>3, <1>4, <1>5, <1>6, ProcessActs DEF Acts

LEMMA TreatsStep == TypeInv /\ [Next]_vars => \A p \in Proc : Treats(p)
<1> SUFFICES ASSUME TypeInv, [Next]_vars, NEW q \in Proc PROVE Treats(q)
  OBVIOUS
<1>1. CASE Tick \/ EditFile \/ UNCHANGED vars
  <2>1. UNCHANGED conn
    BY <1>1 DEF Tick, EditFile, vars
  <2> QED BY <2>1 DEF Treats
<1>2. ASSUME NEW p \in Proc, Process(p) PROVE Treats(q)
  <2>1. CASE q = p
    BY <1>2, <2>1, OwnTreats
  <2>2. CASE q # p
    <3>1. conn'[q] = conn[q]
      BY <1>2, <2>2, ProcessStep DEF ListsStep, ListsOf
    <3> QED BY <3>1 DEF Treats
  <2> QED BY <2>1, <2>2
<1> QED BY <1>1, <1>2 DEF Next

\* Whatever becomes of the list file: the strategy is applied to a host only when it or a
\* domain it is in has a line in one of the lists, and none in the exclude list
\* (hostlist.c:146, 244).
THEOREM OnlyListedHosts == Spec => OnlyListed
<1>1. TypeInv /\ [Next]_vars
        => [\A p \in Proc, d \in Profile, s \in Slot :
              ~conn[p][d][s].matches /\ conn'[p][d][s].matches
                => LET h == conn'[p][d][s].host
                       within == {SubSeq(h, k, Len(h)) : k \in 1 .. Len(h)}
                   IN within \cap (UserList \cup (mem'[p] \ {Marker})) # {} /\ within \cap Exclude = {}]_vars
  BY TreatsStep DEF Treats, Listed
<1>2. Spec => []TypeInv
  BY TypeInit, TypeStep, PTL DEF Spec
<1> QED BY <1>1, <1>2, PTL DEF Spec, OnlyListed

-----------------------------------------------------------------------------
(* The failures that add a host.  In a second the counters of one profile  *)
(* are purged: a counter of that profile that is looked at before the      *)
(* second ends is never an expired one.                                    *)

\* A job of profile e is there for failures within the time.
JobWithin(k, e) ==
  k.why = "recheck" /\ k.step \in {"read", "append"} /\ k.d = e => k.at < k.expire

\* No counter of profile e has expired.
Fresh(f, t, e) == \A h \in Host : f[e][h].n > 0 => t < f[e][h].expire

Within(p) ==
  /\ purged[p] <= now
  /\ purged[p] = now => Fresh(fails[p], now, purger[p])
  /\ JobWithin(job[p], purger[p])

LEMMA PurgedIsFresh ==
  ASSUME TypeInv, NEW p \in Proc, NEW d \in Profile, Within(p)
  PROVE  Fresh(Purged(p, d), now, Purger(p, d))
<1>1. CASE purged[p] = now
  BY <1>1, PurgedType DEF Within, Purger
<1>2. CASE purged[p] # now
  <2>1. ASSUME NEW h \in Host, Purged(p, d)[d][h].n > 0
        PROVE  now < Purged(p, d)[d][h].expire
    <3>1. PICK k \in Counter : k = Purged(p, d)[d][h]
      BY PurgedType DEF Counters
    <3>2. k = NoCounter \/ ~(k.n > 0 /\ now >= k.expire)
      BY <1>2, <3>1, PurgedType
    <3>3. k # NoCounter
      BY <2>1, <3>1 DEF NoCounter
    <3> QED BY <2>1, <3>1, <3>2, <3>3, TimeTypes DEF Counter
  <2> QED BY <1>2, <2>1 DEF Fresh, Purger
<1> QED BY <1>1, <1>2

LEMMA CountedIsFresh ==
  ASSUME TypeInv, NEW f \in Counters, NEW d \in Profile, NEW h \in Host, Fresh(f, now, d)
  PROVE  now < Counted(f[d][h]).expire
<1>1. PICK k \in Counter : k = f[d][h]
  BY DEF Counters
<1>2. Counted(k).expire = IF k.n = 0 THEN now + FailTime ELSE k.expire
  BY CountedType
<1>3. CASE k.n = 0
  BY <1>1, <1>2, <1>3, TimeTypes
<1>4. CASE k.n # 0
  <2>1. k.n > 0
    BY <1>4, LimitAssumption DEF Counter
  <2> QED BY <1>1, <1>2, <1>4, <2>1 DEF Fresh
<1> QED BY <1>3, <1>4

\* One counter is set, to a fresh one if it is of the profile e.
LEMMA SetIsFresh ==
  ASSUME NEW f \in Counters, NEW t, NEW e \in Profile, Fresh(f, t, e),
         NEW d \in Profile, NEW h \in Host, NEW k, d = e /\ k.n > 0 => t < k.expire
  PROVE  Fresh([f EXCEPT ![d][h] = k], t, e)
<1>1. ASSUME NEW g \in Host
      PROVE  [f EXCEPT ![d][h] = k][e][g] = IF e = d /\ g = h THEN k ELSE f[e][g]
  BY DEF Counters
<1> QED BY <1>1 DEF Fresh

LEMMA ClearIsFresh ==
  ASSUME NEW f \in Counters, NEW t, NEW e \in Profile, Fresh(f, t, e), NEW d \in Profile, NEW h \in Host
  PROVE  Fresh([f EXCEPT ![d][h] = NoCounter], t, e)
<1>1. NoCounter.n > 0 => t < NoCounter.expire
  BY DEF NoCounter
<1> QED BY <1>1, SetIsFresh

LEMMA LoadWithin ==
  ASSUME TypeInv, NEW p \in Proc, NEW j \in Job, j.why \in {"check", "recheck"} => j.host \in Host,
         NEW e, j.why = "recheck" /\ j.d = e => j.at < j.expire,
         NEW cs, Leaves(p, cs), Load(p, j, cs)
  PROVE  JobWithin(job'[p], e)
<1>1. CASE UpToDate(p)
  <2>1. PICK list \in Memory : list = NonEmpty(mem[p]) /\ list # {}
    BY ListTypes
  <2>2. PICK x \in [Proc -> Conns] : x = cs
    BY DEF Leaves
  <2>3. Loaded_(p, j, list, x)
    BY <1>1, <2>1, <2>2 DEF Load
  <2>4. PICK m \in Memory, k \in Job : GoesOn(p, j, list, x, m, k)
    BY <2>1, <2>3, LoadedEffect
  <2>5. job'[p] = k
    BY <2>4, Parts DEF ListsShaped, GoesOn
  <2>6. CASE k = Idle
    BY <2>5, <2>6, IdleType DEF JobWithin
  <2>7. CASE k = [j EXCEPT !.step = "append"] /\ j.why = "recheck"
    <3>1. k.at = j.at /\ k.expire = j.expire /\ k.d = j.d
      BY <2>7 DEF Job
    <3> QED BY <2>5, <2>7, <3>1 DEF JobWithin
  <2> QED BY <2>4, <2>6, <2>7 DEF GoesOn
<1>2. CASE ~UpToDate(p)
  <2>1. PICK g \in Sig : g = SigOf(file)
    BY ListTypes
  <2> DEFINE k == [j EXCEPT !.step = "read", !.seen = g]
  <2>2. k.at = j.at /\ k.expire = j.expire /\ k.why = j.why /\ k.d = j.d
    BY DEF Job
  <2>3. job' = [job EXCEPT ![p] = k]
    BY <1>2, <2>1 DEF Load
  <2> HIDE DEF k
  <2>4. job'[p] = k
    BY <2>3, Parts DEF ListsShaped
  <2> QED BY <2>2, <2>4 DEF JobWithin
<1> QED BY <1>1, <1>2

LEMMA LoadedJob ==
  ASSUME TypeInv, NEW p \in Proc, NEW j \in Job, NEW list \in Memory, list # {},
         j.why \in {"check", "recheck"} => j.host \in Host,
         NEW cs \in [Proc -> Conns],
         Loaded_(p, j, list, cs)
  PROVE  \/ job' = [job EXCEPT ![p] = Idle]
         \/ job' = [job EXCEPT ![p] = [j EXCEPT !.step = "append"]] /\ j.why = "recheck"
<1>1. PICK m \in Memory, k \in Job : GoesOn(p, j, list, cs, m, k)
  BY LoadedEffect
<1> QED BY <1>1 DEF GoesOn

LEMMA ReadWithin ==
  ASSUME TypeInv, NEW p \in Proc, Within(p), ReadList(p) \/ ReadFails(p)
  PROVE  JobWithin(job'[p], purger[p])
<1>1. PICK j \in Job : j = job[p] /\ Named(j) /\ j.step = "read" /\ JobWithin(j, purger[p])
  BY Parts DEF ListsTyped, Within, ReadList, ReadFails
<1>2. PICK k : /\ k = [j EXCEPT !.step = "append"]
               /\ k.at = j.at /\ k.expire = j.expire /\ k.why = j.why /\ k.d = j.d
  <2> DEFINE z == [j EXCEPT !.step = "append"]
  <2>1. z.at = j.at /\ z.expire = j.expire /\ z.why = j.why /\ z.d = j.d
    BY DEF Job
  <2> QED BY <2>1
<1>3. \/ job' = [job EXCEPT ![p] = k] /\ j.why = "recheck"
      \/ job' = [job EXCEPT ![p] = Idle]
      \/ job' = [job EXCEPT ![p] = [Idle EXCEPT !.step = "dead"]]
  <2>1. CASE ReadList(p)
    <3>1. PICK list \in Memory : list = Loaded(file) /\ list # {}
      BY ListTypes
    <3>2. PICK cs \in [Proc -> Conns] : cs = conn
      BY ConnsStay DEF Leaves
    <3>3. Loaded_(p, j, list, cs)
      BY <1>1, <2>1, <3>1, <3>2 DEF ReadList
    <3>4. j.why \in {"check", "recheck"} => j.host \in Host
      BY <1>1 DEF Named
    <3> QED BY <1>2, <3>1, <3>3, <3>4, LoadedJob
  <2>2. CASE ReadFails(p)
    <3>1. CASE j.why = "check"
      BY <1>1, <2>2, <3>1 DEF ReadFails
    <3>2. CASE j.why = "recheck"
      BY <1>1, <1>2, <2>2, <3>2 DEF ReadFails
    <3>3. CASE j.why \notin {"check", "recheck"}
      BY <1>1, <2>2, <3>3 DEF ReadFails
    <3> QED BY <3>1, <3>2, <3>3
  <2> QED BY <2>1, <2>2
<1>4. CASE job' = [job EXCEPT ![p] = k] /\ j.why = "recheck"
  <2>1. job'[p] = k
    BY <1>4, Parts DEF ListsShaped
  <2> QED BY <1>1, <1>2, <1>4, <2>1 DEF JobWithin
<1>5. CASE job' = [job EXCEPT ![p] = Idle]
  <2>1. job'[p].step = "idle"
    BY <1>5, IdleType, Parts DEF ListsShaped
  <2> QED BY <2>1 DEF JobWithin
<1>6. CASE job' = [job EXCEPT ![p] = [Idle EXCEPT !.step = "dead"]]
  <2>1. job'[p].step = "dead"
    BY <1>6, IdleType, Parts DEF ListsShaped, Step
  <2> QED BY <2>1 DEF JobWithin
<1> QED BY <1>3, <1>4, <1>5, <1>6

LEMMA EventWithin ==
  ASSUME TypeInv, NEW p \in Proc, Within(p),
         NEW d \in Profile, NEW s \in Slot, Watching(p, d, s),
         NEW c \in Watched, c.ah => c.host \in Host, Event(p, d, s, c)
  PROVE  Within(p)'
<1>1. conn[p][d][s].ah
  BY DEF Watching
<1>2. PICK cs : cs = [conn EXCEPT ![p][d][s] = c]
  OBVIOUS
<1>3. Leaves(p, cs)
  BY <1>2, ConnLeaves
<1>4. PICK e \in Profile : e = Purger(p, d)
  BY PurgerType DEF Event
<1>5. purged'[p] = now /\ purger'[p] = e /\ now' = now /\ now \in Nat
  BY <1>4, PurgerType DEF Event
<1>6. SUFFICES Fresh(fails'[p], now, e) /\ JobWithin(job'[p], e)
  BY <1>5 DEF Within
<1>7. PICK f \in Counters : f = Purged(p, d) /\ Fresh(f, now, e)
  BY <1>4, PurgedType, PurgedIsFresh
\* The handler begins with nothing to do.
<1>8. job' = job => JobWithin(job'[p], e)
  BY DEF Watching, IsIdle, JobWithin
<1>9. CASE conn[p][d][s].cutoff
  <2>1. OnlyPurge(p, d, cs)
    BY <1>2, <1>9 DEF Event
  <2>2. fails'[p] = f
    BY <1>7, <2>1, Parts DEF OnlyPurge, CountsShaped
  <2> QED BY <1>7, <1>8, <2>1, <2>2 DEF OnlyPurge
<1>10. CASE ~conn[p][d][s].cutoff
  <2>1. Failed(p, d, s, cs)
    BY <1>2, <1>10 DEF Event
  <2>2. PICK h \in Host, k \in [n : Nat, expire : Nat] : Fails(p, d, cs, f, h, k)
    BY <1>1, <1>3, <1>7, <2>1, FailedEffect DEF Fails
  <2>3. d = e => now < k.expire
    BY <1>7, <2>2, CountedIsFresh DEF Fails
  <2>4. CASE fails' = [fails EXCEPT ![p] = [f EXCEPT ![d][h] = k]] /\ UNCHANGED job
    <3>1. Fresh([f EXCEPT ![d][h] = k], now, e)
      BY <1>7, <2>3, SetIsFresh
    <3>2. fails'[p] = [f EXCEPT ![d][h] = k]
      BY <2>4, Parts DEF CountsShaped
    <3> QED BY <1>8, <2>4, <3>1, <3>2
  <2>5. ASSUME NEW j \in Job, fails' = [fails EXCEPT ![p] = [f EXCEPT ![d][h] = NoCounter]],
               j.host = h, j.expire = k.expire, j.at = now, j.d = d, Load(p, j, cs)
        PROVE  Fresh(fails'[p], now, e) /\ JobWithin(job'[p], e)
    <3>1. Fresh([f EXCEPT ![d][h] = NoCounter], now, e)
      BY <1>7, ClearIsFresh
    <3>2. fails'[p] = [f EXCEPT ![d][h] = NoCounter]
      BY <2>5, Parts DEF CountsShaped
    <3>3. j.why = "recheck" /\ j.d = e => j.at < j.expire
      BY <2>3, <2>5
    <3>4. JobWithin(job'[p], e)
      BY <1>3, <2>5, <3>3, LoadWithin
    <3> QED BY <3>1, <3>2, <3>4
  <2> QED BY <2>2, <2>4, <2>5 DEF Fails
<1> QED BY <1>9, <1>10

LEMMA ConnectionWithin ==
  ASSUME TypeInv, NEW p \in Proc, NEW d \in Profile, NEW s \in Slot, Within(p),
         RstIn(p, d, s) \/ HupOut(p, d, s) \/ RedirectIn(p, d, s) \/ ReplyIn(p, d, s) \/ Close(p, d, s)
  PROVE  Within(p)'
<1>1. PICK c, up, cut \in Watched :
        /\ c = conn[p][d][s] /\ (c.ah => c.host \in Host)
        /\ up = [c EXCEPT !.hup = TRUE] /\ SameWatch(c, up)
        /\ cut = [c EXCEPT !.cutoff = TRUE] /\ SameWatch(c, cut)
  BY WatchedFacts
<1>2. CASE RstIn(p, d, s)
  BY <1>2, NoConnectionType, EventWithin DEF RstIn
<1>3. CASE HupOut(p, d, s)
  <2>1. Watching(p, d, s) /\ Event(p, d, s, up)
    BY <1>1, <1>3 DEF HupOut
  <2> QED BY <1>1, <2>1, EventWithin DEF SameWatch
<1>4. CASE RedirectIn(p, d, s)
  <2>1. Watching(p, d, s) /\ Event(p, d, s, cut)
    BY <1>1, <1>4 DEF RedirectIn
  <2> QED BY <1>1, <2>1, EventWithin DEF SameWatch
<1>5. CASE ReplyIn(p, d, s)
  <2>1. PICK e \in Profile, f \in Counters :
          e = Purger(p, d) /\ f = Purged(p, d) /\ Fresh(f, now, e)
    BY <1>5, PurgedType, PurgedIsFresh, PurgerType DEF ReplyIn
  <2>2. PICK h \in Host : h = conn[p][d][s].host
    BY <1>1, <1>5 DEF ReplyIn, Watching
  <2>3. fails' = [fails EXCEPT ![p] = [f EXCEPT ![d][h] = NoCounter]]
    BY <1>5, <2>1, <2>2 DEF ReplyIn
  <2>4. fails'[p] = [f EXCEPT ![d][h] = NoCounter]
    BY <2>3, Parts DEF CountsShaped
  <2>5. Fresh([f EXCEPT ![d][h] = NoCounter], now, e)
    BY <2>1, ClearIsFresh
  <2>6. purged'[p] = now /\ purger'[p] = e /\ now' = now /\ now \in Nat
    BY <1>5, <2>1, PurgerType DEF ReplyIn
  <2>7. JobWithin(job'[p], e)
    BY <1>5 DEF ReplyIn, Watching, IsIdle, JobWithin
  <2> QED BY <2>4, <2>5, <2>6, <2>7 DEF Within
<1>6. CASE Close(p, d, s)
  <2>1. UNCHANGED <<now, fails, purged, purger, job>>
    BY <1>6 DEF Close
  <2> QED BY <2>1 DEF Within
<1> QED BY <1>2, <1>3, <1>4, <1>5, <1>6

LEMMA RequestWithin ==
  ASSUME TypeInv, NEW p \in Proc, NEW d \in Profile, NEW s \in Slot, NEW h \in Host,
         Within(p), Request(p, d, s, h)
  PROVE  Within(p)'
<1>1. PICK j \in Job :
        /\ j = [Idle EXCEPT !.why = "check", !.d = d, !.s = s, !.host = h]
        /\ j.host = h /\ j.why = "check"
  <2> DEFINE z == [Idle EXCEPT !.why = "check", !.d = d, !.s = s, !.host = h]
  <2>1. z \in Job /\ z.host = h /\ z.why = "check"
    BY IdleType DEF Job, Why
  <2> QED BY <2>1
<1>2. PICK cs : cs = conn
  OBVIOUS
<1>3. Leaves(p, cs)
  BY <1>2, ConnsStay
<1>4. Load(p, j, cs) /\ UNCHANGED <<now, fails, purged, purger>>
  BY <1>1, <1>2 DEF Request
<1>5. JobWithin(job'[p], purger[p])
  BY <1>1, <1>3, <1>4, LoadWithin
<1> QED BY <1>4, <1>5 DEF Within

\* The steps that leave the counters alone and end or go on with no recheck.
LEMMA JobOnlyWithin ==
  ASSUME TypeInv, NEW p \in Proc, Within(p),
         AppendHost(p) \/ SignList(p) \/ Reload(p) \/ Die(p)
  PROVE  Within(p)'
<1>1. UNCHANGED <<now, fails, purged, purger>>
  BY DEF AppendHost, SignList, Reload, Die
<1>2. job[p] \in Job /\ JobWithin(job[p], purger[p])
  BY Parts DEF ListsTyped, Within
<1>3. CASE AppendHost(p)
  <2>1. job' = [job EXCEPT ![p].step = "sign"] \/ job' = [job EXCEPT ![p] = Idle]
    BY <1>3 DEF AppendHost
  <2>2. job'[p].step \in {"sign", "idle"}
    BY <1>2, <2>1, IdleType, Parts DEF ListsShaped, Job
  <2> QED BY <1>1, <2>2 DEF Within, JobWithin
<1>4. CASE SignList(p)
  <2>1. job'[p].step = "idle"
    BY <1>4, IdleType, Parts DEF SignList, ListsShaped
  <2> QED BY <1>1, <2>1 DEF Within, JobWithin
<1>5. CASE Reload(p)
  <2>1. PICK g \in Sig : g = SigOf(file)
    BY ListTypes
  <2> DEFINE k == [Idle EXCEPT !.step = "read", !.why = "hup", !.seen = g]
  <2>2. job' = [job EXCEPT ![p] = k] \/ job' = job
    BY <1>5, <2>1 DEF Reload
  <2>3. k.why = "hup"
    BY IdleType DEF Job
  <2> HIDE DEF k
  <2>4. job'[p] = k \/ job'[p] = job[p]
    BY <2>2, Parts DEF ListsShaped
  <2> QED BY <1>1, <1>2, <2>3, <2>4 DEF Within, JobWithin
<1>6. CASE Die(p)
  <2>1. job'[p].step = "dead"
    BY <1>6, IdleType, Parts DEF Die, ListsShaped, Step
  <2> QED BY <1>1, <2>1 DEF Within, JobWithin
<1> QED BY <1>3, <1>4, <1>5, <1>6

LEMMA StartWithin ==
  ASSUME TypeInv, NEW p \in Proc, Start(p)
  PROVE  Within(p)'
<1>1. PICK f \in FileState : f = IF file.there THEN file ELSE Written(TRUE, {})
  BY WrittenType DEF TypeInv, TypeOK
<1>2. PICK g \in Sig : g = SigOf(f)
  BY DEF SigOf, Sig, FileState
<1> DEFINE k == [Idle EXCEPT !.step = "read", !.seen = g]
<1>3. job' = [job EXCEPT ![p] = k] /\ purged' = [purged EXCEPT ![p] = -1] /\ now' = now
  BY <1>1, <1>2 DEF Start
<1>4. k.why = "start"
  BY DEF Idle
<1> HIDE DEF k
<1>5. job'[p] = k /\ purged'[p] = -1
  BY <1>3, Parts DEF ListsShaped, CountsShaped
<1> QED BY <1>3, <1>4, <1>5, TimeTypes DEF Within, JobWithin

LEMMA ProcessNow ==
  ASSUME TypeInv, NEW p \in Proc, Process(p)
  PROVE  now' = now
<1>1. ASSUME NEW d \in Profile, NEW s \in Slot,
             (\E h \in Host : Request(p, d, s, h)) \/ RstIn(p, d, s) \/ HupOut(p, d, s)
               \/ RedirectIn(p, d, s) \/ ReplyIn(p, d, s) \/ Close(p, d, s)
      PROVE  now' = now
  BY <1>1 DEF Request, RstIn, HupOut, RedirectIn, Event, ReplyIn, Close
<1>2. CASE ReadList(p) \/ ReadFails(p) \/ AppendHost(p) \/ SignList(p) \/ Reload(p) \/ Die(p) \/ Start(p)
  BY <1>2 DEF ReadList, ReadFails, AppendHost, SignList, Reload, Die, Start
<1> QED BY <1>1, <1>2, ProcessActs DEF Acts

LEMMA OwnWithin ==
  ASSUME TypeInv, NEW p \in Proc, Within(p), Process(p)
  PROVE  Within(p)'
<1>1. CASE ReadList(p) \/ ReadFails(p)
  <2>1. UNCHANGED <<now, fails, purged, purger>>
    BY <1>1 DEF ReadList, ReadFails
  <2>2. JobWithin(job'[p], purger[p])
    BY <1>1, ReadWithin
  <2> QED BY <2>1, <2>2 DEF Within
<1>2. CASE AppendHost(p) \/ SignList(p) \/ Reload(p) \/ Die(p)
  BY <1>2, JobOnlyWithin
<1>3. CASE Start(p)
  BY <1>3, StartWithin
<1>4. ASSUME NEW d \in Profile, NEW s \in Slot, NEW h \in Host, Request(p, d, s, h)
      PROVE  Within(p)'
  BY <1>4, RequestWithin
<1>5. ASSUME NEW d \in Profile, NEW s \in Slot,
             RstIn(p, d, s) \/ HupOut(p, d, s) \/ RedirectIn(p, d, s) \/ ReplyIn(p, d, s) \/ Close(p, d, s)
      PROVE  Within(p)'
  BY <1>5, ConnectionWithin
<1> QED BY <1>1, <1>2, <1>3, <1>4, <1>5, ProcessActs DEF Acts

LEMMA WithinInit == Init => \A p \in Proc : Within(p)
<1> SUFFICES ASSUME Init, NEW p \in Proc PROVE Within(p)
  OBVIOUS
<1>1. now = 0 /\ purged[p] = -1 /\ job[p].step = "idle"
  BY IdleType DEF Init
<1> QED BY <1>1 DEF Within, JobWithin

LEMMA WithinStep ==
  TypeInv /\ (\A p \in Proc : Within(p)) /\ [Next]_vars => (\A p \in Proc : Within(p))'
<1> SUFFICES ASSUME TypeInv, \A p \in Proc : Within(p), [Next]_vars, NEW q \in Proc
             PROVE  Within(q)'
  OBVIOUS
<1>1. now \in Nat /\ purged[q] \in Nat \cup {-1}
  BY TimeTypes, Parts DEF CountsTyped
<1>2. CASE Tick
  <2>1. now' = now + 1 /\ UNCHANGED <<fails, purged, purger, job>>
    BY <1>2 DEF Tick
  <2>2. purged[q] <= now /\ JobWithin(job[q], purger[q])
    BY DEF Within
  <2>3. purged'[q] <= now' /\ purged'[q] # now'
    BY <1>1, <2>1, <2>2
  <2> QED BY <2>1, <2>2, <2>3 DEF Within
<1>3. CASE EditFile \/ UNCHANGED vars
  <2>1. UNCHANGED <<now, fails, purged, purger, job>>
    BY <1>3 DEF EditFile, vars
  <2> QED BY <2>1 DEF Within
<1>4. ASSUME NEW p \in Proc, Process(p) PROVE Within(q)'
  <2>1. CASE q = p
    BY <1>4, <2>1, OwnWithin
  <2>2. CASE q # p
    <3>1. job'[q] = job[q] /\ fails'[q] = fails[q] /\ purged'[q] = purged[q] /\ purger'[q] = purger[q]
      BY <1>4, <2>2, ProcessStep DEF ListsStep, ListsOf, CountsStep, CountsOf
    <3>2. now' = now
      BY <1>4, ProcessNow
    <3> QED BY <3>1, <3>2 DEF Within
  <2> QED BY <2>1, <2>2
<1> QED BY <1>2, <1>3, <1>4 DEF Next

\* The failures that make a host one to add are within fail_time, as tpws.c:253 says, when the
\* host's profile is the one whose event came first in the second of the last failure, however
\* many profiles and processes there are: the counter that reaches the threshold has been
\* looked at by that second's purge, or begun after it (pools.c:115-125).
THEOREM FailuresAreRecent == Spec => []FailuresWithinTime
<1>1. TypeInv /\ (\A p \in Proc : Within(p)) /\ [Next]_vars => (\A p \in Proc : Within(p))'
  BY WithinStep
<1>2. (\A p \in Proc : Within(p)) => FailuresWithinTime
  BY DEF Within, JobWithin, FailuresWithinTime
<1> QED BY <1>1, <1>2, TypeInit, TypeStep, WithinInit, PTL DEF Spec
=============================================================================
