------------------------ MODULE ZapretControlProofs -------------------------
(***************************************************************************)
(* Proofs about ZapretControl: its types, that the switch holds, and that  *)
(* a tpws that runs has the config in place.  The argument is about what   *)
(* the scripts have still to do: every command that turns something off is *)
(* followed, in a script that turns Zapret on, by the one that turns it on *)
(* again, and every one that writes the config by one that ends the job.   *)
(***************************************************************************)
EXTENDS ZapretControl, TLAPS

Elems(s) == {s[i] : i \in 1 .. Len(s)}

\* Whenever s still contains x, y comes later.
Followed(s, x, y) == \A i \in 1 .. Len(s) : s[i] = x => \E j \in i + 1 .. Len(s) : s[j] = y

-----------------------------------------------------------------------------
(* What is left of a script after a step, and scripts put together.        *)

LEMMA TailFacts ==
  ASSUME NEW S, NEW s \in Seq(S), s # <<>>
  PROVE  /\ Tail(s) \in Seq(S) /\ Head(s) \in S
         /\ Elems(s) = {Head(s)} \cup Elems(Tail(s))
         /\ Len(Tail(s)) = Len(s) - 1 /\ Len(s) \in Nat \ {0}
<1> DEFINE u == Tail(s)
<1>1. /\ u \in Seq(S) /\ Len(u) = Len(s) - 1 /\ Len(s) \in Nat \ {0}
      /\ Head(s) = s[1] /\ s[1] \in S
  OBVIOUS
<1>2. \A k \in 1 .. Len(s) - 1 : u[k] = s[k + 1]
  OBVIOUS
<1> HIDE DEF u
<1>3. ASSUME NEW x \in Elems(s) PROVE x \in {s[1]} \cup Elems(u)
  <2>1. PICK k \in 1 .. Len(s) : x = s[k]
    BY <1>3 DEF Elems
  <2>2. CASE k = 1
    BY <2>1, <2>2
  <2>3. CASE k # 1
    <3>1. k - 1 \in 1 .. Len(u) /\ u[k - 1] = x
      BY <1>1, <1>2, <2>1, <2>3
    <3> QED BY <3>1 DEF Elems
  <2> QED BY <2>2, <2>3
<1>4. ASSUME NEW x \in {s[1]} \cup Elems(u) PROVE x \in Elems(s)
  <2>1. CASE x = s[1]
    BY <1>1, <2>1 DEF Elems
  <2>2. CASE x \in Elems(u)
    <3>1. PICK k \in 1 .. Len(u) : x = u[k]
      BY <2>2 DEF Elems
    <3>2. k + 1 \in 1 .. Len(s) /\ s[k + 1] = x
      BY <1>1, <1>2, <3>1
    <3> QED BY <3>2 DEF Elems
  <2> QED BY <1>4, <2>1, <2>2
<1> QED BY <1>1, <1>3, <1>4 DEF u

LEMMA ConcatFacts ==
  ASSUME NEW S, NEW a \in Seq(S), NEW b \in Seq(S)
  PROVE  a \o b \in Seq(S) /\ Elems(a \o b) = Elems(a) \cup Elems(b)
<1> DEFINE c == a \o b
<1>1. c \in Seq(S) /\ Len(c) = Len(a) + Len(b) /\ Len(a) \in Nat /\ Len(b) \in Nat
  OBVIOUS
<1>2. \A k \in 1 .. Len(a) : c[k] = a[k]
  OBVIOUS
<1>3. \A k \in 1 .. Len(b) : c[Len(a) + k] = b[k]
  OBVIOUS
<1> HIDE DEF c
<1>4. ASSUME NEW x \in Elems(c) PROVE x \in Elems(a) \cup Elems(b)
  <2>1. PICK k \in 1 .. Len(c) : x = c[k]
    BY <1>4 DEF Elems
  <2>2. CASE k \in 1 .. Len(a)
    BY <1>2, <2>1, <2>2 DEF Elems
  <2>3. CASE k > Len(a)
    <3>1. k - Len(a) \in 1 .. Len(b) /\ Len(a) + (k - Len(a)) = k
      BY <1>1, <2>1, <2>3
    <3>2. b[k - Len(a)] = x
      BY <1>3, <2>1, <3>1
    <3> QED BY <3>1, <3>2 DEF Elems
  <2> QED BY <1>1, <2>1, <2>2, <2>3
<1>5. ASSUME NEW x \in Elems(a) PROVE x \in Elems(c)
  <2>1. PICK k \in 1 .. Len(a) : x = a[k]
    BY <1>5 DEF Elems
  <2>2. k \in 1 .. Len(c)
    BY <1>1, <2>1
  <2> QED BY <1>2, <2>1, <2>2 DEF Elems
<1>6. ASSUME NEW x \in Elems(b) PROVE x \in Elems(c)
  <2>1. PICK k \in 1 .. Len(b) : x = b[k]
    BY <1>6 DEF Elems
  <2>2. Len(a) + k \in 1 .. Len(c)
    BY <1>1, <2>1
  <2> QED BY <1>3, <2>1, <2>2 DEF Elems
<1> QED BY <1>1, <1>4, <1>5, <1>6 DEF c

LEMMA FollowedTail ==
  ASSUME NEW S, NEW s \in Seq(S), s # <<>>, NEW x, NEW y, Followed(s, x, y)
  PROVE  Followed(Tail(s), x, y) /\ (Head(s) = x => y \in Elems(Tail(s)))
<1> DEFINE u == Tail(s)
<1>1. Len(u) = Len(s) - 1 /\ Len(s) \in Nat \ {0} /\ Head(s) = s[1]
  OBVIOUS
<1>2. \A k \in 1 .. Len(s) - 1 : u[k] = s[k + 1]
  OBVIOUS
<1> HIDE DEF u
<1>3. ASSUME NEW i \in 1 .. Len(s), s[i] = x
      PROVE  \E j \in i .. Len(u) : u[j] = y /\ j \in 1 .. Len(u)
  <2>1. PICK j \in i + 1 .. Len(s) : s[j] = y
    BY <1>3 DEF Followed
  <2>2. j - 1 \in i .. Len(u) /\ j - 1 \in 1 .. Len(s) - 1 /\ (j - 1) + 1 = j
    BY <1>1, <2>1
  <2> QED BY <1>1, <1>2, <2>1, <2>2
<1>4. Followed(u, x, y)
  <2> SUFFICES ASSUME NEW i \in 1 .. Len(u), u[i] = x
               PROVE  \E j \in i + 1 .. Len(u) : u[j] = y
    BY DEF Followed
  <2>1. i + 1 \in 1 .. Len(s) /\ s[i + 1] = x
    BY <1>1, <1>2
  <2> QED BY <1>3, <2>1
<1>5. s[1] = x => y \in Elems(u)
  BY <1>1, <1>3 DEF Elems
<1> QED BY <1>1, <1>4, <1>5 DEF u

LEMMA FollowedConcat ==
  ASSUME NEW S, NEW a \in Seq(S), NEW b \in Seq(S), NEW x, NEW y,
         Followed(a, x, y) \/ y \in Elems(b), Followed(b, x, y)
  PROVE  Followed(a \o b, x, y)
<1> DEFINE c == a \o b
<1>1. Len(c) = Len(a) + Len(b) /\ Len(a) \in Nat /\ Len(b) \in Nat
  OBVIOUS
<1>2. \A k \in 1 .. Len(a) : c[k] = a[k]
  OBVIOUS
<1>3. \A k \in 1 .. Len(b) : c[Len(a) + k] = b[k]
  OBVIOUS
<1> HIDE DEF c
<1> SUFFICES ASSUME NEW i \in 1 .. Len(c), c[i] = x
             PROVE  \E j \in i + 1 .. Len(c) : c[j] = y
  BY DEF c, Followed
<1>4. CASE i \in 1 .. Len(a)
  <2>1. CASE Followed(a, x, y)
    <3>1. PICK j \in i + 1 .. Len(a) : a[j] = y
      BY <1>2, <1>4, <2>1 DEF Followed
    <3>2. j \in 1 .. Len(a) /\ j \in i + 1 .. Len(c)
      BY <1>1, <1>4, <3>1
    <3> QED BY <1>2, <3>1, <3>2
  <2>2. CASE y \in Elems(b)
    <3>1. PICK k \in 1 .. Len(b) : b[k] = y
      BY <2>2 DEF Elems
    <3>2. Len(a) + k \in i + 1 .. Len(c)
      BY <1>1, <1>4, <3>1
    <3> QED BY <1>3, <3>1, <3>2
  <2> QED BY <2>1, <2>2
<1>5. CASE i > Len(a)
  <2>1. i - Len(a) \in 1 .. Len(b) /\ Len(a) + (i - Len(a)) = i
    BY <1>1, <1>5
  <2>2. b[i - Len(a)] = x
    BY <1>3, <2>1
  <2>3. PICK j \in (i - Len(a)) + 1 .. Len(b) : b[j] = y
    BY <2>1, <2>2 DEF Followed
  <2>4. j \in 1 .. Len(b) /\ Len(a) + j \in i + 1 .. Len(c)
    BY <1>1, <2>1, <2>3
  <2> QED BY <1>3, <2>3, <2>4
<1> QED BY <1>1, <1>4, <1>5

-----------------------------------------------------------------------------
(* The scripts.                                                            *)

\* What a script turns off it turns on again afterwards.
Closed(s) ==
  /\ Followed(s, "desired-off", "desired-on")
  /\ Followed(s, "stop-fw", "start-fw")
  /\ Followed(s, "bootout", "bootstrap")

\* What a script writes to the config is followed by the end of the job.
Writers == {"sync", "mode-write", "config-write"}
Reloads(s) == \A w \in Writers : Followed(s, w, "bootout")

OnSteps == {"desired-on", "start-fw", "bootstrap", "ensure", "trial", "judge"}
OffSteps == {"desired-off", "bootout", "stop-fw"}

\* What turns on contains all of this; what turns off, nothing but this.
TurnsAllOn(s) == {"desired-on", "start-fw", "bootstrap"} \subseteq Elems(s)
TurnsAllOff(s) == OffSteps \subseteq Elems(s)
PureOff(s) == Elems(s) \subseteq OffSteps \cup {"kill"}

LEMMA ClosedParts ==
  /\ \A s \in Seq(Step) : s # <<>> /\ Closed(s) => Closed(Tail(s))
  /\ \A a, b \in Seq(Step) : Closed(a) /\ Closed(b) => Closed(a \o b)
  /\ \A a, b \in Seq(Step) : TurnsAllOn(b) /\ Closed(b) => Closed(a \o b)
<1>1. \A s \in Seq(Step) : s # <<>> /\ Closed(s) => Closed(Tail(s))
  BY FollowedTail DEF Closed
<1>2. \A a, b \in Seq(Step) : Closed(a) /\ Closed(b) => Closed(a \o b)
  BY FollowedConcat DEF Closed
<1>3. \A a, b \in Seq(Step) : TurnsAllOn(b) /\ Closed(b) => Closed(a \o b)
  BY FollowedConcat DEF Closed, TurnsAllOn
<1> QED BY <1>1, <1>2, <1>3

LEMMA ReloadsParts ==
  /\ \A s \in Seq(Step) : s # <<>> /\ Reloads(s) =>
       Reloads(Tail(s)) /\ (Head(s) \in Writers => "bootout" \in Elems(Tail(s)))
  /\ \A a, b \in Seq(Step) : Reloads(a) /\ Reloads(b) => Reloads(a \o b)
  /\ \A a, b \in Seq(Step) : "bootout" \in Elems(b) /\ Reloads(b) => Reloads(a \o b)
<1>1. \A s \in Seq(Step) : s # <<>> /\ Reloads(s) =>
       Reloads(Tail(s)) /\ (Head(s) \in Writers => "bootout" \in Elems(Tail(s)))
  BY FollowedTail DEF Reloads
<1>2. \A a, b \in Seq(Step) : Reloads(a) /\ Reloads(b) => Reloads(a \o b)
  BY FollowedConcat DEF Reloads
<1>3. \A a, b \in Seq(Step) : "bootout" \in Elems(b) /\ Reloads(b) => Reloads(a \o b)
  BY FollowedConcat DEF Reloads
<1> QED BY <1>1, <1>2, <1>3

LEMMA EmptyFacts == <<>> \in Seq(Step) /\ Elems(<<>>) = {} /\ Closed(<<>>) /\ Reloads(<<>>)
BY DEF Elems, Closed, Reloads, Followed

\* A single command that turns nothing off and does not write the config.
LEMMA OneFacts ==
  ASSUME NEW x \in Step
  PROVE  /\ <<x>> \in Seq(Step) /\ Elems(<<x>>) = {x}
         /\ x \notin OffSteps => Closed(<<x>>)
         /\ x \notin Writers => Reloads(<<x>>)
<1>1. <<x>> \in Seq(Step) /\ Len(<<x>>) = 1 /\ <<x>>[1] = x
  OBVIOUS
<1>2. Elems(<<x>>) = {x}
  BY <1>1 DEF Elems
<1> QED BY <1>1, <1>2 DEF Closed, Reloads, Followed, OffSteps

LEMMA ZapretStartFacts ==
  /\ ZapretStart \in Seq(Step) /\ Closed(ZapretStart) /\ Reloads(ZapretStart)
  /\ Elems(ZapretStart) = {"desired-on", "start-fw", "kill", "bootout", "bootstrap", "boot-load"}
<1> DEFINE s == ZapretStart
<1>1. /\ s \in Seq(Step) /\ Len(s) = 6
      /\ s[1] = "desired-on" /\ s[2] = "start-fw" /\ s[3] = "kill"
      /\ s[4] = "bootout" /\ s[5] = "bootstrap" /\ s[6] = "boot-load"
  BY DEF ZapretStart, Step
<1> HIDE DEF s
<1>2. \A i \in 1 .. 6 : i = 1 \/ i = 2 \/ i = 3 \/ i = 4 \/ i = 5 \/ i = 6
  OBVIOUS
<1>3. Elems(s) = {"desired-on", "start-fw", "kill", "bootout", "bootstrap", "boot-load"}
  BY <1>1, <1>2 DEF Elems
<1>4. Closed(s)
  BY <1>1, <1>2 DEF Closed, Followed
<1>5. Reloads(s)
  BY <1>1, <1>2 DEF Reloads, Followed, Writers
<1> QED BY <1>1, <1>3, <1>4, <1>5 DEF s

LEMMA RestartFacts ==
  /\ RestartKeepAlive \in Seq(Step) /\ Closed(RestartKeepAlive) /\ Reloads(RestartKeepAlive)
  /\ Elems(RestartKeepAlive) = {"stop-fw", "start-fw", "kill", "bootout", "bootstrap"}
<1> DEFINE s == RestartKeepAlive
<1>1. /\ s \in Seq(Step) /\ Len(s) = 5
      /\ s[1] = "stop-fw" /\ s[2] = "start-fw" /\ s[3] = "kill"
      /\ s[4] = "bootout" /\ s[5] = "bootstrap"
  BY DEF RestartKeepAlive, Step
<1> HIDE DEF s
<1>2. \A i \in 1 .. 5 : i = 1 \/ i = 2 \/ i = 3 \/ i = 4 \/ i = 5
  OBVIOUS
<1>3. Elems(s) = {"stop-fw", "start-fw", "kill", "bootout", "bootstrap"}
  BY <1>1, <1>2 DEF Elems
<1>4. Closed(s)
  BY <1>1, <1>2 DEF Closed, Followed
<1>5. Reloads(s)
  BY <1>1, <1>2 DEF Reloads, Followed, Writers
<1> QED BY <1>1, <1>3, <1>4, <1>5 DEF s

\* What zapret-boot.sh does when Zapret is on.
BootOn == <<"start-fw", "kill", "bootout", "bootstrap">>
LEMMA BootOnFacts ==
  /\ BootOn \in Seq(Step) /\ Closed(BootOn) /\ Reloads(BootOn)
  /\ Elems(BootOn) = {"start-fw", "kill", "bootout", "bootstrap"}
<1> DEFINE s == BootOn
<1>1. /\ s \in Seq(Step) /\ Len(s) = 4
      /\ s[1] = "start-fw" /\ s[2] = "kill" /\ s[3] = "bootout" /\ s[4] = "bootstrap"
  BY DEF BootOn, Step
<1> HIDE DEF s
<1>2. \A i \in 1 .. 4 : i = 1 \/ i = 2 \/ i = 3 \/ i = 4
  OBVIOUS
<1>3. Elems(s) = {"start-fw", "kill", "bootout", "bootstrap"}
  BY <1>1, <1>2 DEF Elems
<1>4. Closed(s)
  BY <1>1, <1>2 DEF Closed, Followed
<1>5. Reloads(s)
  BY <1>1, <1>2 DEF Reloads, Followed, Writers
<1> QED BY <1>1, <1>3, <1>4, <1>5 DEF s

LEMMA ZapretStopFacts ==
  /\ ZapretStop \in Seq(Step) /\ Reloads(ZapretStop)
  /\ Elems(ZapretStop) = {"desired-off", "bootout", "stop-fw", "kill"}
<1> DEFINE s == ZapretStop
<1>1. /\ s \in Seq(Step) /\ Len(s) = 4
      /\ s[1] = "desired-off" /\ s[2] = "bootout" /\ s[3] = "stop-fw" /\ s[4] = "kill"
  BY DEF ZapretStop, Step
<1> HIDE DEF s
<1>2. \A i \in 1 .. 4 : i = 1 \/ i = 2 \/ i = 3 \/ i = 4
  OBVIOUS
<1>3. Elems(s) = {"desired-off", "bootout", "stop-fw", "kill"}
  BY <1>1, <1>2 DEF Elems
<1>4. Reloads(s)
  BY <1>1, <1>2 DEF Reloads, Followed, Writers
<1> QED BY <1>1, <1>3, <1>4 DEF s

LEMMA StartScriptFacts ==
  /\ StartScript \in Seq(Step) /\ Closed(StartScript) /\ Reloads(StartScript)
  /\ TurnsAllOn(StartScript)
  /\ Elems(StartScript) = {"sync"} \cup Elems(ZapretStart)
<1> DEFINE a == <<"sync">>
<1>0. StartScript = a \o ZapretStart
  BY DEF StartScript
<1>1. "sync" \in Step /\ "sync" \notin OffSteps
  BY DEF Step, OffSteps
<1>2. a \in Seq(Step) /\ Elems(a) = {"sync"} /\ Closed(a)
  BY <1>1, OneFacts
<1> HIDE DEF a
<1>3. StartScript \in Seq(Step) /\ Elems(StartScript) = {"sync"} \cup Elems(ZapretStart)
  BY <1>0, <1>2, ZapretStartFacts, ConcatFacts
<1>4. Closed(StartScript) /\ Reloads(StartScript)
  BY <1>0, <1>2, ZapretStartFacts, ClosedParts, ReloadsParts
<1> QED BY <1>3, <1>4, ZapretStartFacts DEF TurnsAllOn

LEMMA SetModeScriptFacts ==
  /\ SetModeScript \in Seq(Step) /\ Closed(SetModeScript) /\ Reloads(SetModeScript)
  /\ TurnsAllOn(SetModeScript)
  /\ "boot-check" \notin Elems(SetModeScript) /\ "trial" \notin Elems(SetModeScript)
  /\ "judge" \notin Elems(SetModeScript)
<1> DEFINE s == <<"mode-read", "mode-write", "mode-mirror", "kill", "bootout", "bootstrap",
                  "desired-on">>
<1>1. /\ s \in Seq(Step) /\ Len(s) = 7
      /\ s[1] = "mode-read" /\ s[2] = "mode-write" /\ s[3] = "mode-mirror" /\ s[4] = "kill"
      /\ s[5] = "bootout" /\ s[6] = "bootstrap" /\ s[7] = "desired-on"
  BY DEF Step
<1>0. SetModeScript = s \o StartScript
  BY DEF SetModeScript
<1> HIDE DEF s
<1>2. \A i \in 1 .. 7 : i = 1 \/ i = 2 \/ i = 3 \/ i = 4 \/ i = 5 \/ i = 6 \/ i = 7
  OBVIOUS
<1>3. Elems(s) = {"mode-read", "mode-write", "mode-mirror", "kill", "bootout", "bootstrap",
                  "desired-on"}
  BY <1>1, <1>2 DEF Elems
<1>4. SetModeScript \in Seq(Step) /\ Elems(SetModeScript) = Elems(s) \cup Elems(StartScript)
  BY <1>0, <1>1, StartScriptFacts, ConcatFacts
<1>5. Closed(SetModeScript) /\ Reloads(SetModeScript)
  BY <1>0, <1>1, StartScriptFacts, ZapretStartFacts, ClosedParts, ReloadsParts
<1>6. Elems(StartScript) = {"sync", "desired-on", "start-fw", "kill", "bootout", "bootstrap",
                            "boot-load"}
  BY StartScriptFacts, ZapretStartFacts
<1>7. Elems(SetModeScript) =
        {"mode-read", "mode-write", "mode-mirror", "sync", "desired-on", "start-fw", "kill",
         "bootout", "bootstrap", "boot-load"}
  BY <1>3, <1>4, <1>6
<1> QED BY <1>4, <1>5, <1>7 DEF TurnsAllOn

\* What a session may begin: it turns everything on, turns everything off, or does neither.
Startable(c, s) ==
  /\ s \in Seq(Step)
  /\ Elems(s) \cap {"boot-check", "trial", "judge"} = {}
  /\ Elems(s) \cap {"mode-write", "mode-mirror"} # {} => c \in Mode
  /\ Closed(s) \/ PureOff(s)
  /\ \/ TurnsAllOn(s)
     \/ TurnsAllOff(s) /\ PureOff(s)
     \/ Elems(s) \cap (OnSteps \cup OffSteps) = {}
  /\ c # "lists" => Reloads(s)

LEMMA ScriptFacts ==
  ASSUME NEW c \in Commands
  PROVE  Startable(c, Script(c))
<1> DEFINE s == Script(c)
<1>1. c \in {"start", "stop", "restart", "lists", "net-probe", "net-apply"} \cup Mode
  BY CommandAssumption
<1>2. Elems(StartScript) = {"sync", "desired-on", "start-fw", "kill", "bootout", "bootstrap",
                            "boot-load"}
  BY StartScriptFacts, ZapretStartFacts
<1>3. CASE c = "start"
  <2>1. s = StartScript
    BY <1>3 DEF Script
  <2> QED BY <1>2, <2>1, StartScriptFacts DEF Startable
<1>4. CASE c = "stop"
  <2>1. s = ZapretStop
    BY <1>4 DEF Script
  <2> QED BY <2>1, ZapretStopFacts DEF Startable, PureOff, TurnsAllOff, OffSteps
<1>5. CASE c = "restart"
  <2>1. s = ZapretStop \o StartScript
    BY <1>5 DEF Script
  <2>2. s \in Seq(Step) /\ Elems(s) = Elems(ZapretStop) \cup Elems(StartScript)
    BY <2>1, ZapretStopFacts, StartScriptFacts, ConcatFacts
  <2>3. Closed(s) /\ Reloads(s)
    BY <2>1, ZapretStopFacts, StartScriptFacts, ClosedParts, ReloadsParts
  <2>4. Elems(s) = {"desired-off", "stop-fw", "sync", "desired-on", "start-fw", "kill", "bootout",
                    "bootstrap", "boot-load"}
    BY <1>2, <2>2, ZapretStopFacts
  <2> QED BY <2>2, <2>3, <2>4 DEF Startable, TurnsAllOn
<1>6. CASE c \in {"lists", "net-probe", "net-apply"}
  <2>1. PICK x \in {"sync", "probe", "apply"} : s = <<x>> /\ (x = "sync" <=> c = "lists")
    BY <1>6 DEF Script
  <2>2. /\ x \in Step /\ x \notin OffSteps \cup OnSteps /\ (c # "lists" => x \notin Writers)
        /\ x \notin {"boot-check", "trial", "judge", "mode-write", "mode-mirror"}
    BY <2>1 DEF Step, OffSteps, OnSteps, Writers
  <2>3. /\ s \in Seq(Step) /\ Elems(s) = {x} /\ Closed(s) /\ (x \notin Writers => Reloads(s))
    BY <2>1, <2>2, OneFacts
  <2> HIDE DEF s
  <2>4. Elems(s) \cap (OnSteps \cup OffSteps) = {}
    BY <2>2, <2>3
  <2>5. /\ Elems(s) \cap {"boot-check", "trial", "judge"} = {}
        /\ Elems(s) \cap {"mode-write", "mode-mirror"} = {}
    BY <2>2, <2>3
  <2>6. Startable(c, s)
    BY <2>2, <2>3, <2>4, <2>5 DEF Startable
  <2> QED BY <2>6 DEF s
<1>7. CASE c \in Mode
  <2>1. s = SetModeScript
    BY <1>7 DEF Script, Mode
  <2> QED BY <1>7, <2>1, SetModeScriptFacts DEF Startable
<1> QED BY <1>1, <1>3, <1>4, <1>5, <1>6, <1>7

-----------------------------------------------------------------------------
(* Types.                                                                  *)

\* Who changes the mode knows it, and who is in a trial has a strategy to try.
Known ==
  \A p \in Process :
    /\ Elems(todo[p]) \cap {"mode-write", "mode-mirror"} # {} => vars[p].cmd \in Mode
    /\ Elems(todo[p]) \cap {"trial", "judge"} # {} => vars[p].trial \in 1 .. Len(Trials)

Typed == TypeOK /\ Known

LEMMA TrialFacts ==
  /\ Len(Trials) \in Nat \ {0} /\ Default \in Strategy
  /\ \A k \in 1 .. Len(Trials) : Trials[k] \in Strategy
BY TrialsAssumption DEF Strategy, Default

LEMMA NoVarsType == net \in Net => NoVars \in Vars /\ NoConfig \in Config
<1> SUFFICES ASSUME net \in Net PROVE NoVars \in Vars /\ NoConfig \in Config
  OBVIOUS
<1>1. (CHOOSE n \in Net : TRUE) \in Net
  OBVIOUS
<1>2. NoConfig \in Config
  BY TrialFacts DEF NoConfig, Config, Mode
<1> QED BY <1>1, <1>2, TrialFacts DEF NoVars, Vars

\* A process that goes on with these commands and these variables.
LEMMA ContinueTyped ==
  ASSUME Typed, NEW p \in Process, NEW steps \in Seq(Step), NEW v \in Vars,
         Continue(p, steps, v),
         Elems(steps) \cap {"mode-write", "mode-mirror"} # {} => v.cmd \in Mode,
         Elems(steps) \cap {"trial", "judge"} # {} => v.trial \in 1 .. Len(Trials)
  PROVE  /\ todo' \in [Process -> Seq(Step)] /\ vars' \in [Process -> Vars]
         /\ raced' \in BOOLEAN /\ Known'
<1>1. todo' = [todo EXCEPT ![p] = steps]
      /\ vars' = [vars EXCEPT ![p] = IF steps = <<>> THEN NoVars ELSE v]
  BY DEF Continue
<1>2. /\ todo \in [Process -> Seq(Step)] /\ vars \in [Process -> Vars] /\ raced \in BOOLEAN
      /\ NoVars \in Vars
  BY NoVarsType DEF Typed, TypeOK
<1>3. raced' \in BOOLEAN
  BY <1>2 DEF Continue, Race, Conflict
<1>4. ASSUME NEW q \in Process
      PROVE  /\ Elems(todo'[q]) \cap {"mode-write", "mode-mirror"} # {} => vars'[q].cmd \in Mode
             /\ Elems(todo'[q]) \cap {"trial", "judge"} # {} =>
                  vars'[q].trial \in 1 .. Len(Trials)
  <2>1. CASE q # p
    <3>1. todo'[q] = todo[q] /\ vars'[q] = vars[q]
      BY <1>1, <1>2, <2>1
    <3> QED BY <3>1 DEF Typed, Known
  <2>2. CASE q = p /\ steps = <<>>
    <3>1. Elems(todo'[q]) = {}
      BY <1>1, <1>2, <2>2, EmptyFacts
    <3> QED BY <3>1
  <2>3. CASE q = p /\ steps # <<>>
    <3>1. todo'[q] = steps /\ vars'[q] = v
      BY <1>1, <1>2, <2>3
    <3> QED BY <3>1
  <2> QED BY <2>1, <2>2, <2>3
<1> QED BY <1>1, <1>2, <1>3, <1>4 DEF Known

\* A process that has done one command.
LEMMA DoneTyped ==
  ASSUME Typed, NEW p \in Process, ~Idle(p), Done(p)
  PROVE  /\ todo' \in [Process -> Seq(Step)] /\ vars' \in [Process -> Vars]
         /\ raced' \in BOOLEAN /\ Known'
<1>1. todo[p] \in Seq(Step) /\ todo[p] # <<>> /\ vars[p] \in Vars
  BY DEF Typed, TypeOK, Idle
<1>2. Tail(todo[p]) \in Seq(Step) /\ Elems(Tail(todo[p])) \subseteq Elems(todo[p])
  BY <1>1, TailFacts
<1>3. Continue(p, Tail(todo[p]), vars[p])
  BY DEF Done
<1>4. /\ Elems(todo[p]) \cap {"mode-write", "mode-mirror"} # {} => vars[p].cmd \in Mode
      /\ Elems(todo[p]) \cap {"trial", "judge"} # {} => vars[p].trial \in 1 .. Len(Trials)
  BY DEF Typed, Known
<1> QED BY <1>1, <1>2, <1>3, <1>4, ContinueTyped

\* The state that scripts do not share: what launchd, the files and the network may be.
Shared ==
  /\ desired \in {"on", "off"}
  /\ config \in Config /\ support \in Mode
  /\ profile \in [Net -> Strategy \cup {Nothing}]
  /\ last \in Net \cup {Nothing}
  /\ job \in BOOLEAN /\ tpws \in {"down", "starting", "up"} /\ runs \in Config
  /\ pf \in BOOLEAN
  /\ net \in Net /\ warp \in BOOLEAN

LEMMA TypeParts ==
  TypeOK <=> /\ Shared /\ raced \in BOOLEAN
             /\ todo \in [Process -> Seq(Step)] /\ vars \in [Process -> Vars]
BY DEF TypeOK, Shared

\* The commands that are followed by nothing but the rest of the script.
LEMMA SimpleTyped ==
  ASSUME Typed, NEW p \in Process,
         \/ DesiredOn(p) \/ DesiredOff(p) \/ StartFw(p) \/ StopFw(p) \/ Kill(p) \/ Bootout(p)
         \/ Bootstrap(p) \/ Sync(p) \/ ModeMirror(p) \/ SaveLastNet(p) \/ WriteProfile(p)
  PROVE  Typed'
<1>1. ~Idle(p) /\ Done(p)
  BY DEF DesiredOn, DesiredOff, StartFw, StopFw, Kill, Bootout, Bootstrap, Sync, ModeMirror,
         SaveLastNet, WriteProfile, At
<1>2. /\ todo' \in [Process -> Seq(Step)] /\ vars' \in [Process -> Vars]
      /\ raced' \in BOOLEAN /\ Known'
  BY <1>1, DoneTyped
<1>3. todo[p] \in Seq(Step) /\ todo[p] # <<>> /\ vars[p] \in Vars /\ Shared
  BY <1>1, TypeParts DEF Typed, TypeOK, Idle
<1>4. Head(todo[p]) \in Elems(todo[p])
  BY <1>3, TailFacts
<1>5. NoConfig \in Config /\ Default \in Strategy
  BY <1>3, NoVarsType, TrialFacts DEF Shared
<1>6. Shared'
  <2>1. CASE DesiredOn(p) \/ DesiredOff(p)
    BY <1>3, <2>1 DEF DesiredOn, DesiredOff, daemon, world, Shared
  <2>2. CASE StartFw(p) \/ StopFw(p)
    BY <1>3, <2>2 DEF StartFw, StopFw, daemon, world, files, Shared
  <2>3. CASE Kill(p) \/ Bootout(p) \/ Bootstrap(p)
    BY <1>3, <1>5, <2>3 DEF Kill, Bootout, Bootstrap, Exited, world, files, Shared
  <2>4. CASE Sync(p)
    BY <1>3, <1>5, <2>4 DEF Sync, daemon, world, Shared, Config
  <2>5. CASE ModeMirror(p)
    <3>1. vars[p].cmd \in Mode
      BY <1>4, <2>5 DEF Typed, Known, ModeMirror, At
    <3> QED BY <1>3, <2>5, <3>1 DEF ModeMirror, daemon, world, Shared
  <2>6. CASE SaveLastNet(p) \/ WriteProfile(p)
    <3>1. vars[p].id \in Net /\ vars[p].best \in Strategy
      BY <1>3 DEF Vars
    <3>2. CASE SaveLastNet(p)
      BY <1>3, <3>1, <3>2 DEF SaveLastNet, daemon, world, Shared
    <3>3. CASE WriteProfile(p)
      <4>1. profile' = [profile EXCEPT ![vars[p].id] = vars[p].best]
        BY <3>3 DEF WriteProfile
      <4>2. profile' \in [Net -> Strategy \cup {Nothing}]
        BY <1>3, <3>1, <4>1 DEF Shared
      <4>3. UNCHANGED <<desired, config, support, last, job, tpws, runs, pf, net, warp>>
        BY <3>3 DEF WriteProfile, daemon, world
      <4> QED BY <1>3, <4>2, <4>3 DEF Shared
    <3> QED BY <2>6, <3>2, <3>3
  <2> QED BY <2>1, <2>2, <2>3, <2>4, <2>5, <2>6
<1> QED BY <1>2, <1>6 DEF Typed, TypeOK, Shared

\* The commands of the config and of the mode.
LEMMA ConfigTyped ==
  ASSUME Typed, NEW p \in Process,
         ModeRead(p) \/ ModeWrite(p) \/ ConfigRead(p) \/ ConfigWrite(p)
  PROVE  Typed'
<1>1. todo[p] \in Seq(Step) /\ todo[p] # <<>> /\ vars[p] \in Vars /\ Shared
  BY TypeParts DEF Typed, TypeOK, Idle, ModeRead, ModeWrite, ConfigRead, ConfigWrite, At
<1>2. /\ Tail(todo[p]) \in Seq(Step) /\ Elems(Tail(todo[p])) \subseteq Elems(todo[p])
      /\ Head(todo[p]) \in Elems(todo[p])
  BY <1>1, TailFacts
<1>3. /\ Elems(todo[p]) \cap {"mode-write", "mode-mirror"} # {} => vars[p].cmd \in Mode
      /\ Elems(todo[p]) \cap {"trial", "judge"} # {} => vars[p].trial \in 1 .. Len(Trials)
  BY DEF Typed, Known
<1>4. NoConfig \in Config
  BY <1>1, NoVarsType DEF Shared
<1>5. PICK seen \in Config : Continue(p, Tail(todo[p]), [vars[p] EXCEPT !.seen = seen])
  BY <1>1, <1>4 DEF ModeRead, ModeWrite, ConfigRead, ConfigWrite, Shared
<1> DEFINE v == [vars[p] EXCEPT !.seen = seen]
<1>6. v \in Vars /\ v.cmd = vars[p].cmd /\ v.trial = vars[p].trial
  BY <1>1 DEF Vars
<1> HIDE DEF v
<1>7. /\ todo' \in [Process -> Seq(Step)] /\ vars' \in [Process -> Vars]
      /\ raced' \in BOOLEAN /\ Known'
  <2>1. Continue(p, Tail(todo[p]), v)
    BY <1>5 DEF v
  <2> QED BY <1>2, <1>3, <1>6, <2>1, ContinueTyped
<1>8. Shared'
  <2>1. CASE ModeRead(p) \/ ConfigRead(p)
    BY <1>1, <2>1 DEF ModeRead, ConfigRead, files, daemon, world, Shared
  <2>2. CASE ModeWrite(p)
    <3>1. vars[p].cmd \in Mode
      BY <1>2, <1>3, <2>2 DEF ModeWrite, At
    <3>2. config' \in Config
      <4>1. config' = [vars[p].seen EXCEPT !.mode = vars[p].cmd]
        BY <2>2 DEF ModeWrite
      <4>2. vars[p].seen \in Config
        BY <1>1 DEF Vars
      <4> QED BY <3>1, <4>1, <4>2 DEF Config
    <3> QED BY <1>1, <2>2, <3>2 DEF ModeWrite, daemon, world, Shared
  <2>3. CASE ConfigWrite(p)
    <3>1. config' \in Config
      <4>1. config' = [vars[p].seen EXCEPT !.strategy = vars[p].strat]
        BY <2>3 DEF ConfigWrite
      <4>2. vars[p].seen \in Config /\ vars[p].strat \in Strategy
        BY <1>1 DEF Vars
      <4> QED BY <4>1, <4>2 DEF Config
    <3> QED BY <1>1, <2>3, <3>1 DEF ConfigWrite, daemon, world, Shared
  <2> QED BY <2>1, <2>2, <2>3
<1> QED BY <1>7, <1>8 DEF Typed, TypeOK, Shared

\* A script that is begun has nothing but its command and the network it is in.
LEMMA BeginTyped ==
  ASSUME Typed, NEW p \in User, NEW c \in Commands, Begin(p, c)
  PROVE  Typed'
<1> DEFINE v == [NoVars EXCEPT !.cmd = c, !.id = net]
<1>1. todo' = [todo EXCEPT ![p] = Script(c)] /\ vars' = [vars EXCEPT ![p] = v]
      /\ UNCHANGED <<files, daemon, pf, world>> /\ p \in Process
  BY DEF Begin, Process
<1>2. Shared /\ todo \in [Process -> Seq(Step)] /\ vars \in [Process -> Vars]
  BY TypeParts DEF Typed
<1>3. Script(c) \in Seq(Step) /\ Startable(c, Script(c))
  BY ScriptFacts DEF Startable
<1>4. v \in Vars /\ v.cmd = c
  <2>1. NoVars \in Vars /\ net \in Net
    BY <1>2, NoVarsType DEF Shared
  <2> QED BY <2>1 DEF Vars
<1>5. raced' \in BOOLEAN
  BY DEF Begin, Typed, TypeOK, Conflict
<1>6. Shared'
  BY <1>1, <1>2 DEF files, daemon, world, Shared
<1> HIDE DEF v
<1>7. Known'
  <2> SUFFICES ASSUME NEW q \in Process
               PROVE  /\ Elems(todo'[q]) \cap {"mode-write", "mode-mirror"} # {} =>
                           vars'[q].cmd \in Mode
                      /\ Elems(todo'[q]) \cap {"trial", "judge"} # {} =>
                           vars'[q].trial \in 1 .. Len(Trials)
    BY DEF Known
  <2>1. CASE q # p
    <3>1. todo'[q] = todo[q] /\ vars'[q] = vars[q]
      BY <1>1, <1>2, <2>1
    <3> QED BY <3>1 DEF Typed, Known
  <2>2. CASE q = p
    <3>1. todo'[q] = Script(c) /\ vars'[q] = v
      BY <1>1, <1>2, <2>2
    <3>2. Elems(Script(c)) \cap {"trial", "judge"} = {}
      BY <1>3 DEF Startable
    <3> QED BY <1>3, <1>4, <3>1, <3>2 DEF Startable
  <2> QED BY <2>1, <2>2
<1>8. todo' \in [Process -> Seq(Step)] /\ vars' \in [Process -> Vars]
  BY <1>1, <1>2, <1>3, <1>4
<1> QED BY <1>5, <1>6, <1>7, <1>8 DEF Typed, TypeOK, Shared

\* What launchd, the machine and the network do leaves the scripts alone.
LEMMA WorldTyped ==
  ASSUME Typed, Spawn \/ Exec \/ Die \/ Roam \/ SwitchWarp \/ UNCHANGED all
  PROVE  Typed' /\ UNCHANGED <<todo, vars, raced>>
<1>1. UNCHANGED <<todo, vars, raced>>
  BY DEF Spawn, Exec, Die, Roam, SwitchWarp, all
<1>2. Shared /\ NoConfig \in Config
  BY TypeParts, NoVarsType DEF Typed, Shared
<1>3. Shared'
  BY <1>2 DEF Spawn, Exec, Die, Roam, SwitchWarp, Exited, all, files, daemon, world, Shared
<1> QED BY <1>1, <1>3 DEF Typed, TypeOK, Shared, Known

LEMMA RebootTyped ==
  ASSUME Typed, Reboot
  PROVE  Typed'
<1>1. /\ todo' = [p \in Process |-> IF p = "boot" THEN <<"boot-check">> ELSE <<>>]
      /\ vars' = [p \in Process |-> NoVars] /\ raced' = FALSE
  BY DEF Reboot
<1>2. Shared /\ NoConfig \in Config /\ NoVars \in Vars
  BY TypeParts, NoVarsType DEF Typed, Shared
<1>3. Shared'
  BY <1>2 DEF Reboot, Exited, files, world, Shared
<1>4. "boot-check" \in Step
  BY DEF Step
<1>5. \A p \in Process : /\ todo'[p] \in Seq(Step)
                         /\ Elems(todo'[p]) \subseteq {"boot-check"}
  <2> SUFFICES ASSUME NEW p \in Process
               PROVE  todo'[p] \in Seq(Step) /\ Elems(todo'[p]) \subseteq {"boot-check"}
    OBVIOUS
  <2>1. todo'[p] = <<"boot-check">> \/ todo'[p] = <<>>
    BY <1>1
  <2> QED BY <1>4, <2>1, OneFacts, EmptyFacts
<1>6. Known'
  BY <1>5 DEF Known
<1> QED BY <1>1, <1>2, <1>3, <1>5, <1>6 DEF Typed, TypeOK, Shared

\* The commands a process puts before the rest of its script: they turn on again what they
\* turn off, and end the job after they have written the config.
Extra(s) ==
  /\ s \in Seq(Step) /\ Closed(s) /\ Reloads(s)
  /\ Elems(s) \cap {"boot-check", "mode-write", "mode-mirror"} = {}

ApplyScript == ApplyStrategy \o RestartKeepAlive \o <<"save-net">>
TrialScript == ApplyStrategy \o RestartKeepAlive \o <<"judge">>
EnsureScript == StartScript \o RestartKeepAlive

LEMMA ExtraConcat ==
  ASSUME NEW a \in Seq(Step), NEW b \in Seq(Step), Extra(a), Extra(b)
  PROVE  Extra(a \o b) /\ Elems(a \o b) = Elems(a) \cup Elems(b)
<1>1. a \o b \in Seq(Step) /\ Elems(a \o b) = Elems(a) \cup Elems(b)
  BY ConcatFacts
<1>2. Closed(a \o b) /\ Reloads(a \o b)
  BY ClosedParts, ReloadsParts DEF Extra
<1> QED BY <1>1, <1>2 DEF Extra

LEMMA ExtraOne ==
  ASSUME NEW x \in {"ensure", "trial", "judge", "apply", "write-profile", "save-net", "probe"}
  PROVE  Extra(<<x>>) /\ Elems(<<x>>) = {x}
<1>1. x \in Step /\ x \notin OffSteps /\ x \notin Writers
      /\ x \notin {"boot-check", "mode-write", "mode-mirror"}
  BY DEF Step, OffSteps, Writers
<1> DEFINE s == <<x>>
<1>2. s \in Seq(Step) /\ Elems(s) = {x} /\ Closed(s) /\ Reloads(s)
  BY <1>1, OneFacts
<1> HIDE DEF s
<1>3. Extra(s) /\ Elems(s) = {x}
  BY <1>1, <1>2 DEF Extra
<1> QED BY <1>3 DEF s

LEMMA ExtraTwo ==
  ASSUME NEW x \in {"ensure", "trial", "judge", "apply", "write-profile", "save-net", "probe"},
         NEW y \in {"ensure", "trial", "judge", "apply", "write-profile", "save-net", "probe"}
  PROVE  Extra(<<x, y>>) /\ Elems(<<x, y>>) = {x, y}
<1> DEFINE s == <<x, y>>
<1>1. \A z \in {x, y} : /\ z \in Step /\ z \notin OffSteps /\ z \notin Writers
                        /\ z \notin {"boot-check", "mode-write", "mode-mirror"}
  BY DEF Step, OffSteps, Writers
<1>2. s \in Seq(Step) /\ Len(s) = 2 /\ s[1] = x /\ s[2] = y
  BY <1>1
<1> HIDE DEF s
<1>3. \A i \in 1 .. 2 : i = 1 \/ i = 2
  OBVIOUS
<1>4. Elems(s) = {x, y}
  BY <1>2, <1>3 DEF Elems
<1>5. \A i \in 1 .. Len(s) : s[i] \notin OffSteps /\ s[i] \notin Writers
  BY <1>1, <1>2, <1>3
<1>6. Closed(s) /\ Reloads(s)
  BY <1>5 DEF Closed, Reloads, Followed, OffSteps
<1>7. Extra(s)
  BY <1>1, <1>2, <1>4, <1>6 DEF Extra
<1> QED BY <1>4, <1>7 DEF s

LEMMA RewriteFacts ==
  LET s == ApplyStrategy \o RestartKeepAlive IN
  Extra(s) /\ Elems(s) = {"config-read", "config-write", "stop-fw", "start-fw", "kill", "bootout",
                          "bootstrap"}
<1> DEFINE a == ApplyStrategy
           s == a \o RestartKeepAlive
<1>1. a \in Seq(Step) /\ Len(a) = 2 /\ a[1] = "config-read" /\ a[2] = "config-write"
  BY DEF ApplyStrategy, Step
<1> HIDE DEF a
<1>2. \A i \in 1 .. 2 : i = 1 \/ i = 2
  OBVIOUS
<1>3. Elems(a) = {"config-read", "config-write"}
  BY <1>1, <1>2 DEF Elems
<1>4. Closed(a)
  BY <1>1, <1>2 DEF Closed, Followed
<1>5. s \in Seq(Step) /\ Elems(s) = Elems(a) \cup Elems(RestartKeepAlive)
  BY <1>1, RestartFacts, ConcatFacts
<1>6. Closed(s) /\ Reloads(s)
  BY <1>1, <1>4, RestartFacts, ClosedParts, ReloadsParts
<1>7. Elems(s) = {"config-read", "config-write", "stop-fw", "start-fw", "kill", "bootout",
                  "bootstrap"}
  BY <1>3, <1>5, RestartFacts
<1> HIDE DEF s
<1>8. Extra(s)
  BY <1>5, <1>6, <1>7 DEF Extra
<1> QED BY <1>7, <1>8 DEF s, a

LEMMA ExtraScripts ==
  /\ Extra(ApplyScript) /\ "bootstrap" \in Elems(ApplyScript)
  /\ Elems(ApplyScript) \cap {"trial", "judge"} = {}
  /\ Extra(TrialScript) /\ "bootstrap" \in Elems(TrialScript)
  /\ Extra(EnsureScript)
  /\ Elems(EnsureScript) \cap {"trial", "judge"} = {}
<1> DEFINE s == ApplyStrategy \o RestartKeepAlive
           a == <<"save-net">>
           j == <<"judge">>
<1>1. Extra(s) /\ Elems(s) = {"config-read", "config-write", "stop-fw", "start-fw", "kill",
                              "bootout", "bootstrap"}
  BY RewriteFacts
<1>2. Extra(a) /\ Extra(j) /\ Elems(a) = {"save-net"} /\ Elems(j) = {"judge"}
  BY ExtraOne
<1>3. ApplyScript = s \o a /\ TrialScript = s \o j
  BY DEF ApplyScript, TrialScript
<1> HIDE DEF s, a, j
<1>4. s \in Seq(Step) /\ a \in Seq(Step) /\ j \in Seq(Step)
  BY <1>1, <1>2 DEF Extra
<1>5. /\ Extra(ApplyScript) /\ Elems(ApplyScript) = Elems(s) \cup {"save-net"}
      /\ Extra(TrialScript) /\ Elems(TrialScript) = Elems(s) \cup {"judge"}
  <2>1. Extra(s \o a) /\ Elems(s \o a) = Elems(s) \cup Elems(a)
    BY <1>1, <1>2, <1>4, ExtraConcat
  <2>2. Extra(s \o j) /\ Elems(s \o j) = Elems(s) \cup Elems(j)
    BY <1>1, <1>2, <1>4, ExtraConcat
  <2> QED BY <1>2, <1>3, <2>1, <2>2
<1>6. Elems(StartScript) = {"sync", "desired-on", "start-fw", "kill", "bootout", "bootstrap",
                            "boot-load"}
  BY StartScriptFacts, ZapretStartFacts
<1>7. Extra(StartScript) /\ Extra(RestartKeepAlive)
  BY <1>6, StartScriptFacts, RestartFacts DEF Extra
<1>8. Extra(EnsureScript) /\ Elems(EnsureScript) = Elems(StartScript) \cup Elems(RestartKeepAlive)
  BY <1>7, ExtraConcat DEF EnsureScript, Extra
<1>9. Elems(EnsureScript) \cap {"trial", "judge"} = {}
  BY <1>6, <1>8, RestartFacts
<1>10. /\ "bootstrap" \in Elems(ApplyScript) /\ "bootstrap" \in Elems(TrialScript)
       /\ Elems(ApplyScript) \cap {"trial", "judge"} = {}
  BY <1>1, <1>5
<1> QED BY <1>5, <1>8, <1>9, <1>10

\* A process goes on with the rest of its script, or with more before it.
Moves(p) ==
  /\ todo[p] \in Seq(Step) /\ todo[p] # <<>>
  /\ \E X \in Seq(Step) :
       /\ Extra(X)
       /\ todo' = [todo EXCEPT ![p] = X \o Tail(todo[p])]
       /\ \/ X = <<>>
          \/ Head(todo[p]) \in {"apply", "probe"} /\ desired = "on"
          \/ Head(todo[p]) \in {"ensure", "trial", "judge"}

LEMMA ExtraNone == <<>> \in Seq(Step) /\ Extra(<<>>) /\ \A s \in Seq(Step) : <<>> \o s = s
BY EmptyFacts DEF Extra

LEMMA DoneMoves ==
  ASSUME Typed, NEW p \in Process, ~Idle(p), Done(p)
  PROVE  Moves(p)
<1>1. todo[p] \in Seq(Step) /\ todo[p] # <<>>
  BY DEF Typed, TypeOK, Idle
<1>2. todo' = [todo EXCEPT ![p] = Tail(todo[p])]
  BY DEF Done, Continue
<1>3. Tail(todo[p]) \in Seq(Step)
  BY <1>1, TailFacts
<1>4. Tail(todo[p]) = <<>> \o Tail(todo[p])
  BY <1>3, ExtraNone
<1> QED BY <1>1, <1>2, <1>4, ExtraNone DEF Moves

LEMMA ExtendTyped ==
  ASSUME Typed, NEW p \in Process, ~Idle(p), NEW X \in Seq(Step), Extra(X), NEW v \in Vars,
         Continue(p, X \o Tail(todo[p]), v), v.cmd = vars[p].cmd,
         (Elems(X) \cup Elems(Tail(todo[p]))) \cap {"trial", "judge"} # {} =>
           v.trial \in 1 .. Len(Trials),
         UNCHANGED <<files, daemon, pf, world>>
  PROVE  Typed'
<1>1. todo[p] \in Seq(Step) /\ todo[p] # <<>> /\ Shared
  BY TypeParts DEF Typed, TypeOK, Idle
<1>2. Tail(todo[p]) \in Seq(Step) /\ Elems(Tail(todo[p])) \subseteq Elems(todo[p])
  BY <1>1, TailFacts
<1> DEFINE t == Tail(todo[p])
           s == X \o t
<1>3. s \in Seq(Step) /\ Elems(s) = Elems(X) \cup Elems(t)
  <2>1. t \in Seq(Step)
    BY <1>2
  <2> HIDE DEF t
  <2> QED BY <2>1, ConcatFacts
<1> HIDE DEF s
<1>4. Elems(s) \cap {"mode-write", "mode-mirror"} # {} => v.cmd \in Mode
  BY <1>2, <1>3 DEF Extra, Typed, Known
<1>5. /\ todo' \in [Process -> Seq(Step)] /\ vars' \in [Process -> Vars]
      /\ raced' \in BOOLEAN /\ Known'
  <2>1. Continue(p, s, v)
    BY DEF s
  <2> QED BY <1>3, <1>4, <2>1, ContinueTyped
<1>6. Shared'
  BY <1>1 DEF files, daemon, world, Shared
<1> QED BY <1>5, <1>6 DEF Typed, TypeOK, Shared

LEMMA ExtendMoves ==
  ASSUME Typed, NEW p \in Process,
         Apply(p) \/ Probe(p) \/ EnsureTpws(p) \/ Trial(p) \/ Judge(p)
  PROVE  Typed' /\ Moves(p) /\ UNCHANGED <<files, daemon, pf, world>>
<1>0. ~Idle(p) /\ UNCHANGED <<files, daemon, pf, world>>
  BY DEF Apply, Probe, EnsureTpws, Trial, Judge, At
<1>1. todo[p] \in Seq(Step) /\ todo[p] # <<>> /\ vars[p] \in Vars /\ Shared
  BY <1>0, TypeParts DEF Typed, TypeOK, Idle
<1>2. /\ Tail(todo[p]) \in Seq(Step) /\ Elems(Tail(todo[p])) \subseteq Elems(todo[p])
      /\ Head(todo[p]) \in Elems(todo[p])
  BY <1>1, TailFacts
<1>3. /\ Elems(Tail(todo[p])) \cap {"trial", "judge"} # {} => vars[p].trial \in 1 .. Len(Trials)
      /\ Head(todo[p]) \in {"trial", "judge"} => vars[p].trial \in 1 .. Len(Trials)
  BY <1>2 DEF Typed, Known
<1>4. NoVars \in Vars /\ net \in Net
  BY <1>1, NoVarsType DEF Shared
<1>5. CASE Done(p)
  <2>1. Typed'
    <3>1. Shared'
      BY <1>0, <1>1 DEF files, daemon, world, Shared
    <3> QED BY <1>0, <1>5, <3>1, DoneTyped DEF Typed, TypeOK, Shared
  <2> QED BY <1>0, <1>5, <2>1, DoneMoves
<1>6. ASSUME NEW X \in Seq(Step), Extra(X), NEW v \in Vars,
             Continue(p, X \o Tail(todo[p]), v), v.cmd = vars[p].cmd,
             Elems(X) \cap {"trial", "judge"} # {} => v.trial \in 1 .. Len(Trials),
             vars[p].trial \in 1 .. Len(Trials) => v.trial \in 1 .. Len(Trials),
             \/ Head(todo[p]) \in {"apply", "probe"} /\ desired = "on"
             \/ Head(todo[p]) \in {"ensure", "trial", "judge"}
      PROVE  Typed' /\ Moves(p)
  <2>1. Typed'
    BY <1>0, <1>3, <1>6, ExtendTyped
  <2>2. todo' = [todo EXCEPT ![p] = X \o Tail(todo[p])]
    BY <1>6 DEF Continue
  <2>3. Moves(p)
    BY <1>1, <1>6, <2>2 DEF Moves
  <2> QED BY <2>1, <2>3
<1>7. CASE Apply(p) /\ ~Done(p)
  <2> DEFINE v == [vars[p] EXCEPT !.strat = profile[vars[p].id]]
  <2>1. /\ Continue(p, ApplyScript \o Tail(todo[p]), v)
        /\ Head(todo[p]) = "apply" /\ desired = "on" /\ profile[vars[p].id] # Nothing
    BY <1>7 DEF Apply, ApplyScript, MayIntervene, At
  <2>2. profile[vars[p].id] \in Strategy
    BY <1>1, <2>1 DEF Shared, Vars
  <2>3. v \in Vars /\ v.cmd = vars[p].cmd /\ v.trial = vars[p].trial
    BY <1>1, <2>2 DEF Vars
  <2> HIDE DEF v
  <2>4. ApplyScript \in Seq(Step)
    BY ExtraScripts DEF Extra
  <2> QED BY <1>0, <1>6, <2>1, <2>3, <2>4, ExtraScripts
<1>8. CASE Probe(p) /\ ~Done(p)
  <2> DEFINE v == [NoVars EXCEPT !.cmd = vars[p].cmd, !.id = net, !.trial = 1]
             X == <<"ensure", "trial">>
  <2>1. Continue(p, X \o Tail(todo[p]), v) /\ Head(todo[p]) = "probe" /\ desired = "on"
    BY <1>8 DEF Probe, MayIntervene, At
  <2>2. v \in Vars /\ v.cmd = vars[p].cmd /\ v.trial \in 1 .. Len(Trials)
    <3>1. 1 \in 1 .. Len(Trials) /\ 1 \in 0 .. Len(Trials)
      BY TrialFacts
    <3>2. vars[p].cmd \in Commands \cup {"watch"}
      BY <1>1 DEF Vars
    <3>3. NoVars \in Vars
      BY <1>4
    <3> QED BY <1>4, <3>1, <3>2, <3>3 DEF Vars
  <2>3. Extra(X) /\ X \in Seq(Step)
    BY ExtraTwo DEF Extra
  <2> HIDE DEF v, X
  <2> QED BY <1>0, <1>6, <2>1, <2>2, <2>3
<1>9. CASE EnsureTpws(p) /\ ~Done(p)
  <2>1. Continue(p, StartScript \o RestartKeepAlive \o Tail(todo[p]), vars[p])
        /\ Head(todo[p]) = "ensure"
    BY <1>9 DEF EnsureTpws, At
  <2>2. Continue(p, EnsureScript \o Tail(todo[p]), vars[p])
    BY <2>1 DEF EnsureScript
  <2>3. EnsureScript \in Seq(Step)
    BY ExtraScripts DEF Extra
  <2> QED BY <1>0, <1>1, <1>6, <2>1, <2>2, <2>3, ExtraScripts
<1>10. CASE Trial(p)
  <2> DEFINE v == [vars[p] EXCEPT !.strat = Trials[vars[p].trial]]
  <2>1. Continue(p, TrialScript \o Tail(todo[p]), v) /\ Head(todo[p]) = "trial"
    BY <1>10 DEF Trial, TrialScript, At
  <2>2. Trials[vars[p].trial] \in Strategy
    BY <1>3, <2>1, TrialFacts
  <2>3. v \in Vars /\ v.cmd = vars[p].cmd /\ v.trial = vars[p].trial
    BY <1>1, <2>2 DEF Vars
  <2> HIDE DEF v
  <2>4. TrialScript \in Seq(Step)
    BY ExtraScripts DEF Extra
  <2> QED BY <1>0, <1>3, <1>6, <2>1, <2>3, <2>4, ExtraScripts
<1>11. CASE Judge(p)
  <2> DEFINE more == Answer("root") # 2 /\ vars[p].trial < Len(Trials)
             best == IF Answer("root") = 0 THEN vars[p].best ELSE vars[p].strat
             X == IF more THEN <<"trial">> ELSE <<"write-profile", "apply">>
             v == [vars[p] EXCEPT !.best = best, !.trial = IF more THEN @ + 1 ELSE @]
  <2>1. Continue(p, X \o Tail(todo[p]), v) /\ Head(todo[p]) = "judge"
    BY <1>11 DEF Judge, At
  <2>2. best \in Strategy /\ vars[p].trial \in 1 .. Len(Trials)
    BY <1>1, <1>3, <2>1 DEF Vars
  <2>3. v \in Vars /\ v.cmd = vars[p].cmd /\ v.trial \in 1 .. Len(Trials)
    <3> DEFINE n == IF more THEN vars[p].trial + 1 ELSE vars[p].trial
    <3>1. n \in 1 .. Len(Trials) /\ n \in 0 .. Len(Trials)
      BY <2>2, TrialFacts
    <3>2. v = [vars[p] EXCEPT !.best = best, !.trial = n]
      BY <1>1 DEF Vars
    <3> HIDE DEF n, v, best
    <3> QED BY <1>1, <2>2, <3>1, <3>2 DEF Vars
  <2>4. Extra(X) /\ X \in Seq(Step)
    BY ExtraOne, ExtraTwo DEF Extra
  <2> HIDE DEF v, X
  <2> QED BY <1>0, <1>6, <2>1, <2>3, <2>4
<1> QED BY <1>0, <1>5, <1>7, <1>8, <1>9, <1>10, <1>11

\* The boot loader is loaded anew: its script starts again.
LEMMA BootLoadTyped ==
  ASSUME Typed, NEW p \in Process, p # "boot", BootLoad(p)
  PROVE  /\ Typed' /\ todo[p] \in Seq(Step) /\ todo[p] # <<>> /\ Head(todo[p]) = "boot-load"
         /\ todo'["boot"] = <<"boot-check">> /\ todo'[p] = Tail(todo[p])
         /\ \A q \in Process \ {p, "boot"} : todo'[q] = todo[q]
<1>1. todo[p] \in Seq(Step) /\ todo[p] # <<>> /\ Shared /\ Head(todo[p]) = "boot-load"
      /\ "boot" \in Process /\ todo \in [Process -> Seq(Step)] /\ vars \in [Process -> Vars]
  BY TypeParts DEF Typed, TypeOK, Idle, BootLoad, At, Process
<1>2. /\ Tail(todo[p]) \in Seq(Step) /\ Elems(Tail(todo[p])) \subseteq Elems(todo[p])
      /\ Len(Tail(todo[p])) = Len(todo[p]) - 1 /\ Len(todo[p]) \in Nat \ {0}
  BY <1>1, TailFacts
<1>3. todo' = [todo EXCEPT ![p] = Tail(todo[p]), !["boot"] = <<"boot-check">>]
      /\ vars' = [vars EXCEPT ![p] = IF Len(todo[p]) = 1 THEN NoVars ELSE vars[p]]
      /\ UNCHANGED <<files, daemon, pf, world>>
  BY DEF BootLoad
<1>4. /\ todo'["boot"] = <<"boot-check">> /\ todo'[p] = Tail(todo[p])
      /\ \A q \in Process \ {p, "boot"} : todo'[q] = todo[q]
  BY <1>1, <1>3
<1>5. <<"boot-check">> \in Seq(Step) /\ Elems(<<"boot-check">>) = {"boot-check"}
  BY OneFacts DEF Step
<1>6. NoVars \in Vars
  BY <1>1, NoVarsType DEF Shared
<1>7. todo' \in [Process -> Seq(Step)] /\ vars' \in [Process -> Vars]
  BY <1>1, <1>2, <1>3, <1>5, <1>6
<1>8. Known'
  <2> SUFFICES ASSUME NEW q \in Process
               PROVE  /\ Elems(todo'[q]) \cap {"mode-write", "mode-mirror"} # {} =>
                           vars'[q].cmd \in Mode
                      /\ Elems(todo'[q]) \cap {"trial", "judge"} # {} =>
                           vars'[q].trial \in 1 .. Len(Trials)
    BY DEF Known
  <2>1. CASE q = "boot"
    <3>1. Elems(todo'[q]) = {"boot-check"}
      BY <1>4, <1>5, <2>1
    <3> QED BY <3>1
  <2>2. CASE q = p /\ Len(todo[p]) = 1
    <3>1. Len(Tail(todo[p])) = 0
      BY <1>2, <2>2
    <3>2. Elems(Tail(todo[p])) = {}
      BY <3>1 DEF Elems
    <3>3. Elems(todo'[q]) = {}
      BY <1>4, <2>2, <3>2
    <3> QED BY <3>3
  <2>3. CASE q = p /\ Len(todo[p]) # 1
    <3>1. vars'[q] = vars[q]
      BY <1>1, <1>3, <2>3
    <3>2. Elems(todo'[q]) \subseteq Elems(todo[q])
      BY <1>2, <1>4, <2>3
    <3> QED BY <3>1, <3>2 DEF Typed, Known
  <2>4. CASE q # p /\ q # "boot"
    <3>1. vars'[q] = vars[q] /\ todo'[q] = todo[q]
      BY <1>1, <1>3, <1>4, <2>4
    <3> QED BY <3>1 DEF Typed, Known
  <2> QED BY <2>1, <2>2, <2>3, <2>4
<1>9. raced' \in BOOLEAN
  BY DEF BootLoad, Race, Typed, TypeOK, Conflict
<1>10. Shared'
  BY <1>1, <1>3 DEF files, daemon, world, Shared
<1> QED BY <1>1, <1>4, <1>7, <1>8, <1>9, <1>10 DEF Typed, TypeOK, Shared

\* The boot loader and the network watch begin a script of their own.
LEMMA BootCheckTyped ==
  ASSUME Typed, BootCheck
  PROVE  /\ Typed' /\ UNCHANGED <<files, daemon, pf, world>>
         /\ todo' = [todo EXCEPT !["boot"] = IF desired = "on" THEN BootOn ELSE <<"bootout">>]
<1> DEFINE s == IF desired = "on" THEN BootOn ELSE <<"bootout">>
<1>1. Continue("boot", s, NoVars) /\ UNCHANGED <<files, daemon, pf, world>> /\ "boot" \in Process
  BY DEF BootCheck, BootOn, Process
<1>2. s \in Seq(Step) /\ Elems(s) \cap {"mode-write", "mode-mirror", "trial", "judge"} = {}
  <2>1. "bootout" \in Step
    BY DEF Step
  <2> QED BY <2>1, BootOnFacts, OneFacts
<1>3. Shared /\ NoVars \in Vars
  BY TypeParts, NoVarsType DEF Typed, Shared
<1>4. todo' = [todo EXCEPT !["boot"] = s]
  BY <1>1 DEF Continue
<1> HIDE DEF s
<1>5. /\ todo' \in [Process -> Seq(Step)] /\ vars' \in [Process -> Vars]
      /\ raced' \in BOOLEAN /\ Known'
  BY <1>1, <1>2, <1>3, ContinueTyped
<1>6. Shared'
  BY <1>1, <1>3 DEF files, daemon, world, Shared
<1> QED BY <1>1, <1>4, <1>5, <1>6 DEF s, Typed, TypeOK, Shared

LEMMA NetwatchTyped ==
  ASSUME Typed, Netwatch
  PROVE  /\ Typed' /\ UNCHANGED <<files, daemon, pf, world>> /\ todo["netwatch"] = <<>>
         /\ todo' = [todo EXCEPT !["netwatch"] =
                       IF profile[net] = Nothing THEN <<"probe">> ELSE <<"apply">>]
<1> DEFINE s == IF profile[net] = Nothing THEN <<"probe">> ELSE <<"apply">>
           v == [NoVars EXCEPT !.id = net]
<1>1. Continue("netwatch", s, v) /\ UNCHANGED <<files, daemon, pf, world>>
      /\ "netwatch" \in Process /\ todo["netwatch"] = <<>>
  BY DEF Netwatch, Idle, Process
<1>2. s \in Seq(Step) /\ Elems(s) \cap {"mode-write", "mode-mirror", "trial", "judge"} = {}
  BY ExtraOne DEF Extra
<1>3. Shared /\ v \in Vars
  <2>1. Shared /\ NoVars \in Vars /\ net \in Net
    BY TypeParts, NoVarsType DEF Typed, Shared
  <2> QED BY <2>1 DEF Vars
<1>4. todo' = [todo EXCEPT !["netwatch"] = s]
  BY <1>1 DEF Continue
<1> HIDE DEF s, v
<1>5. /\ todo' \in [Process -> Seq(Step)] /\ vars' \in [Process -> Vars]
      /\ raced' \in BOOLEAN /\ Known'
  BY <1>1, <1>2, <1>3, ContinueTyped
<1>6. Shared'
  BY <1>1, <1>3 DEF files, daemon, world, Shared
<1> QED BY <1>1, <1>4, <1>5, <1>6 DEF s, Typed, TypeOK, Shared

-----------------------------------------------------------------------------
(* What the scripts look like.                                             *)

BootSteps == {"start-fw", "kill", "bootout", "bootstrap"}

\* Only the boot loader checks desired-state at boot, and it does nothing else with it.
Booting ==
  /\ Elems(todo["boot"]) \subseteq BootSteps \/ todo["boot"] = <<"boot-check">>
  /\ \A p \in Process \ {"boot"} : "boot-check" \notin Elems(todo[p])

\* A script turns on again what it turns off, or does nothing but turn off.
Shape == \A p \in Process : Closed(todo[p]) \/ PureOff(todo[p])

Reloading == \A p \in Process : Reloads(todo[p])

Scripts == Typed /\ Booting /\ Shape

\* What a command does, by its name.
Effect(p, h) ==
  /\ desired' = IF h = "desired-on" THEN "on" ELSE IF h = "desired-off" THEN "off" ELSE desired
  /\ pf' = IF h = "start-fw" THEN TRUE ELSE IF h = "stop-fw" THEN FALSE ELSE pf
  /\ job' = IF h = "bootstrap" THEN TRUE ELSE IF h = "bootout" THEN FALSE ELSE job
  /\ h \in Writers \/ config' = config
  /\ tpws' = "down" \/ (tpws' = tpws /\ runs' = runs /\ h # "bootout")
  /\ raced' = (raced \/ Conflict')
  /\ h # "boot-check"

LEMMA Effects ==
  ASSUME Typed, NEW p \in Process, Execute(p), Booting
  PROVE  /\ Typed' /\ Effect(p, Head(todo[p]))
         /\ Moves(p) \/ (BootLoad(p) /\ p # "boot")
<1> USE DEF At
<1>1. CASE DesiredOn(p) \/ DesiredOff(p) \/ StartFw(p) \/ StopFw(p)
  <2>1. ~Idle(p) /\ Done(p)
    BY <1>1 DEF DesiredOn, DesiredOff, StartFw, StopFw
  <2>2. Effect(p, Head(todo[p]))
    BY <1>1 DEF DesiredOn, DesiredOff, StartFw, StopFw, Effect, Done, Continue, Race, daemon,
                files
  <2> QED BY <1>1, <2>1, <2>2, SimpleTyped, DoneMoves
<1>2. CASE Kill(p) \/ Bootout(p) \/ Bootstrap(p)
  <2>1. ~Idle(p) /\ Done(p)
    BY <1>2 DEF Kill, Bootout, Bootstrap
  <2>2. Effect(p, Head(todo[p]))
    BY <1>2 DEF Kill, Bootout, Bootstrap, Exited, Effect, Done, Continue, Race, files
  <2> QED BY <1>2, <2>1, <2>2, SimpleTyped, DoneMoves
<1>3. CASE Sync(p) \/ ModeMirror(p) \/ SaveLastNet(p) \/ WriteProfile(p)
  <2>1. ~Idle(p) /\ Done(p)
    BY <1>3 DEF Sync, ModeMirror, SaveLastNet, WriteProfile
  <2>2. Effect(p, Head(todo[p]))
    BY <1>3 DEF Sync, ModeMirror, SaveLastNet, WriteProfile, Effect, Done, Continue, Race,
                daemon, Writers
  <2> QED BY <1>3, <2>1, <2>2, SimpleTyped, DoneMoves
<1>4. CASE ModeRead(p) \/ ModeWrite(p) \/ ConfigRead(p) \/ ConfigWrite(p)
  <2>1. todo[p] \in Seq(Step) /\ todo[p] # <<>>
    BY <1>4 DEF ModeRead, ModeWrite, ConfigRead, ConfigWrite, Idle, Typed, TypeOK
  <2>2. todo' = [todo EXCEPT ![p] = Tail(todo[p])]
    BY <1>4 DEF ModeRead, ModeWrite, ConfigRead, ConfigWrite, Continue
  <2>3. Tail(todo[p]) = <<>> \o Tail(todo[p])
    BY <2>1, TailFacts, ExtraNone
  <2>4. Moves(p)
    BY <2>1, <2>2, <2>3, ExtraNone DEF Moves
  <2>5. Effect(p, Head(todo[p]))
    BY <1>4 DEF ModeRead, ModeWrite, ConfigRead, ConfigWrite, Effect, Continue, Race, daemon,
                files, Writers
  <2> QED BY <1>4, <2>4, <2>5, ConfigTyped
<1>5. CASE Apply(p) \/ Probe(p) \/ EnsureTpws(p) \/ Trial(p) \/ Judge(p)
  <2>1. Effect(p, Head(todo[p]))
    BY <1>5 DEF Apply, Probe, EnsureTpws, Trial, Judge, Effect, Done, Continue, Race, daemon,
                files
  <2> QED BY <1>5, <2>1, ExtendMoves
<1>6. CASE BootLoad(p)
  <2>1. p # "boot"
    <3>1. "boot-load" \in Elems(todo[p])
      BY <1>6, TailFacts DEF BootLoad, Typed, TypeOK, Idle
    <3>2. Elems(<<"boot-check">>) = {"boot-check"}
      BY OneFacts DEF Step
    <3> QED BY <3>1, <3>2 DEF Booting, BootSteps
  <2>2. Effect(p, Head(todo[p]))
    BY <1>6 DEF BootLoad, Effect, Race, daemon, files
  <2> QED BY <1>6, <2>1, <2>2, BootLoadTyped
<1> QED BY <1>1, <1>2, <1>3, <1>4, <1>5, <1>6 DEF Execute

-----------------------------------------------------------------------------
(* The shape of the scripts is kept.                                       *)

LEMMA MoveShape ==
  ASSUME Scripts, NEW p \in Process, Moves(p)
  PROVE  Booting' /\ Shape' /\ (Reloading => Reloading')
<1> DEFINE t == Tail(todo[p])
<1>1. PICK X \in Seq(Step) :
        /\ Extra(X)
        /\ todo' = [todo EXCEPT ![p] = X \o t]
        /\ X = <<>> \/ Head(todo[p]) \in {"apply", "probe", "ensure", "trial", "judge"}
  BY DEF Moves
<1>2. todo[p] \in Seq(Step) /\ todo[p] # <<>> /\ todo \in [Process -> Seq(Step)]
  BY DEF Moves, Scripts, Typed, TypeOK
<1>3. t \in Seq(Step) /\ Elems(todo[p]) = {Head(todo[p])} \cup Elems(t)
  BY <1>2, TailFacts
<1>4. X \o t \in Seq(Step) /\ Elems(X \o t) = Elems(X) \cup Elems(t)
  <2> HIDE DEF t
  <2> QED BY <1>1, <1>3, ConcatFacts
<1>5. todo'[p] = X \o t /\ \A q \in Process \ {p} : todo'[q] = todo[q]
  BY <1>1, <1>2
<1>6. Closed(todo[p]) => Closed(X \o t)
  BY <1>1, <1>2, <1>3, ClosedParts DEF Extra
<1>7. PureOff(todo[p]) => PureOff(X \o t)
  <2> SUFFICES ASSUME PureOff(todo[p]) PROVE PureOff(X \o t)
    OBVIOUS
  <2>1. Head(todo[p]) \in OffSteps \cup {"kill"} /\ Elems(t) \subseteq OffSteps \cup {"kill"}
    BY <1>3 DEF PureOff
  <2>2. X = <<>>
    BY <1>1, <2>1 DEF OffSteps
  <2> QED BY <1>4, <2>1, <2>2, EmptyFacts DEF PureOff
<1>8. Reloads(todo[p]) => Reloads(X \o t)
  BY <1>1, <1>2, <1>3, ReloadsParts DEF Extra
<1>9. Shape'
  BY <1>5, <1>6, <1>7 DEF Scripts, Shape
<1>10. Reloading => Reloading'
  BY <1>5, <1>8 DEF Reloading
<1>11. Booting'
  <2>1. CASE p = "boot"
    <3>1. Elems(X \o t) \subseteq BootSteps
      <4>1. CASE Elems(todo[p]) \subseteq BootSteps
        <5>1. X = <<>>
          BY <1>1, <1>3, <4>1 DEF BootSteps
        <5> QED BY <1>3, <1>4, <4>1, <5>1, EmptyFacts
      <4>2. CASE todo[p] = <<"boot-check">>
        <5>1. Head(todo[p]) = "boot-check" /\ t = <<>>
          BY <4>2
        <5>2. X = <<>>
          BY <1>1, <5>1
        <5> QED BY <1>4, <5>1, <5>2, EmptyFacts
      <4> QED BY <2>1, <4>1, <4>2 DEF Scripts, Booting
    <3> QED BY <1>5, <2>1, <3>1 DEF Scripts, Booting
  <2>2. CASE p # "boot"
    <3>1. "boot-check" \notin Elems(todo'[p])
      BY <1>1, <1>3, <1>4, <1>5, <2>2 DEF Scripts, Booting, Extra
    <3>2. todo'["boot"] = todo["boot"]
      BY <1>5, <2>2 DEF Process
    <3> QED BY <1>5, <3>1, <3>2 DEF Scripts, Booting
  <2> QED BY <2>1, <2>2
<1> QED BY <1>9, <1>10, <1>11

\* A process of its own accord gets a script that has one of the shapes.
LEMMA SetShape ==
  ASSUME Scripts, NEW p \in Process, NEW s \in Seq(Step),
         todo' = [todo EXCEPT ![p] = s], Closed(s) \/ PureOff(s),
         IF p = "boot" THEN Elems(s) \subseteq BootSteps ELSE "boot-check" \notin Elems(s)
  PROVE  Booting' /\ Shape' /\ (Reloading /\ Reloads(s) => Reloading')
<1>1. todo \in [Process -> Seq(Step)] /\ "boot" \in Process
  BY DEF Scripts, Typed, TypeOK, Process
<1>2. todo'[p] = s /\ \A q \in Process \ {p} : todo'[q] = todo[q]
  BY <1>1
<1>3. Shape'
  BY <1>2 DEF Scripts, Shape
<1>4. Reloading /\ Reloads(s) => Reloading'
  BY <1>2 DEF Reloading
<1>5. Booting'
  <2>1. CASE p = "boot"
    BY <1>2, <2>1 DEF Scripts, Booting
  <2>2. CASE p # "boot"
    BY <1>1, <1>2, <2>2 DEF Scripts, Booting
  <2> QED BY <2>1, <2>2
<1> QED BY <1>3, <1>4, <1>5

LEMMA CheckFacts ==
  /\ <<"boot-check">> \in Seq(Step) /\ Elems(<<"boot-check">>) = {"boot-check"}
  /\ Closed(<<"boot-check">>) /\ Reloads(<<"boot-check">>)
BY OneFacts DEF Step, OffSteps, Writers

LEMMA ScriptsStep ==
  ASSUME Scripts, [Next]_all
  PROVE  Scripts' /\ ("lists" \notin Commands /\ Reloading => Reloading')
<1>1. ASSUME NEW p \in User, NEW c \in Commands, Begin(p, c)
      PROVE  Scripts' /\ ("lists" \notin Commands /\ Reloading => Reloading')
  <2>1. Typed'
    BY <1>1, BeginTyped DEF Scripts
  <2>2. Startable(c, Script(c))
    BY ScriptFacts
  <2>3. todo' = [todo EXCEPT ![p] = Script(c)] /\ p \in Process /\ p # "boot"
    BY <1>1, UserAssumption DEF Begin, Process
  <2> DEFINE s == Script(c)
  <2> HIDE DEF s
  <2>4. s \in Seq(Step) /\ (Closed(s) \/ PureOff(s)) /\ "boot-check" \notin Elems(s)
        /\ (c # "lists" => Reloads(s)) /\ todo' = [todo EXCEPT ![p] = s]
    BY <2>2, <2>3 DEF Startable, s
  <2>5. Booting' /\ Shape' /\ (Reloading /\ Reloads(s) => Reloading')
    BY <2>3, <2>4, SetShape
  <2> QED BY <2>1, <2>4, <2>5 DEF Scripts
<1>2. ASSUME NEW p \in Process, Execute(p)
      PROVE  Scripts' /\ (Reloading => Reloading')
  <2>1. Typed' /\ (Moves(p) \/ (BootLoad(p) /\ p # "boot"))
    BY <1>2, Effects DEF Scripts
  <2>2. CASE Moves(p)
    BY <2>1, <2>2, MoveShape DEF Scripts
  <2>3. CASE BootLoad(p) /\ p # "boot"
    <3> DEFINE t == Tail(todo[p])
    <3>1. /\ todo[p] \in Seq(Step) /\ todo[p] # <<>> /\ todo'["boot"] = <<"boot-check">>
          /\ todo'[p] = t /\ \A q \in Process \ {p, "boot"} : todo'[q] = todo[q]
      BY <2>3, BootLoadTyped DEF Scripts
    <3>2. t \in Seq(Step) /\ Elems(t) \subseteq Elems(todo[p])
      BY <3>1, TailFacts
    <3>3. /\ Closed(todo[p]) => Closed(t)
          /\ PureOff(todo[p]) => PureOff(t)
          /\ Reloads(todo[p]) => Reloads(t)
      BY <3>1, <3>2, ClosedParts, ReloadsParts DEF PureOff
    <3>4. Shape'
      BY <3>1, <3>3, CheckFacts DEF Scripts, Shape
    <3>5. Reloading => Reloading'
      BY <3>1, <3>3, CheckFacts DEF Reloading
    <3>6. Booting'
      BY <2>3, <3>1, <3>2 DEF Scripts, Booting
    <3> QED BY <2>1, <3>4, <3>5, <3>6 DEF Scripts
  <2> QED BY <2>1, <2>2, <2>3
<1>3. CASE BootCheck
  <2> DEFINE s == IF desired = "on" THEN BootOn ELSE <<"bootout">>
  <2>1. Typed' /\ todo' = [todo EXCEPT !["boot"] = s]
    BY <1>3, BootCheckTyped DEF Scripts
  <2>2. <<"bootout">> \in Seq(Step) /\ Elems(<<"bootout">>) = {"bootout"} /\ Reloads(<<"bootout">>)
    BY OneFacts DEF Step, Writers
  <2>3. s \in Seq(Step) /\ (Closed(s) \/ PureOff(s)) /\ Reloads(s) /\ Elems(s) \subseteq BootSteps
    BY <2>2, BootOnFacts DEF PureOff, OffSteps, BootSteps
  <2>4. "boot" \in Process
    BY DEF Process
  <2> HIDE DEF s
  <2> QED BY <2>1, <2>3, <2>4, SetShape DEF Scripts
<1>4. CASE Netwatch
  <2> DEFINE s == IF profile[net] = Nothing THEN <<"probe">> ELSE <<"apply">>
  <2>1. Typed' /\ todo' = [todo EXCEPT !["netwatch"] = s]
    BY <1>4, NetwatchTyped DEF Scripts
  <2>2. s \in Seq(Step) /\ Closed(s) /\ Reloads(s) /\ "boot-check" \notin Elems(s)
    BY ExtraOne DEF Extra
  <2>3. "netwatch" \in Process /\ "netwatch" # "boot"
    BY DEF Process
  <2> HIDE DEF s
  <2> QED BY <2>1, <2>2, <2>3, SetShape DEF Scripts
<1>5. CASE Reboot
  <2>1. todo' = [p \in Process |-> IF p = "boot" THEN <<"boot-check">> ELSE <<>>]
    BY <1>5 DEF Reboot
  <2>2. Typed'
    BY <1>5, RebootTyped DEF Scripts
  <2>3. "boot" \in Process
    BY DEF Process
  <2>4. Booting'
    BY <2>1, <2>3, EmptyFacts DEF Booting
  <2>5. \A p \in Process : todo'[p] = <<"boot-check">> \/ todo'[p] = <<>>
    BY <2>1
  <2>6. Shape' /\ Reloading'
    BY <2>5, CheckFacts, EmptyFacts DEF Shape, Reloading
  <2> QED BY <2>2, <2>4, <2>6 DEF Scripts
<1>6. CASE Spawn \/ Exec \/ Die \/ Roam \/ SwitchWarp \/ UNCHANGED all
  BY <1>6, WorldTyped DEF Scripts, Booting, Shape, Reloading
<1> QED BY <1>1, <1>2, <1>3, <1>4, <1>5, <1>6 DEF Next

LEMMA ScriptsInit == Init => Scripts /\ Reloading
<1> SUFFICES ASSUME Init PROVE Scripts /\ Reloading
  OBVIOUS
<1>1. NoVars \in Vars /\ NoConfig \in Config
  BY NoVarsType DEF Init
<1>2. \A p \in Process : todo[p] = <<>> /\ Elems(todo[p]) = {}
  BY EmptyFacts DEF Init
<1>3. TypeOK
  BY <1>1, EmptyFacts DEF Init, TypeOK, Mode
<1>4. Known
  BY <1>2 DEF Known
<1>5. Booting
  BY <1>2 DEF Booting, Process
<1>6. Shape /\ Reloading
  BY <1>2, EmptyFacts DEF Shape, Reloading
<1> QED BY <1>3, <1>4, <1>5, <1>6 DEF Scripts, Typed

\* The types of the control plane: every file, every job and every script that is still to
\* run is one the code can produce.
THEOREM TypeCorrect == Spec => []TypeOK
<1>1. Init => Scripts
  BY ScriptsInit
<1>2. Scripts /\ [Next]_all => Scripts'
  BY ScriptsStep
<1>3. Scripts => TypeOK
  BY DEF Scripts, Typed
<1> QED BY <1>1, <1>2, <1>3, PTL DEF Spec

-----------------------------------------------------------------------------
(* A tpws that runs has the config in place, or its end is pending.        *)

\* What one command leaves of the scripts, its own and the others'.
LEMMA ExecuteFacts ==
  ASSUME Scripts, NEW p \in Process, Execute(p)
  PROVE  /\ todo[p] \in Seq(Step) /\ todo[p] # <<>>
         /\ Elems(todo[p]) = {Head(todo[p])} \cup Elems(Tail(todo[p]))
         /\ Elems(Tail(todo[p])) \subseteq Elems(todo'[p])
         /\ \A q \in Process \ {p, "boot"} : todo'[q] = todo[q]
         /\ \/ p = "boot" \/ todo'["boot"] = todo["boot"]
            \/ todo'["boot"] = <<"boot-check">> /\ Head(todo[p]) = "boot-load"
         /\ Closed(todo[p]) => Closed(todo'[p])
         /\ \/ Elems(todo'[p]) = Elems(Tail(todo[p]))
            \/ Head(todo[p]) \in {"apply", "probe"} /\ desired = "on"
            \/ Head(todo[p]) \in {"ensure", "trial", "judge"}
<1> DEFINE t == Tail(todo[p])
<1>1. Moves(p) \/ (BootLoad(p) /\ p # "boot")
  BY Effects DEF Scripts
<1>2. todo[p] \in Seq(Step) /\ todo[p] # <<>> /\ todo \in [Process -> Seq(Step)]
  BY <1>1, BootLoadTyped DEF Moves, Scripts, Typed, TypeOK
<1>3. /\ t \in Seq(Step) /\ Elems(todo[p]) = {Head(todo[p])} \cup Elems(t)
      /\ (Closed(todo[p]) => Closed(t))
  BY <1>2, TailFacts, ClosedParts
<1>4. CASE Moves(p)
  <2>1. PICK X \in Seq(Step) :
          /\ Extra(X)
          /\ todo' = [todo EXCEPT ![p] = X \o t]
          /\ \/ X = <<>>
             \/ Head(todo[p]) \in {"apply", "probe"} /\ desired = "on"
             \/ Head(todo[p]) \in {"ensure", "trial", "judge"}
    BY <1>4 DEF Moves
  <2>2. todo'[p] = X \o t /\ \A q \in Process \ {p} : todo'[q] = todo[q]
    BY <1>2, <2>1
  <2>3. Elems(X \o t) = Elems(X) \cup Elems(t) /\ (Closed(t) => Closed(X \o t))
    <3> HIDE DEF t
    <3> QED BY <1>3, <2>1, ConcatFacts, ClosedParts DEF Extra
  <2>4. X = <<>> => Elems(X \o t) = Elems(t)
    BY <2>3, EmptyFacts
  <2>5. "boot" \in Process
    BY DEF Process
  <2> HIDE DEF t
  <2> QED BY <1>2, <1>3, <2>1, <2>2, <2>3, <2>4, <2>5 DEF t
<1>5. CASE BootLoad(p) /\ p # "boot"
  BY <1>3, <1>5, BootLoadTyped DEF Scripts
<1> QED BY <1>1, <1>4, <1>5

Due ==
  tpws # "down" /\ runs # config => \E p \in Process \ {"boot"} : "bootout" \in Elems(todo[p])

LEMMA DueStep ==
  ASSUME Scripts, Reloading, Due, [Next]_all
  PROVE  Due'
<1>0. todo \in [Process -> Seq(Step)]
  BY DEF Scripts, Typed, TypeOK
<1>1. ASSUME NEW p \in User, NEW c \in Commands, Begin(p, c)
      PROVE  Due'
  <2>1. /\ todo[p] = <<>> /\ \A q \in Process \ {p} : todo'[q] = todo[q]
        /\ UNCHANGED <<config, tpws, runs>>
    BY <1>0, <1>1 DEF Begin, Idle, files, daemon
  <2> QED BY <2>1, EmptyFacts DEF Due
<1>2. ASSUME NEW p \in Process, Execute(p)
      PROVE  Due'
  <2> DEFINE h == Head(todo[p])
  <2>1. Effect(p, h)
    BY <1>2, Effects DEF Scripts
  <2>2. /\ Elems(todo[p]) = {h} \cup Elems(Tail(todo[p]))
        /\ Elems(Tail(todo[p])) \subseteq Elems(todo'[p])
        /\ \A q \in Process \ {p, "boot"} : todo'[q] = todo[q]
        /\ todo[p] \in Seq(Step) /\ todo[p] # <<>>
    BY <1>2, ExecuteFacts
  <2> SUFFICES ASSUME tpws' # "down", runs' # config'
               PROVE  \E q \in Process \ {"boot"} : "bootout" \in Elems(todo'[q])
    BY DEF Due
  <2>3. tpws' = tpws /\ runs' = runs /\ h # "bootout"
    BY <2>1 DEF Effect
  <2>4. CASE h \in Writers
    <3>1. "bootout" \in Elems(Tail(todo[p]))
      BY <2>2, <2>4, ReloadsParts DEF Reloading
    <3>2. p # "boot"
      <4>1. Elems(<<"boot-check">>) = {"boot-check"}
        BY CheckFacts
      <4> QED BY <2>2, <2>4, <4>1 DEF Scripts, Booting, BootSteps, Writers
    <3> QED BY <2>2, <3>1, <3>2
  <2>5. CASE h \notin Writers
    <3>1. config' = config
      BY <2>1, <2>5 DEF Effect
    <3>2. PICK q \in Process \ {"boot"} : "bootout" \in Elems(todo[q])
      BY <2>3, <3>1 DEF Due
    <3>3. "bootout" \in Elems(todo'[q])
      BY <2>2, <2>3, <3>2
    <3> QED BY <3>3
  <2> QED BY <2>4, <2>5
<1>3. CASE BootCheck
  <2>1. /\ UNCHANGED <<config, tpws, runs>>
        /\ \A q \in Process \ {"boot"} : todo'[q] = todo[q]
    BY <1>0, <1>3, BootCheckTyped DEF Scripts, files, daemon
  <2> QED BY <2>1 DEF Due
<1>4. CASE Netwatch
  <2>1. /\ UNCHANGED <<config, tpws, runs>> /\ todo["netwatch"] = <<>>
        /\ \A q \in Process \ {"netwatch"} : todo'[q] = todo[q]
    BY <1>0, <1>4, NetwatchTyped DEF Scripts, files, daemon
  <2> QED BY <2>1, EmptyFacts DEF Due
<1>5. CASE Spawn \/ Exec \/ Die \/ Reboot \/ Roam \/ SwitchWarp \/ UNCHANGED all
  BY <1>5 DEF Spawn, Exec, Die, Reboot, Roam, SwitchWarp, Exited, all, files, daemon, Due
<1> QED BY <1>1, <1>2, <1>3, <1>4, <1>5 DEF Next

\* Without update-lists, which replaces the config of a running tpws and only signals it,
\* no interleaving of scripts leaves a tpws running with a config other than the one in place.
THEOREM CurrentConfig == "lists" \notin Commands => (Spec => []RunsCurrentConfig)
<1> SUFFICES ASSUME "lists" \notin Commands PROVE Spec => []RunsCurrentConfig
  OBVIOUS
<1> DEFINE Inv == Scripts /\ Reloading /\ Due
<1>1. Init => Inv
  BY ScriptsInit DEF Init, Due
<1>2. Inv /\ [Next]_all => Inv'
  BY ScriptsStep, DueStep
<1>3. Inv => RunsCurrentConfig
  <2> SUFFICES ASSUME Due, Quiet, tpws # "down" PROVE runs = config
    BY DEF RunsCurrentConfig
  <2>1. \A p \in Process : Elems(todo[p]) = {}
    BY EmptyFacts DEF Quiet, Idle
  <2> QED BY <2>1 DEF Due
<1> QED BY <1>1, <1>2, <1>3, PTL DEF Spec

-----------------------------------------------------------------------------
(* The switch.                                                             *)

\* The same as TurnsOn and TurnsOff, by the commands that are left.
Ons(p) == Elems(todo[p]) \cap OnSteps # {}
Offs(p) == Elems(todo[p]) \cap OffSteps # {} /\ ~Ons(p)

\* Some script has still to do x.
Pending(x) == \E p \in Process : x \in Elems(todo[p])

\* The boot loader is going to ask for desired-state.
Checking == todo["boot"] = <<"boot-check">>

\* Where the scripts go: to On, when one of them turns Zapret on, or when desired-state says
\* so and none turns it off; to Off likewise.
GoesOn == (\E p \in Process : Ons(p)) \/ (desired = "on" /\ \A p \in Process : ~Offs(p))
GoesOff == (\E p \in Process : Offs(p)) \/ (desired = "off" /\ \A p \in Process : ~Ons(p))

ComesOn ==
  /\ desired = "on" \/ Pending("desired-on")
  /\ pf \/ Pending("start-fw") \/ Checking
  /\ job \/ Pending("bootstrap") \/ Checking
ComesOff ==
  /\ desired = "off" \/ Pending("desired-off")
  /\ ~pf \/ Pending("stop-fw")
  /\ ~job \/ Pending("bootout") \/ Checking

\* No script turns on while another turns off, and what is to come is on its way.
Apart == \A p, q \in Process : ~(Ons(p) /\ Offs(q))
Going == Apart /\ (GoesOn => ComesOn) /\ (GoesOff => ComesOff)

LEMMA SameTurns ==
  /\ \A p \in Process : (TurnsOn(p) <=> Ons(p)) /\ (TurnsOff(p) <=> Offs(p))
  /\ \A p \in Process : (TurnsOn(p)' <=> Ons(p)') /\ (TurnsOff(p)' <=> Offs(p)')
  /\ (Conflict <=> ~Apart) /\ (Conflict' <=> ~Apart')
<1>1. \A p \in Process : (TurnsOn(p) <=> Ons(p)) /\ (TurnsOff(p) <=> Offs(p))
  BY DEF TurnsOn, TurnsOff, Has, Ons, Offs, Elems, OnSteps, OffSteps
<1>2. \A p \in Process : (TurnsOn(p)' <=> Ons(p)') /\ (TurnsOff(p)' <=> Offs(p)')
  BY DEF TurnsOn, TurnsOff, Has, Ons, Offs, Elems, OnSteps, OffSteps
<1> QED BY <1>1, <1>2 DEF Conflict, Apart

\* A script that turns off does nothing else.
LEMMA OffsArePure ==
  ASSUME NEW s \in Seq(Step), Elems(s) \cap OffSteps # {}
  PROVE  Closed(s) => Elems(s) \cap OnSteps # {}
<1> SUFFICES ASSUME Closed(s) PROVE Elems(s) \cap OnSteps # {}
  OBVIOUS
<1>1. PICK i \in 1 .. Len(s) : s[i] \in OffSteps
  BY DEF Elems
<1>2. \E j \in i + 1 .. Len(s) : s[j] \in {"desired-on", "start-fw", "bootstrap"}
  BY <1>1 DEF Closed, Followed, OffSteps
<1>3. PICK j \in 1 .. Len(s) : s[j] \in {"desired-on", "start-fw", "bootstrap"}
  BY <1>1, <1>2
<1> QED BY <1>3 DEF Elems, OnSteps

LEMMA ClosedRest ==
  ASSUME NEW s \in Seq(Step), s # <<>>, Closed(s)
  PROVE  /\ Head(s) = "desired-off" => "desired-on" \in Elems(Tail(s))
         /\ Head(s) = "stop-fw" => "start-fw" \in Elems(Tail(s))
         /\ Head(s) = "bootout" => "bootstrap" \in Elems(Tail(s))
BY FollowedTail DEF Closed

\* One command of a script: whatever it turns off while the scripts go to On is turned on
\* again by what is left of it, and a script changes its direction only with the others.
LEMMA GoingExecute ==
  ASSUME Scripts, Going, NEW p \in Process, Execute(p), Apart'
  PROVE  Going'
<1> DEFINE h == Head(todo[p])
           T == Elems(Tail(todo[p]))
<1>1. /\ todo[p] \in Seq(Step) /\ todo[p] # <<>>
      /\ Elems(todo[p]) = {h} \cup T
      /\ T \subseteq Elems(todo'[p])
      /\ \A q \in Process \ {p, "boot"} : todo'[q] = todo[q]
      /\ \/ p = "boot" \/ todo'["boot"] = todo["boot"]
         \/ todo'["boot"] = <<"boot-check">> /\ h = "boot-load"
      /\ Closed(todo[p]) => Closed(todo'[p])
      /\ \/ Elems(todo'[p]) = T
         \/ h \in {"apply", "probe"} /\ desired = "on"
         \/ h \in {"ensure", "trial", "judge"}
  BY ExecuteFacts
<1>2. Effect(p, h) /\ Scripts' /\ Shape /\ Shape' /\ Booting /\ desired \in {"on", "off"}
      /\ "boot" \in Process /\ todo' \in [Process -> Seq(Step)]
      /\ pf \in BOOLEAN /\ job \in BOOLEAN
  <2>1. [Next]_all
    BY DEF Next
  <2>2. Scripts'
    BY <2>1, ScriptsStep
  <2> QED BY <2>2, Effects DEF Scripts, Typed, TypeOK, Process
<1>3. /\ h = "desired-off" /\ Closed(todo[p]) => "desired-on" \in T
      /\ h = "stop-fw" /\ Closed(todo[p]) => "start-fw" \in T
      /\ h = "bootout" /\ Closed(todo[p]) => "bootstrap" \in T
  BY <1>1, ClosedRest
<1> HIDE DEF h, T
<1>4. Elems(<<"boot-check">>) = {"boot-check"}
  BY CheckFacts
<1>5. /\ Elems(todo["boot"]) \cap {"desired-on", "desired-off", "stop-fw"} = {}
      /\ todo'["boot"] = <<"boot-check">> => ~Ons("boot")' /\ ~Offs("boot")'
  BY <1>2, <1>4 DEF Booting, BootSteps, Ons, Offs, OnSteps, OffSteps
<1>6. /\ Offs(p) => Elems(todo[p]) \subseteq OffSteps \cup {"kill"}
      /\ Offs(p) /\ h # "desired-off" => ("desired-off" \in Elems(todo[p]) => Offs(p)')
  <2>1. Offs(p) => Elems(todo[p]) \subseteq OffSteps \cup {"kill"}
    BY <1>1, <1>2, OffsArePure DEF Shape, PureOff, Offs, Ons
  <2>2. ASSUME Offs(p), h # "desired-off", "desired-off" \in Elems(todo[p])
        PROVE  Offs(p)'
    <3>1. h \in OffSteps \cup {"kill"} /\ T \subseteq OffSteps \cup {"kill"} /\ "desired-off" \in T
      BY <1>1, <2>1, <2>2
    <3>2. Elems(todo'[p]) = T
      BY <1>1, <3>1 DEF OffSteps
    <3>3. T \cap OnSteps = {} /\ T \cap OffSteps # {}
      BY <3>1 DEF OnSteps, OffSteps
    <3> QED BY <3>2, <3>3 DEF Offs, Ons
  <2> QED BY <2>1, <2>2
\* Another script's direction stays, unless it is the boot loader's, which begins anew.
<1>7. \A q \in Process \ {p} : /\ Ons(q)' => Ons(q)
                               /\ Offs(q)' => Offs(q)
                               /\ Ons(q) /\ q # "boot" => Ons(q)'
                               /\ Offs(q) /\ q # "boot" => Offs(q)'
  <2> SUFFICES ASSUME NEW q \in Process \ {p}
               PROVE  /\ Ons(q)' => Ons(q)
                      /\ Offs(q)' => Offs(q)
                      /\ Ons(q) /\ q # "boot" => Ons(q)'
                      /\ Offs(q) /\ q # "boot" => Offs(q)'
    OBVIOUS
  <2>1. todo'[q] = todo[q] \/ (q = "boot" /\ todo'["boot"] = <<"boot-check">>)
    BY <1>1
  <2>2. CASE todo'[q] = todo[q]
    BY <2>2 DEF Ons, Offs
  <2>3. CASE q = "boot" /\ todo'["boot"] = <<"boot-check">>
    BY <1>5, <2>3
  <2> QED BY <2>1, <2>2, <2>3
\* What is pending stays so, or is done by this step.
<1>8. /\ \A x \in {"desired-on", "desired-off", "stop-fw"} : Pending(x) => h = x \/ Pending(x)'
      /\ \A x \in {"start-fw", "bootstrap", "bootout"} :
           Pending(x) => h = x \/ Pending(x)' \/ Checking'
      /\ Checking => Checking'
  <2>1. ASSUME NEW x, NEW q \in Process, x \in Elems(todo[q]), h # x
        PROVE  Pending(x)' \/ (q = "boot" /\ Checking')
    <3>1. CASE q = p
      <4>1. x \in Elems(todo'[p])
        BY <1>1, <2>1, <3>1
      <4> QED BY <4>1 DEF Pending
    <3>2. CASE q # p /\ todo'[q] = todo[q]
      BY <2>1, <3>2 DEF Pending
    <3>3. CASE q # p /\ todo'[q] # todo[q]
      BY <1>1, <3>3 DEF Checking
    <3> QED BY <3>1, <3>2, <3>3
  <2>2. \A x \in {"desired-on", "desired-off", "stop-fw"} : Pending(x) => h = x \/ Pending(x)'
    BY <1>5, <2>1 DEF Pending
  <2>3. \A x \in {"start-fw", "bootstrap", "bootout"} :
          Pending(x) => h = x \/ Pending(x)' \/ Checking'
    BY <2>1 DEF Pending
  <2>4. Checking => Checking'
    <3> SUFFICES ASSUME Checking PROVE Checking'
      OBVIOUS
    <3>1. h # "boot-check"
      BY <1>2 DEF Effect
    <3>2. p # "boot"
      BY <1>1, <1>4, <3>1 DEF Checking
    <3> QED BY <1>1, <3>2 DEF Checking
  <2> QED BY <2>2, <2>3, <2>4
\* The direction of this script.
<1>9. /\ h \in OnSteps => Ons(p)
      /\ h \in OffSteps /\ ~Ons(p) => Offs(p)
      /\ Ons(p)' /\ ~Ons(p) => h \in {"apply", "probe"} /\ desired = "on"
      /\ Offs(p)' => Offs(p)
      /\ Ons(p) /\ h \in OffSteps => Closed(todo[p])
      /\ "desired-on" \in T => Ons(p)'
  <2>1. (h \in OnSteps => Ons(p)) /\ (h \in OffSteps /\ ~Ons(p) => Offs(p))
    BY <1>1 DEF Ons, Offs
  <2>2. Ons(p)' /\ ~Ons(p) => h \in {"apply", "probe"} /\ desired = "on"
    <3> SUFFICES ASSUME Ons(p)', ~Ons(p) PROVE h \in {"apply", "probe"} /\ desired = "on"
      OBVIOUS
    <3>1. T \cap OnSteps = {} /\ h \notin OnSteps
      BY <1>1 DEF Ons
    <3>2. Elems(todo'[p]) # T
      BY <3>1 DEF Ons
    <3> QED BY <1>1, <3>1, <3>2 DEF OnSteps
  <2>3. Offs(p)' => Offs(p)
    <3> SUFFICES ASSUME Offs(p)' PROVE Offs(p)
      OBVIOUS
    <3>1. ~Closed(todo'[p])
      BY <1>2, OffsArePure DEF Offs, Ons
    <3>2. Elems(todo[p]) \subseteq OffSteps \cup {"kill"}
      BY <1>1, <1>2, <3>1 DEF Shape, PureOff
    <3>3. Elems(todo'[p]) = T
      BY <1>1, <3>2 DEF OffSteps
    <3>4. Elems(todo[p]) \cap OffSteps # {} /\ Elems(todo[p]) \cap OnSteps = {}
      BY <1>1, <3>2, <3>3 DEF Offs, OffSteps, OnSteps
    <3> QED BY <3>4 DEF Offs, Ons
  <2>4. Ons(p) /\ h \in OffSteps => Closed(todo[p])
    <3>1. PureOff(todo[p]) => ~Ons(p)
      BY DEF PureOff, Ons, OffSteps, OnSteps
    <3> QED BY <1>2, <3>1 DEF Shape
  <2>5. "desired-on" \in T => Ons(p)'
    BY <1>1 DEF Ons, OnSteps
  <2> QED BY <2>1, <2>2, <2>3, <2>4, <2>5
<1>10. /\ desired' = IF h = "desired-on" THEN "on" ELSE IF h = "desired-off" THEN "off" ELSE desired
       /\ pf' = IF h = "start-fw" THEN TRUE ELSE IF h = "stop-fw" THEN FALSE ELSE pf
       /\ job' = IF h = "bootstrap" THEN TRUE ELSE IF h = "bootout" THEN FALSE ELSE job
  BY <1>2 DEF Effect
<1>11. ASSUME NEW x, x \in T PROVE Pending(x)'
  BY <1>1, <1>11 DEF Pending
\* To On.
<1>12. ASSUME GoesOn' PROVE GoesOn
  <2>1. CASE \E q \in Process : Ons(q)'
    <3>1. PICK q \in Process : Ons(q)'
      BY <2>1
    <3>2. CASE Ons(q)
      BY <3>2 DEF GoesOn
    <3>3. CASE ~Ons(q)
      <4>1. q = p /\ h \in {"apply", "probe"} /\ desired = "on"
        BY <1>7, <1>9, <3>1, <3>3
      <4>2. ASSUME NEW r \in Process, Offs(r) PROVE FALSE
        <5>1. r # p
          BY <1>1, <1>6, <4>1, <4>2 DEF OffSteps
        <5>2. todo'[r] = todo[r]
          BY <1>1, <4>1, <5>1
        <5>3. Offs(r)'
          BY <4>2, <5>2 DEF Offs, Ons
        <5> QED BY <3>1, <5>3 DEF Apart
      <4> QED BY <4>1, <4>2 DEF GoesOn
    <3> QED BY <3>2, <3>3
  <2>2. CASE desired' = "on" /\ (\A q \in Process : ~Offs(q)') /\ ~Ons(p)
    <3>1. desired = "on" /\ h # "desired-off"
      BY <1>9, <1>10, <2>2 DEF OnSteps
    <3>2. ASSUME NEW r \in Process, Offs(r) PROVE FALSE
      <4>1. Pending("desired-off")
        BY <3>1, <3>2 DEF Going, GoesOff, ComesOff
      <4>2. PICK q \in Process : "desired-off" \in Elems(todo[q])
        BY <4>1 DEF Pending
      <4>3. Offs(q) /\ q # "boot"
        BY <1>5, <3>2, <4>2 DEF Going, Apart, Offs, OffSteps
      <4>4. Offs(q)'
        BY <1>6, <1>7, <3>1, <4>2, <4>3
      <4> QED BY <2>2, <4>4
    <3> QED BY <3>1, <3>2 DEF GoesOn
  <2>3. CASE Ons(p)
    BY <2>3 DEF GoesOn
  <2> QED BY <1>12, <2>1, <2>2, <2>3 DEF GoesOn
<1>13. GoesOn' => ComesOn'
  <2> SUFFICES ASSUME GoesOn' PROVE ComesOn'
    OBVIOUS
  <2>1. GoesOn /\ ComesOn /\ Apart
    BY <1>12 DEF Going
  <2>2. h \in OffSteps => Closed(todo[p])
    BY <1>9, <2>1 DEF GoesOn, Apart
  <2>3. desired' = "on" \/ Pending("desired-on")'
    BY <1>3, <1>8, <1>10, <1>11, <2>1, <2>2 DEF ComesOn, OffSteps
  <2>4. pf' \/ Pending("start-fw")' \/ Checking'
    BY <1>3, <1>8, <1>10, <1>11, <2>1, <2>2 DEF ComesOn, OffSteps
  <2>5. job' \/ Pending("bootstrap")' \/ Checking'
    BY <1>3, <1>8, <1>10, <1>11, <2>1, <2>2 DEF ComesOn, OffSteps
  <2> QED BY <2>3, <2>4, <2>5 DEF ComesOn
\* To Off.
<1>14. ASSUME GoesOff' PROVE GoesOff
  <2>1. CASE \E q \in Process : Offs(q)'
    BY <1>7, <1>9, <2>1 DEF GoesOff
  <2>2. CASE desired' = "off" /\ (\A q \in Process : ~Ons(q)') /\ desired = "off"
    <3>1. ASSUME NEW r \in Process, Ons(r) PROVE FALSE
      <4>1. Pending("desired-on")
        BY <2>2, <3>1 DEF Going, GoesOn, ComesOn
      <4>2. PICK q \in Process : "desired-on" \in Elems(todo[q])
        BY <4>1 DEF Pending
      <4>3. Ons(q) /\ q # "boot"
        BY <1>5, <4>2 DEF Ons, OnSteps
      <4>4. h # "desired-on"
        BY <1>10, <2>2
      <4>5. Ons(q)'
        BY <1>1, <1>7, <1>9, <4>2, <4>3, <4>4
      <4> QED BY <2>2, <4>5
    <3> QED BY <2>2, <3>1 DEF GoesOff
  <2>3. CASE desired' = "off" /\ (\A q \in Process : ~Ons(q)') /\ desired = "on"
    <3>1. h = "desired-off"
      BY <1>10, <2>3
    <3>2. ~Ons(p)
      BY <1>3, <1>9, <2>3, <3>1 DEF OffSteps
    <3> QED BY <1>9, <3>1, <3>2 DEF GoesOff, OffSteps
  <2> QED BY <1>2, <1>14, <2>1, <2>2, <2>3 DEF GoesOff
<1>15. GoesOff' => ComesOff'
  <2> SUFFICES ASSUME GoesOff' PROVE ComesOff'
    OBVIOUS
  <2>1. GoesOff /\ ComesOff /\ Apart
    BY <1>14 DEF Going
  <2>2. h \notin OnSteps
    BY <1>9, <2>1 DEF GoesOff, Apart
  <2>3. desired' = "off" \/ Pending("desired-off")'
    BY <1>8, <1>10, <2>1, <2>2 DEF ComesOff, OnSteps
  <2>4. ~pf' \/ Pending("stop-fw")'
    BY <1>8, <1>10, <2>1, <2>2 DEF ComesOff, OnSteps
  <2>5. ~job' \/ Pending("bootout")' \/ Checking'
    BY <1>8, <1>10, <2>1, <2>2 DEF ComesOff, OnSteps
  <2> QED BY <2>3, <2>4, <2>5 DEF ComesOff
<1> QED BY <1>13, <1>15 DEF Going

\* Nothing changes where the scripts go when none that turns anything begins or ends.
LEMMA GoingSame ==
  ASSUME Going, UNCHANGED <<desired, pf, job>>, Checking <=> Checking',
         \A p \in Process : Elems(todo'[p]) \cap (OnSteps \cup OffSteps) =
                              Elems(todo[p]) \cap (OnSteps \cup OffSteps)
  PROVE  Going'
<1>1. \A p \in Process : \A x \in OnSteps \cup OffSteps : x \in Elems(todo'[p]) <=> x \in Elems(todo[p])
  OBVIOUS
<1>2. \A p \in Process : (Ons(p)' <=> Ons(p)) /\ (Offs(p)' <=> Offs(p))
  BY <1>1 DEF Ons, Offs
<1>3. \A x \in OnSteps \cup OffSteps : Pending(x)' <=> Pending(x)
  BY <1>1 DEF Pending
<1>4. Apart' /\ (GoesOn' <=> GoesOn) /\ (GoesOff' <=> GoesOff)
  BY <1>2 DEF Going, Apart, GoesOn, GoesOff
<1>5. (ComesOn' <=> ComesOn) /\ (ComesOff' <=> ComesOff)
  BY <1>3 DEF ComesOn, ComesOff, OnSteps, OffSteps
<1> QED BY <1>4, <1>5 DEF Going

\* The boot loader loads everything when Zapret is on, and its job's end is all that is
\* missing when it is off: launchd has loaded the job, and nothing else.
LEMMA GoingBootCheck ==
  ASSUME Scripts, Going, BootCheck, Apart'
  PROVE  Going'
<1> DEFINE s == IF desired = "on" THEN BootOn ELSE <<"bootout">>
<1>1. /\ "boot" \in Process /\ todo'["boot"] = s
      /\ \A q \in Process \ {"boot"} : todo'[q] = todo[q]
      /\ UNCHANGED <<desired, pf, job>> /\ desired \in {"on", "off"}
  BY BootCheckTyped DEF Scripts, Typed, TypeOK, Process, files, daemon
<1>2. Elems(todo["boot"]) \cap (OnSteps \cup OffSteps) = {}
  <2>1. "boot-check" \in Elems(todo["boot"])
    BY <1>1, TailFacts DEF BootCheck, At, Idle, Scripts, Typed, TypeOK
  <2>2. todo["boot"] = <<"boot-check">>
    BY <2>1 DEF Scripts, Booting, BootSteps
  <2>3. Elems(todo["boot"]) = {"boot-check"}
    BY <2>2, CheckFacts
  <2> QED BY <2>3 DEF OnSteps, OffSteps
<1>3. Elems(<<"bootout">>) = {"bootout"}
  BY OneFacts DEF Step
<1>4. \A x \in OnSteps \cup OffSteps : Pending(x) => Pending(x)'
  BY <1>1, <1>2 DEF Pending
<1>5. \A q \in Process \ {"boot"} : (Ons(q)' <=> Ons(q)) /\ (Offs(q)' <=> Offs(q))
  BY <1>1 DEF Ons, Offs
<1>6. ~Ons("boot") /\ ~Offs("boot")
  BY <1>2 DEF Ons, Offs
<1>7. CASE desired = "on"
  <2>1. Elems(todo'["boot"]) = {"start-fw", "kill", "bootout", "bootstrap"}
    BY <1>1, <1>7, BootOnFacts
  <2>2. Ons("boot")'
    BY <2>1 DEF Ons, OnSteps
  <2>3. \A q \in Process : ~Offs(q)'
    BY <1>1, <2>2 DEF Apart
  <2>4. ~GoesOff'
    BY <1>1, <1>7, <2>3 DEF GoesOff
  <2>5. Pending("start-fw")' /\ Pending("bootstrap")'
    BY <1>1, <2>1 DEF Pending
  <2>6. ComesOn'
    BY <1>1, <1>7, <2>5 DEF ComesOn
  <2> QED BY <2>4, <2>6 DEF Going
<1>8. CASE desired = "off"
  <2>1. Elems(todo'["boot"]) = {"bootout"}
    BY <1>1, <1>3, <1>8
  <2>2. Offs("boot")'
    BY <2>1 DEF Offs, Ons, OnSteps, OffSteps
  <2>3. \A q \in Process : ~Ons(q)'
    BY <1>1, <2>2 DEF Apart
  <2>4. ~GoesOn'
    BY <1>1, <1>8, <2>3 DEF GoesOn
  <2>5. GoesOff
    BY <1>5, <1>6, <1>8, <2>3 DEF GoesOff
  <2>6. ComesOff
    BY <2>5 DEF Going
  <2>7. Pending("bootout")'
    BY <1>1, <2>1 DEF Pending
  <2>8. ComesOff'
    BY <1>1, <1>4, <1>8, <2>6, <2>7 DEF ComesOff, OffSteps
  <2> QED BY <2>4, <2>8 DEF Going
<1> QED BY <1>1, <1>7, <1>8

\* A session begins a script that turns all on, turns all off, or turns nothing.
LEMMA GoingBegin ==
  ASSUME Scripts, NEW p \in User, NEW c \in Commands, Begin(p, c), ~raced', ~raced => Going
  PROVE  Going'
<1> DEFINE s == Script(c)
<1>1. /\ p \in Process /\ p # "boot" /\ todo[p] = <<>> /\ todo'[p] = s
      /\ \A q \in Process \ {p} : todo'[q] = todo[q]
      /\ UNCHANGED <<desired, pf, job>>
  BY UserAssumption DEF Begin, Scripts, Typed, TypeOK, Process, Idle, files, daemon
<1>2. Startable(c, s)
  BY ScriptFacts
<1> HIDE DEF s
<1>3. Apart'
  BY SameTurns DEF Begin
<1>4. CASE TurnsAllOn(s)
  <2>1. Ons(p)'
    BY <1>1, <1>4 DEF Ons, OnSteps, TurnsAllOn
  <2>2. ~GoesOff'
    BY <1>1, <1>3, <2>1 DEF Apart, GoesOff
  <2>3. ComesOn'
    BY <1>1, <1>4 DEF ComesOn, Pending, TurnsAllOn
  <2> QED BY <1>3, <2>2, <2>3 DEF Going
<1>5. CASE TurnsAllOff(s) /\ PureOff(s)
  <2>1. Offs(p)'
    BY <1>1, <1>5 DEF Offs, Ons, OnSteps, OffSteps, TurnsAllOff, PureOff
  <2>2. ~GoesOn'
    BY <1>1, <1>3, <2>1 DEF Apart, GoesOn
  <2>3. ComesOff'
    BY <1>1, <1>5 DEF ComesOff, Pending, TurnsAllOff, OffSteps
  <2> QED BY <1>3, <2>2, <2>3 DEF Going
<1>6. CASE Elems(s) \cap (OnSteps \cup OffSteps) = {}
  <2>1. ~Ons(p)' /\ ~Offs(p)'
    BY <1>1, <1>6 DEF Ons, Offs
  <2>2. ~TurnsOn(p)' /\ ~TurnsOff(p)'
    BY <1>1, <2>1, SameTurns
  <2>3. Going
    BY <2>2 DEF Begin
  <2>4. \A q \in Process : Elems(todo'[q]) \cap (OnSteps \cup OffSteps) =
                             Elems(todo[q]) \cap (OnSteps \cup OffSteps)
    BY <1>1, <1>6, EmptyFacts
  <2>5. Checking <=> Checking'
    BY <1>1 DEF Checking, Process
  <2> QED BY <1>1, <2>3, <2>4, <2>5, GoingSame
<1> QED BY <1>2, <1>4, <1>5, <1>6 DEF Startable

LEMMA GoingReboot ==
  ASSUME Scripts, Reboot
  PROVE  Going'
<1>1. /\ todo' = [p \in Process |-> IF p = "boot" THEN <<"boot-check">> ELSE <<>>]
      /\ desired' = desired /\ job' = TRUE /\ pf' = FALSE /\ desired \in {"on", "off"}
      /\ "boot" \in Process
  BY DEF Reboot, files, Scripts, Typed, TypeOK, Process
<1>2. \A p \in Process : Elems(todo'[p]) \subseteq {"boot-check"}
  <2> SUFFICES ASSUME NEW p \in Process PROVE Elems(todo'[p]) \subseteq {"boot-check"}
    OBVIOUS
  <2>1. todo'[p] = <<"boot-check">> \/ todo'[p] = <<>>
    BY <1>1
  <2> QED BY <2>1, CheckFacts, EmptyFacts
<1>3. \A p \in Process : ~Ons(p)' /\ ~Offs(p)'
  BY <1>2 DEF Ons, Offs, OnSteps, OffSteps
<1>4. Checking'
  BY <1>1 DEF Checking
<1> QED BY <1>1, <1>3, <1>4 DEF Going, Apart, GoesOn, GoesOff, ComesOn, ComesOff

LEMMA GoingStep ==
  ASSUME Scripts, ~raced => Going, [Next]_all
  PROVE  ~raced' => Going'
<1> SUFFICES ASSUME ~raced' PROVE Going'
  OBVIOUS
<1>0. todo \in [Process -> Seq(Step)]
  BY DEF Scripts, Typed, TypeOK
<1>1. ASSUME NEW p \in User, NEW c \in Commands, Begin(p, c) PROVE Going'
  BY <1>1, GoingBegin
<1>2. ASSUME NEW p \in Process, Execute(p) PROVE Going'
  <2>1. raced' = (raced \/ Conflict')
    BY <1>2, Effects DEF Scripts, Effect
  <2>2. Going /\ Apart'
    BY <2>1, SameTurns
  <2> QED BY <1>2, <2>2, GoingExecute
<1>3. CASE BootCheck
  <2>1. raced' = (raced \/ Conflict')
    BY <1>3 DEF BootCheck, Continue, Race
  <2> QED BY <1>3, <2>1, SameTurns, GoingBootCheck
<1>4. CASE Netwatch
  <2> DEFINE s == IF profile[net] = Nothing THEN <<"probe">> ELSE <<"apply">>
  <2>1. raced' = (raced \/ Conflict')
    BY <1>4 DEF Netwatch, Continue, Race
  <2>2. /\ todo["netwatch"] = <<>> /\ todo' = [todo EXCEPT !["netwatch"] = s]
        /\ UNCHANGED <<desired, pf, job>>
    BY <1>4, NetwatchTyped DEF Scripts, files, daemon
  <2>3. Elems(s) \cap (OnSteps \cup OffSteps) = {}
    <3>1. Elems(s) \subseteq {"probe", "apply"}
      BY ExtraOne
    <3> QED BY <3>1 DEF OnSteps, OffSteps
  <2> HIDE DEF s
  <2>4. \A q \in Process : Elems(todo'[q]) \cap (OnSteps \cup OffSteps) =
                             Elems(todo[q]) \cap (OnSteps \cup OffSteps)
    BY <1>0, <2>2, <2>3, EmptyFacts
  <2>5. Checking <=> Checking'
    BY <1>0, <2>2 DEF Checking, Process
  <2> QED BY <2>1, <2>2, <2>4, <2>5, GoingSame
<1>5. CASE Reboot
  BY <1>5, GoingReboot
<1>6. CASE Spawn \/ Exec \/ Die \/ Roam \/ SwitchWarp \/ UNCHANGED all
  <2>1. UNCHANGED <<todo, raced>> /\ UNCHANGED <<desired, pf, job>>
    BY <1>6 DEF Spawn, Exec, Die, Roam, SwitchWarp, all, files, daemon
  <2> QED BY <2>1, GoingSame DEF Checking
<1> QED BY <1>1, <1>2, <1>3, <1>4, <1>5, <1>6 DEF Next

\* No tpws without its job: bootout ends it, and launchd starts it only under the job.
NoTpws == ~job => tpws = "down"

LEMMA NoTpwsStep ==
  ASSUME Scripts, NoTpws, [Next]_all
  PROVE  NoTpws'
<1>1. ASSUME NEW p \in Process, Execute(p) PROVE NoTpws'
  BY <1>1, Effects DEF Scripts, Effect, NoTpws
<1>2. ASSUME NEW p \in User, NEW c \in Commands, Begin(p, c) PROVE NoTpws'
  BY <1>2 DEF Begin, daemon, NoTpws
<1>3. CASE BootCheck \/ Netwatch
  BY <1>3 DEF BootCheck, Netwatch, daemon, NoTpws
<1>4. CASE Spawn \/ Exec \/ Die \/ Reboot \/ Roam \/ SwitchWarp \/ UNCHANGED all
  BY <1>4 DEF Spawn, Exec, Die, Reboot, Roam, SwitchWarp, Exited, all, daemon, NoTpws
<1> QED BY <1>1, <1>2, <1>3, <1>4 DEF Next

\* Whatever scripts run, however they interleave with one another, with the network watch, the
\* boot loader and reboots: unless one that turns on overlaps one that turns off, the switch
\* ends where desired-state says.
THEOREM SwitchIsKept == Spec => []SwitchHolds
<1> DEFINE Inv == Scripts /\ NoTpws /\ (~raced => Going)
<1>1. Init => Inv
  <2> SUFFICES ASSUME Init PROVE Inv
    OBVIOUS
  <2>1. \A p \in Process : ~Ons(p) /\ ~Offs(p)
    BY EmptyFacts DEF Init, Ons, Offs
  <2>2. Going
    BY <2>1 DEF Init, Going, Apart, GoesOn, GoesOff, ComesOn
  <2> QED BY <2>2, ScriptsInit DEF Init, NoTpws
<1>2. Inv /\ [Next]_all => Inv'
  BY ScriptsStep, NoTpwsStep, GoingStep
<1>3. Inv => SwitchHolds
  <2> SUFFICES ASSUME Scripts, NoTpws, Going, Quiet
               PROVE  IF desired = "on" THEN On ELSE Off
    BY DEF SwitchHolds
  <2>1. \A p \in Process : todo[p] = <<>> /\ Elems(todo[p]) = {}
    BY EmptyFacts DEF Quiet, Idle
  <2>2. ~Checking
    BY <2>1 DEF Checking, Process
  <2>3. /\ \A p \in Process : ~Ons(p) /\ ~Offs(p)
        /\ \A x \in OnSteps \cup OffSteps : ~Pending(x)
    BY <2>1 DEF Ons, Offs, Pending
  <2>4. CASE desired = "on"
    <3>1. ComesOn
      BY <2>3, <2>4 DEF Going, GoesOn
    <3> QED BY <2>2, <2>3, <2>4, <3>1 DEF ComesOn, On, OnSteps
  <2>5. CASE desired = "off"
    <3>1. ComesOff
      BY <2>3, <2>5 DEF Going, GoesOff
    <3> QED BY <2>2, <2>3, <2>5, <3>1 DEF ComesOff, Off, OffSteps, NoTpws
  <2> QED BY <2>4, <2>5 DEF Scripts, Typed, TypeOK
<1> QED BY <1>1, <1>2, <1>3, PTL DEF Spec

=============================================================================
