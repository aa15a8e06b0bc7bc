--------------------------- MODULE BootstrapProofs ---------------------------
(***************************************************************************)
(* Theorems about Envoy's bootstrap document, for any number of settings   *)
(* that differ from their defaults.                                        *)
(***************************************************************************)
EXTENDS Bootstrap, SequenceTheorems, TLAPS

(* What the settings that name something can be. *)
SettingValues ==
  /\ in["clusters"] \in {"", "zipkin", "self_admin", "invalid"}
  /\ in["listeners"] \in {"", "users", "invalid"}
  /\ in["tags"] \in {"", "canary", "consul.source.service"}

(* A sequence, of whatever elements. *)
List(s) == s \in Seq(Range(s))

Unique(s) == \A i, j \in DOMAIN s : s[i].name = s[j].name => i = j

(* Whatever settings differ from their default. *)
LEMMA SettingsGiven ==
  ASSUME NEW n \in Nat, NEW changes \in [1..n -> Changes], in = With(changes)
  PROVE  SettingValues
<1>1. ASSUME NEW f \in DOMAIN Defaults
      PROVE  in[f] \in Others[f] \cup {Defaults[f]}
  <2>1. CASE \E i \in DOMAIN changes : changes[i][1] = f
    <3>1. PICK i \in DOMAIN changes : changes[i][1] = f /\ in[f] = changes[i][2]
      BY <2>1, Zenon DEF With
    <3>2. changes[i] \in Changes
      OBVIOUS
    <3>3. changes[i][2] \in Others[f]
      BY <3>1, <3>2 DEF Changes
    <3>4. QED
      BY <3>1, <3>3
  <2>2. CASE ~\E i \in DOMAIN changes : changes[i][1] = f
    BY <2>2 DEF With
  <2>3. QED
    BY <2>1, <2>2
<1>2. /\ Defaults["clusters"] = "" /\ Others["clusters"] = {"zipkin", "self_admin", "invalid"}
      /\ Defaults["listeners"] = "" /\ Others["listeners"] = {"users", "invalid"}
      /\ Defaults["tags"] = "" /\ Others["tags"] = {"canary", "consul.source.service"}
      /\ {"clusters", "listeners", "tags"} \subseteq DOMAIN Defaults
  BY DEF Defaults, Others
<1>3. QED
  BY <1>1, <1>2, Zenon DEF SettingValues

(* Lists of none, of one and of two elements. *)
LEMMA ShortList ==
  /\ List(<<>>) /\ DOMAIN <<>> = {} /\ Range(<<>>) = {} /\ Names(<<>>) = {} /\ Unique(<<>>)
  /\ \A d : List(<<d>>) /\ DOMAIN <<d>> = {1} /\ Range(<<d>>) = {d} /\ Names(<<d>>) = {d.name} /\ Unique(<<d>>)
  /\ \A d, e : /\ List(<<d, e>>) /\ Names(<<d, e>>) = {d.name, e.name}
               /\ d.name # e.name => Unique(<<d, e>>)
<1>1. /\ List(<<>>) /\ DOMAIN <<>> = {} /\ Range(<<>>) = {} /\ Names(<<>>) = {} /\ Unique(<<>>)
  BY DEF List, Range, Names, Unique
<1>2. ASSUME NEW d
      PROVE  List(<<d>>) /\ DOMAIN <<d>> = {1} /\ Range(<<d>>) = {d} /\ Names(<<d>>) = {d.name} /\ Unique(<<d>>)
  BY DEF List, Range, Names, Unique
<1>3. ASSUME NEW d, NEW e
      PROVE  /\ List(<<d, e>>) /\ Names(<<d, e>>) = {d.name, e.name}
             /\ d.name # e.name => Unique(<<d, e>>)
  BY DEF List, Range, Names, Unique
<1>4. QED
  BY <1>1, <1>2, <1>3, Zenon

(* What is put behind a list comes last in it. *)
LEMMA AddLast ==
  ASSUME NEW s, List(s), NEW e
  PROVE  /\ List(Append(s, e)) /\ Len(s) \in Nat /\ DOMAIN s = 1..Len(s)
         /\ DOMAIN Append(s, e) = 1..(Len(s) + 1)
         /\ \A i \in DOMAIN s : Append(s, e)[i] = s[i]
         /\ Append(s, e)[Len(s) + 1] = e
<1> DEFINE S == Range(s) \cup {e}
<1>1. s \in Seq(S) /\ e \in S
  BY SeqMonotonic DEF List
<1>2. /\ Append(s, e) \in Seq(S) /\ Len(s) \in Nat /\ DOMAIN s = 1..Len(s)
      /\ DOMAIN Append(s, e) = 1..(Len(s) + 1)
      /\ \A i \in DOMAIN s : Append(s, e)[i] = s[i]
      /\ Append(s, e)[Len(s) + 1] = e
  BY <1>1
<1>3. List(Append(s, e))
  BY <1>2, SeqOfRange, Zenon DEF List
<1>4. QED
  BY <1>2, <1>3

(* A name that is not in a list yet can be added to it. *)
LEMMA AddName ==
  ASSUME NEW s, List(s), NEW e
  PROVE  /\ Names(Append(s, e)) = Names(s) \cup {e.name} /\ Range(Append(s, e)) = Range(s) \cup {e}
         /\ Unique(s) /\ e.name \notin Names(s) => Unique(Append(s, e))
<1> DEFINE t == Append(s, e)
<1>1. /\ DOMAIN t = 1..(Len(s) + 1) /\ DOMAIN s = 1..Len(s) /\ Len(s) \in Nat
      /\ \A i \in DOMAIN s : t[i] = s[i]
      /\ t[Len(s) + 1] = e
  BY AddLast
<1> HIDE DEF t
<1>2. PICK k \in DOMAIN t : /\ t[k] = e /\ \A i \in DOMAIN s : i \in DOMAIN t /\ t[i] = s[i]
                           /\ \A i \in DOMAIN t : i \in DOMAIN s \/ i = k
  BY <1>1
<1>3. Names(t) = Names(s) \cup {e.name} /\ Range(t) = Range(s) \cup {e}
  BY <1>2 DEF Names, Range
<1>4. Unique(s) /\ e.name \notin Names(s) => Unique(t)
  BY <1>2 DEF Names, Unique
<1>5. QED
  BY <1>3, <1>4 DEF t

Fields == {"source", "agent", "backendPort", "ready", "sinks", "tags", "clusters", "listeners", "secrets"}

(* The sinks for statsd and dogstatsd have the address that their URL is. *)
SinkInv ==
  /\ List(doc.sinks)
  /\ \A i \in DOMAIN doc.sinks :
       doc.sinks[i].name \in {"statsd", "dogstatsd"} => doc.sinks[i].address = SinkAddress(in[doc.sinks[i].name])

Source == IF in.identity # "" THEN in.identity ELSE "service"

TagsGood ==
  /\ Unique(doc.tags)
  /\ \A i \in DOMAIN doc.tags :
       doc.tags[i].name = "consul.source.service" =>
         doc.tags[i].value = IF Central("tags") = "consul.source.service" THEN "users" ELSE Source

(* The service is known before the tags are made. *)
TagInv ==
  /\ step \in {"sinks", "tags"} => doc.source = Source
  /\ step \in {"static", "prometheus", "stats", "ready", "collector", "render", "rendered"} =>
       (Central("statsConfig") = "" => TagsGood)

(* The clusters: a name that a later step appends is not there yet.        *)
ClusterInv ==
  /\ List(doc.clusters) /\ Unique(doc.clusters)
  /\ step \in {"args", "sinks", "tags", "static"} => doc.clusters = <<>>
  /\ step = "prometheus" => Names(doc.clusters) \subseteq {in.clusters}
  /\ step \in {"prometheus", "stats", "ready", "collector"} => Loopback \notin Names(doc.clusters)
  /\ doc.backendPort \in {"", in.mergePort}
  /\ \A i \in DOMAIN doc.clusters :
       doc.clusters[i].name = "prometheus_backend" => doc.clusters[i].port = in.mergePort

(* The listeners: what one refers to is in the document from the step on   *)
(* that adds the listener.                                                 *)
ListenerInv ==
  /\ List(doc.listeners) /\ List(doc.secrets)
  /\ step \in {"args", "sinks", "tags", "static"} => doc.listeners = <<>>
  /\ \A i \in Generated :
       \/ doc.listeners[i].cluster \in Names(doc.clusters)
       \/ doc.listeners[i].name = "prometheus" /\ Central("clusters") = "self_admin"
  /\ \A i \in Generated : doc.listeners[i].tls => Range(Secrets) \subseteq Range(doc.secrets)
  /\ step \in {"stats", "ready", "collector", "render", "rendered"} /\ in.tls # "" /\ Central("prometheus") # "" =>
       \E i \in Generated : doc.listeners[i].name = "prometheus" /\ doc.listeners[i].tls

BootInv == SettingValues /\ DOMAIN doc = Fields /\ SinkInv /\ TagInv /\ ClusterInv /\ ListenerInv

(* The invariant holds of the empty document. *)
LEMMA BootInvInit == BootInit => BootInv
<1> SUFFICES ASSUME BootInit PROVE BootInv
  OBVIOUS
<1>1. PICK n \in 0..MaxSettings : \E changes \in [1..n -> Changes] : in = With(changes)
  BY DEF BootInit
<1>2. n \in Nat
  BY MaxSettingsAssumption
<1>3. SettingValues
  BY <1>1, <1>2, SettingsGiven
<1>4. /\ DOMAIN doc = Fields /\ doc.sinks = <<>> /\ doc.clusters = <<>> /\ doc.listeners = <<>>
      /\ doc.secrets = <<>> /\ doc.backendPort = "" /\ step = "args"
  BY Zenon DEF BootInit, NoDoc, Fields
<1>5. List(<<>>) /\ DOMAIN <<>> = {}
  BY ShortList
<1>6. QED
  BY <1>3, <1>4, <1>5, Zenon DEF BootInv, SinkInv, TagInv, ClusterInv, ListenerInv, Unique, Names, Generated

(* A step that leaves the document alone. *)
LEMMA BootSame ==
  ASSUME BootInv, UNCHANGED <<in, doc>>,
         \/ step' = step
         \/ step' = "failed"
         \/ step = "render" /\ step' = "rendered"
  PROVE  BootInv'
<1> USE DEF BootInv
<1>1. SettingValues' /\ DOMAIN doc' = Fields /\ SinkInv'
  BY Zenon DEF SettingValues, SinkInv, SinkAddress
<1>2. \A f : Central(f)' = Central(f)
  BY DEF Central
<1>3. TagInv'
  BY <1>2, Zenon DEF TagInv, TagsGood, Source
<1>4. ClusterInv'
  BY Zenon DEF ClusterInv
<1>5. ListenerInv'
  BY <1>2, Zenon DEF ListenerInv, Generated
<1>6. QED
  BY <1>1, <1>3, <1>4, <1>5

(* Where the steps lead. *)
LEMMA AfterStep ==
  /\ After["args"] = "sinks" /\ After["sinks"] = "tags" /\ After["tags"] = "static"
  /\ After["static"] = "prometheus" /\ After["prometheus"] = "stats" /\ After["stats"] = "ready"
  /\ After["ready"] = "collector" /\ After["collector"] = "render"
  BY DEF After

(* bootstrapConfig. *)
LEMMA BootArgs == BootInv /\ BootstrapConfig => BootInv'
<1> SUFFICES ASSUME BootInv, BootstrapConfig PROVE BootInv'
  OBVIOUS
<1> USE DEF BootInv
<1>1. CASE Fail
  BY <1>1, BootSame DEF Fail
<1>2. CASE ~Fail
  <2>1. /\ step = "args" /\ step' = "sinks" /\ UNCHANGED in
        /\ doc' = [doc EXCEPT !.source = Source,
                              !.agent = IF in.network = "unix" THEN "pipe" ELSE "socket_address",
                              !.ready = in.ready,
                              !.backendPort = IF in.central = "yes" THEN in.mergePort ELSE ""]
    BY <1>2, AfterStep DEF BootstrapConfig, Go, Source
  <2>2. /\ DOMAIN doc' = Fields /\ doc'.source = Source /\ doc'.backendPort \in {"", in.mergePort}
        /\ doc'.sinks = doc.sinks /\ doc'.clusters = doc.clusters /\ doc'.listeners = doc.listeners
        /\ doc'.secrets = doc.secrets
    BY <2>1 DEF Fields
  <2>3. SettingValues' /\ SinkInv'
    BY <2>1, <2>2, Zenon DEF SettingValues, SinkInv, SinkAddress
  <2>4. TagInv'
    BY <2>1, <2>2 DEF TagInv, Source
  <2>5. ClusterInv'
    BY <2>1, <2>2, Zenon DEF ClusterInv, Names
  <2>6. ListenerInv'
    BY <2>1, <2>2, ShortList DEF ListenerInv, Generated
  <2>7. QED
    BY <2>2, <2>3, <2>4, <2>5, <2>6, Zenon
<1>3. QED
  BY <1>1, <1>2

(* Two lists after each other: the elements of both. *)
LEMMA JoinLists ==
  ASSUME NEW s, List(s), NEW t, List(t)
  PROVE  LET u == s \o t IN
         /\ List(u) /\ Range(u) = Range(s) \cup Range(t) /\ Names(u) = Names(s) \cup Names(t)
         /\ Unique(s) /\ Unique(t) /\ Names(s) \cap Names(t) = {} => Unique(u)
<1> DEFINE S == Range(s) \cup Range(t)
           u == s \o t
           n == Len(s)
           m == Len(t)
<1>1. s \in Seq(S) /\ t \in Seq(S)
  BY SeqMonotonic DEF List
<1> HIDE DEF S
<1>2. /\ u \in Seq(S) /\ n \in Nat /\ m \in Nat /\ DOMAIN u = 1..(n + m) /\ DOMAIN s = 1..n /\ DOMAIN t = 1..m
      /\ \A i \in 1..n : u[i] = s[i]
      /\ \A i \in 1..m : u[n + i] = t[i]
  BY <1>1, ConcatProperties, LenProperties
<1>3. List(u)
  BY <1>2, SeqOfRange, Zenon DEF List
<1> HIDE DEF u, n, m
<1>4. \A i \in 1..(n + m) : i \in 1..n \/ \E j \in 1..m : i = n + j
  <2>1. \A i \in 1..(n + m) : ~(i \in 1..n) => i - n \in 1..m /\ i = n + (i - n)
    BY <1>2
  <2>2. QED
    BY <2>1
<1>5. ASSUME NEW i \in DOMAIN u
      PROVE  \/ i \in DOMAIN s /\ u[i] = s[i]
             \/ \E j \in DOMAIN t : i = n + j /\ u[i] = t[j]
  <2>1. CASE i \in 1..n
    BY <1>2, <2>1, Zenon
  <2>2. CASE \E j \in 1..m : i = n + j
    <3>1. PICK j \in 1..m : i = n + j
      BY <2>2
    <3>2. QED
      BY <1>2, <3>1, Zenon
  <2>3. QED
    BY <1>2, <1>4, <2>1, <2>2, Zenon
<1>6. /\ \A i \in DOMAIN s : i \in DOMAIN u /\ u[i] = s[i]
      /\ \A j \in DOMAIN t : n + j \in DOMAIN u /\ u[n + j] = t[j]
  BY <1>2
<1>7. Range(u) = Range(s) \cup Range(t)
  BY <1>5, <1>6 DEF Range
<1>8. Names(u) = Names(s) \cup Names(t)
  BY <1>5, <1>6 DEF Names
<1>9. ASSUME Unique(s), Unique(t), Names(s) \cap Names(t) = {}, NEW i \in DOMAIN u, NEW j \in DOMAIN u, u[i].name = u[j].name
      PROVE  i = j
  <2>1. CASE i \in DOMAIN s /\ u[i] = s[i] /\ j \in DOMAIN s /\ u[j] = s[j]
    BY <1>9, <2>1, Zenon DEF Unique
  <2>2. CASE \E k, l \in DOMAIN t : i = n + k /\ u[i] = t[k] /\ j = n + l /\ u[j] = t[l]
    BY <1>9, <2>2, Zenon DEF Unique
  <2>3. CASE i \in DOMAIN s /\ u[i] = s[i] /\ \E l \in DOMAIN t : j = n + l /\ u[j] = t[l]
    BY <1>9, <2>3 DEF Names
  <2>4. CASE j \in DOMAIN s /\ u[j] = s[j] /\ \E l \in DOMAIN t : i = n + l /\ u[i] = t[l]
    BY <1>9, <2>4 DEF Names
  <2>5. QED
    BY <1>5, <2>1, <2>2, <2>3, <2>4, Zenon
<1>10. QED
  BY <1>3, <1>7, <1>8, <1>9 DEF u, Unique

(* generateStatsSinks. *)
LEMMA BootSinks == BootInv /\ GenerateStatsSinks => BootInv'
<1> SUFFICES ASSUME BootInv, GenerateStatsSinks PROVE BootInv'
  OBVIOUS
<1> USE DEF BootInv
<1>1. CASE Fail
  BY <1>1, BootSame DEF Fail
<1>2. CASE ~Fail
  <2> DEFINE a == Sink("statsd", "statsd")
             b == Sink("dogstatsd", "dogstatsd")
             c == IF Central("sinks") = "" THEN <<>> ELSE <<[name |-> "users", address |-> "users"]>>
             sinks == (a \o b) \o c
  <2>1. /\ step = "sinks" /\ step' = "tags" /\ UNCHANGED in
        /\ doc' = [doc EXCEPT !.sinks = sinks]
    BY <1>2, AfterStep, Zenon DEF GenerateStatsSinks, Go
  <2> HIDE DEF sinks
  <2>2. /\ DOMAIN doc' = Fields /\ doc'.source = doc.source /\ doc'.backendPort = doc.backendPort
        /\ doc'.sinks = sinks /\ doc'.clusters = doc.clusters /\ doc'.listeners = doc.listeners
        /\ doc'.secrets = doc.secrets
    BY <2>1 DEF Fields
  <2>3. \A f \in {"statsd", "dogstatsd"} :
          /\ List(Sink(f, f))
          /\ \A x \in Range(Sink(f, f)) : x.name = f /\ x.address = SinkAddress(in[f])
    <3> SUFFICES ASSUME NEW f \in {"statsd", "dogstatsd"}
                 PROVE  /\ List(Sink(f, f))
                        /\ \A x \in Range(Sink(f, f)) : x.name = f /\ x.address = SinkAddress(in[f])
      OBVIOUS
    <3>1. CASE Central(f) = ""
      BY <3>1, ShortList, Zenon DEF Sink, Range
    <3>2. CASE Central(f) # ""
      <4> DEFINE x == [name |-> f, address |-> SinkAddress(in[f])]
      <4>1. Sink(f, f) = <<x>> /\ x.name = f /\ x.address = SinkAddress(in[f])
        BY <3>2, Zenon DEF Sink
      <4> HIDE DEF x
      <4>2. List(<<x>>) /\ Range(<<x>>) = {x}
        BY ShortList, Zenon
      <4>3. QED
        BY <4>1, <4>2
    <3>3. QED
      BY <3>1, <3>2, Zenon
  <2>4. List(c) /\ \A x \in Range(c) : x.name = "users"
    <3> DEFINE x == [name |-> "users", address |-> "users"]
    <3>1. x.name = "users" /\ c \in {<<>>, <<x>>}
      OBVIOUS
    <3> HIDE DEF x, c
    <3>2. List(<<x>>) /\ Range(<<x>>) = {x} /\ List(<<>>) /\ Range(<<>>) = {}
      BY ShortList, Zenon
    <3>3. QED
      BY <3>1, <3>2
  <2> HIDE DEF a, b, c
  <2>5. List(a \o b) /\ Range(a \o b) = Range(a) \cup Range(b)
    BY <2>3, JoinLists DEF a, b
  <2>6. List(sinks) /\ Range(sinks) = Range(a \o b) \cup Range(c)
    BY <2>4, <2>5, JoinLists DEF sinks
  <2>7. \A x \in Range(sinks) : x.name \in {"statsd", "dogstatsd"} => x.address = SinkAddress(in[x.name])
    BY <2>3, <2>4, <2>5, <2>6 DEF a, b
  <2>8. \A i \in DOMAIN sinks : sinks[i] \in Range(sinks)
    BY DEF Range
  <2>9. SinkInv'
    BY <2>1, <2>2, <2>6, <2>7, <2>8, ZenonT(30) DEF SinkInv, SinkAddress
  <2>10. SettingValues' /\ TagInv'
    BY <2>1, <2>2, Zenon DEF SettingValues, TagInv, Source
  <2>11. ClusterInv'
    BY <2>1, <2>2, Zenon DEF ClusterInv, Names
  <2>12. ListenerInv'
    BY <2>1, <2>2, ShortList DEF ListenerInv, Generated
  <2>13. QED
    BY <2>2, <2>9, <2>10, <2>11, <2>12
<1>3. QED
  BY <1>1, <1>2

(* A default tag keeps the names apart, whether it is added or not. *)
LEMMA DefaultAdded ==
  ASSUME NEW s, List(s), Unique(s), NEW t, t.name \in Names(s) => t.name \in Names(UserTags)
  PROVE  LET u == AddDefault(s, t) IN
         /\ List(u) /\ Unique(u) /\ Names(u) \subseteq Names(s) \cup {t.name}
         /\ \A x \in Range(u) : x \in Range(s) \/ (x = t /\ t.name \notin Names(UserTags))
<1>1. CASE t.value = "" \/ t.name \in Names(UserTags)
  BY <1>1, Zenon DEF AddDefault
<1>2. CASE ~(t.value = "" \/ t.name \in Names(UserTags))
  <2> DEFINE u == Append(s, t)
  <2>1. AddDefault(s, t) = u
    BY <1>2, Zenon DEF AddDefault
  <2>2. List(u) /\ Unique(u) /\ Names(u) = Names(s) \cup {t.name} /\ Range(u) = Range(s) \cup {t}
    BY <1>2, AddLast, AddName, Zenon
  <2> HIDE DEF u
  <2>3. QED
    BY <1>2, <2>1, <2>2, Zenon
<1>3. QED
  BY <1>1, <1>2, Zenon

(* generateStatsTags: the names are distinct and the service is the one of *)
(* the user, or the default.                                               *)
LEMMA TagsMade ==
  ASSUME SettingValues, doc.source = Source
  PROVE  LET made == GenerateStatsTags IN
         /\ Unique(made)
         /\ \A x \in Range(made) :
              x.name = "consul.source.service" =>
                x.value = IF Central("tags") = "consul.source.service" THEN "users" ELSE Source
<1> DEFINE rule(name) == [name |-> name, value |-> "regex"]
           u == [name |-> in.tags, value |-> IF in.tags = "canary" THEN "1" ELSE "users"]
           d == DefaultTags
<1>1. Central("tags") \in {"", "canary", "consul.source.service"} /\ (Central("tags") # "" => in.tags = Central("tags"))
  BY Zenon DEF Central, SettingValues
<1>2. u.name = in.tags /\ (in.tags = "consul.source.service" => u.value = "users")
  OBVIOUS
<1> HIDE DEF u
<1>3. UserTags = IF Central("tags") = "" THEN <<>> ELSE <<u>>
  BY DEF UserTags, u
<1>4. /\ List(UserTags) /\ Unique(UserTags)
      /\ Names(UserTags) = IF Central("tags") = "" THEN {} ELSE {Central("tags")}
      /\ \A x \in Range(UserTags) : x = u /\ Central("tags") # ""
  <2>1. /\ List(<<>>) /\ Unique(<<>>) /\ Names(<<>>) = {} /\ Range(<<>>) = {}
        /\ List(<<u>>) /\ Unique(<<u>>) /\ Names(<<u>>) = {u.name} /\ Range(<<u>>) = {u}
    BY ShortList, Zenon
  <2>2. QED
    BY <1>1, <1>2, <1>3, <2>1, Zenon
<1>5. /\ List(ResourceTagSpecifiers) /\ Unique(ResourceTagSpecifiers)
      /\ Names(ResourceTagSpecifiers) = {"consul.destination", "consul.upstream"}
  <2>1. ResourceTagSpecifiers = <<rule("consul.destination"), rule("consul.upstream")>>
    BY DEF ResourceTagSpecifiers
  <2>2. rule("consul.destination").name = "consul.destination" /\ rule("consul.upstream").name = "consul.upstream"
    OBVIOUS
  <2> HIDE DEF rule
  <2>3. LET p == rule("consul.destination")
            q == rule("consul.upstream")
        IN List(<<p, q>>) /\ Names(<<p, q>>) = {p.name, q.name} /\ (p.name # q.name => Unique(<<p, q>>))
    BY ShortList, Zenon
  <2>4. QED
    BY <2>1, <2>2, <2>3
<1> DEFINE t0 == UserTags \o ResourceTagSpecifiers
<1>6. /\ List(t0) /\ Unique(t0) /\ Names(t0) = Names(UserTags) \cup Names(ResourceTagSpecifiers)
      /\ Range(t0) = Range(UserTags) \cup Range(ResourceTagSpecifiers)
  <2>1. Names(UserTags) \cap Names(ResourceTagSpecifiers) = {}
    BY <1>1, <1>4, <1>5, Zenon
  <2>2. QED
    BY <1>4, <1>5, <2>1, JoinLists, Zenon
<1>7. /\ d[1].name = "local_cluster" /\ d[2].name = "consul.source.service"
      /\ d[3].name = "consul.source.namespace" /\ d[4].name = "consul.source.datacenter"
      /\ d[2].value = Source
  BY Zenon DEF DefaultTags
<1> DEFINE t1 == AddDefault(t0, d[1])
           t2 == AddDefault(t1, d[2])
           t3 == AddDefault(t2, d[3])
           t4 == AddDefault(t3, d[4])
<1>8. GenerateStatsTags = t4
  BY DEF GenerateStatsTags
<1> HIDE DEF d, t0
<1>9. /\ List(t1) /\ Unique(t1) /\ Names(t1) \subseteq Names(t0) \cup {d[1].name}
      /\ \A x \in Range(t1) : x \in Range(t0) \/ (x = d[1] /\ d[1].name \notin Names(UserTags))
  <2>1. d[1].name \in Names(t0) => d[1].name \in Names(UserTags)
    BY <1>5, <1>6, <1>7
  <2>2. QED
    BY <1>6, <2>1, DefaultAdded, Zenon
<1> HIDE DEF t1
<1>10. /\ List(t2) /\ Unique(t2) /\ Names(t2) \subseteq Names(t1) \cup {d[2].name}
       /\ \A x \in Range(t2) : x \in Range(t1) \/ (x = d[2] /\ d[2].name \notin Names(UserTags))
  <2>1. d[2].name \in Names(t1) => d[2].name \in Names(UserTags)
    BY <1>5, <1>6, <1>7, <1>9
  <2>2. QED
    BY <1>9, <2>1, DefaultAdded, Zenon
<1> HIDE DEF t2
<1>11. /\ List(t3) /\ Unique(t3) /\ Names(t3) \subseteq Names(t2) \cup {d[3].name}
       /\ \A x \in Range(t3) : x \in Range(t2) \/ (x = d[3] /\ d[3].name \notin Names(UserTags))
  <2>1. d[3].name \in Names(t2) => d[3].name \in Names(UserTags)
    BY <1>5, <1>6, <1>7, <1>9, <1>10
  <2>2. QED
    BY <1>10, <2>1, DefaultAdded, Zenon
<1> HIDE DEF t3
<1>12. /\ List(t4) /\ Unique(t4) /\ Names(t4) \subseteq Names(t3) \cup {d[4].name}
       /\ \A x \in Range(t4) : x \in Range(t3) \/ (x = d[4] /\ d[4].name \notin Names(UserTags))
  <2>1. d[4].name \in Names(t3) => d[4].name \in Names(UserTags)
    BY <1>5, <1>6, <1>7, <1>9, <1>10, <1>11
  <2>2. QED
    BY <1>11, <2>1, DefaultAdded, Zenon
<1> HIDE DEF t4
<1>13. \A x \in Range(ResourceTagSpecifiers) : x.name \in Names(ResourceTagSpecifiers)
  BY DEF Range, Names
<1>14. ASSUME NEW x \in Range(t4), x.name = "consul.source.service"
       PROVE  x.value = IF Central("tags") = "consul.source.service" THEN "users" ELSE Source
  <2>1. x \in Range(UserTags) \/ (x = d[2] /\ d[2].name \notin Names(UserTags))
    BY <1>5, <1>6, <1>7, <1>9, <1>10, <1>11, <1>12, <1>13, <1>14
  <2>2. CASE x \in Range(UserTags)
    BY <1>1, <1>2, <1>4, <1>14, <2>2, Zenon
  <2>3. CASE x = d[2] /\ d[2].name \notin Names(UserTags)
    BY <1>4, <1>7, <2>3, Zenon
  <2>4. QED
    BY <2>1, <2>2, <2>3
<1>15. QED
  BY <1>8, <1>12, <1>14

(* The tags. *)
LEMMA BootTags == BootInv /\ StatsConfig => BootInv'
<1> SUFFICES ASSUME BootInv, StatsConfig PROVE BootInv'
  OBVIOUS
<1> USE DEF BootInv
<1> DEFINE tags == IF Central("statsConfig") # "" THEN <<[name |-> "users", value |-> "users"]>>
                   ELSE GenerateStatsTags
<1>1. /\ step = "tags" /\ step' = "static" /\ UNCHANGED in
      /\ doc' = [doc EXCEPT !.tags = tags]
  BY AfterStep, Zenon DEF StatsConfig, Go
<1>2. Central("statsConfig") = "" => tags = GenerateStatsTags
  BY Zenon
<1> HIDE DEF tags
<1>3. /\ DOMAIN doc' = Fields /\ doc'.source = doc.source /\ doc'.backendPort = doc.backendPort
      /\ doc'.sinks = doc.sinks /\ doc'.clusters = doc.clusters /\ doc'.listeners = doc.listeners
      /\ doc'.secrets = doc.secrets /\ doc'.tags = tags
  BY <1>1 DEF Fields
<1>4. \A f : Central(f)' = Central(f)
  BY <1>1 DEF Central
<1>5. ASSUME Central("statsConfig") = ""
      PROVE  TagsGood'
  <2> DEFINE made == GenerateStatsTags
  <2>1. /\ Unique(made)
        /\ \A x \in Range(made) :
             x.name = "consul.source.service" =>
               x.value = IF Central("tags") = "consul.source.service" THEN "users" ELSE Source
    BY <1>1, TagsMade DEF TagInv
  <2>2. doc'.tags = made
    BY <1>2, <1>3, <1>5, Zenon
  <2> HIDE DEF made
  <2>3. \A i \in DOMAIN made : made[i] \in Range(made)
    BY DEF Range
  <2>4. Source' = Source /\ Central("tags")' = Central("tags")
    BY <1>1 DEF Source, Central
  <2>5. QED
    BY <2>1, <2>2, <2>3, <2>4 DEF TagsGood
<1>6. TagInv'
  BY <1>1, <1>4, <1>5, Zenon DEF TagInv
<1>7. SettingValues' /\ SinkInv'
  BY <1>1, <1>3, Zenon DEF SettingValues, SinkInv, SinkAddress
<1>8. ClusterInv'
  BY <1>1, <1>3, Zenon DEF ClusterInv, Names
<1>9. ListenerInv'
  BY <1>1, <1>3, ShortList DEF ListenerInv, Generated
<1>10. QED
  BY <1>3, <1>6, <1>7, <1>8, <1>9

(* The user's clusters and listeners. *)
LEMMA BootStatic == BootInv /\ StaticJSON => BootInv'
<1> SUFFICES ASSUME BootInv, StaticJSON PROVE BootInv'
  OBVIOUS
<1> USE DEF BootInv
<1> DEFINE c == [name |-> in.clusters, port |-> "users"]
           l == [name |-> in.listeners, cluster |-> "users", tls |-> FALSE]
           clusters == IF Central("clusters") = "" THEN <<>> ELSE <<c>>
           listeners == IF Central("listeners") = "" THEN <<>> ELSE <<l>>
<1>1. /\ step = "static" /\ step' = "prometheus" /\ UNCHANGED in
      /\ doc' = [doc EXCEPT !.clusters = clusters, !.listeners = listeners]
  BY AfterStep DEF StaticJSON, Go
<1>2. c.name = in.clusters /\ l.name = in.listeners
  OBVIOUS
<1> HIDE DEF c, l
<1>3. /\ List(<<>>) /\ Unique(<<>>) /\ Names(<<>>) = {} /\ DOMAIN <<>> = {} /\ Range(<<>>) = {}
      /\ List(<<c>>) /\ Unique(<<c>>) /\ Names(<<c>>) = {c.name} /\ DOMAIN <<c>> = {1} /\ Range(<<c>>) = {c}
      /\ List(<<l>>) /\ DOMAIN <<l>> = {1} /\ Range(<<l>>) = {l}
  BY ShortList, Zenon
<1>4. /\ List(clusters) /\ Unique(clusters) /\ Names(clusters) \subseteq {in.clusters}
      /\ \A i \in DOMAIN clusters : clusters[i].name = in.clusters
  <2>1. CASE clusters = <<>>
    BY <1>3, <2>1, Zenon
  <2>2. CASE clusters = <<c>>
    <3>1. <<c>>[1] = c
      OBVIOUS
    <3>2. QED
      BY <1>2, <1>3, <2>2, <3>1, Zenon
  <2>3. QED
    BY <2>1, <2>2, Zenon
<1>5. /\ List(listeners)
      /\ \A i \in DOMAIN listeners : listeners[i].name = in.listeners
  <2>1. CASE listeners = <<>>
    BY <1>3, <2>1, Zenon
  <2>2. CASE listeners = <<l>>
    <3>1. <<l>>[1] = l
      OBVIOUS
    <3>2. QED
      BY <1>2, <1>3, <2>2, <3>1, Zenon
  <2>3. QED
    BY <2>1, <2>2, Zenon
<1> HIDE DEF clusters, listeners
<1>6. /\ DOMAIN doc' = Fields /\ doc'.source = doc.source /\ doc'.backendPort = doc.backendPort
      /\ doc'.sinks = doc.sinks /\ doc'.clusters = clusters /\ doc'.listeners = listeners
      /\ doc'.secrets = doc.secrets /\ doc'.tags = doc.tags
  BY <1>1 DEF Fields
<1>7. SettingValues' /\ SinkInv'
  BY <1>1, <1>6, Zenon DEF SettingValues, SinkInv, SinkAddress
<1>8. TagInv'
  <2>1. Source' = Source /\ \A f : Central(f)' = Central(f)
    BY <1>1 DEF Source, Central
  <2>2. QED
    BY <1>1, <1>6, <2>1, Zenon DEF TagInv, TagsGood
<1>9. ClusterInv'
  <2>1. in.clusters \notin {Loopback, "prometheus_backend"}
    BY Zenon DEF SettingValues, Loopback
  <2>2. Loopback \notin Names(clusters)
    BY <1>4, <2>1
  <2>3. doc.backendPort \in {"", in.mergePort}
    BY Zenon DEF ClusterInv
  <2>4. QED
    BY <1>1, <1>4, <1>6, <2>1, <2>2, <2>3, ZenonT(30) DEF ClusterInv
<1>10. Generated' = {}
  BY <1>5, <1>6, Zenon DEF Generated, SettingValues
<1>11. ListenerInv'
  BY <1>1, <1>5, <1>6, <1>10 DEF ListenerInv
<1>12. QED
  BY <1>6, <1>7, <1>8, <1>9, <1>11

(* generateListenerConfig, of each of the three listeners. *)
LEMMA BootListener ==
  ASSUME BootInv, NEW l \in {"prometheus", "stats", "ready"}, NEW bindAddr, GenerateListener(l, bindAddr),
         l = "prometheus" => bindAddr = Central("prometheus")
  PROVE  BootInv'
<1> USE DEF BootInv
<1>1. CASE Fail
  BY <1>1, BootSame DEF Fail
<1>c. Source' = Source /\ \A f : Central(f)' = Central(f)
  <2>1. UNCHANGED in
    BY Zenon DEF GenerateListener, Fail, Go
  <2>2. QED
    BY <2>1, Zenon DEF Source, Central
<1>s. ~Fail => step = l /\ step' \in {"stats", "ready", "collector"} /\ (step' = "stats" <=> l = "prometheus")
  <2>1. ~Fail => step = l /\ step' = After[l]
    BY Zenon DEF GenerateListener, Go
  <2>2. QED
    BY <2>1, AfterStep
<1>2. CASE ~Fail /\ bindAddr = ""
  <2>1. UNCHANGED <<in, doc>>
    BY <1>2, Zenon DEF GenerateListener, Go
  <2>2. SettingValues' /\ SinkInv' /\ DOMAIN doc' = Fields
    BY <2>1, Zenon DEF SettingValues, SinkInv, SinkAddress
  <2>3. TagInv'
    BY <1>2, <1>s, <1>c, <2>1, Zenon DEF TagInv, TagsGood
  <2>4. ClusterInv'
    BY <1>2, <1>s, <2>1, Zenon DEF ClusterInv
  <2>5. ListenerInv'
    BY <1>2, <1>s, <1>c, <2>1, Zenon DEF ListenerInv, Generated
  <2>6. QED
    BY <2>2, <2>3, <2>4, <2>5
<1>3. CASE ~Fail /\ bindAddr # ""
  <2> DEFINE c == ClusterOf(l)
             x == [name |-> l, cluster |-> c.name, tls |-> in.tls # ""]
             clusters == AddCluster(doc.clusters, c)
             listeners == Append(doc.listeners, x)
             secrets == IF in.tls # "" THEN doc.secrets \o Secrets ELSE doc.secrets
  <2>1. /\ UNCHANGED in
        /\ doc' = [doc EXCEPT !.clusters = clusters, !.listeners = listeners, !.secrets = secrets]
    BY <1>3, Zenon DEF GenerateListener, Go
  <2>2. /\ DOMAIN doc' = Fields /\ doc'.source = doc.source /\ doc'.backendPort = doc.backendPort
        /\ doc'.sinks = doc.sinks /\ doc'.clusters = clusters /\ doc'.listeners = listeners
        /\ doc'.secrets = secrets /\ doc'.tags = doc.tags
    BY <2>1, Zenon DEF Fields
  <2>3. /\ x.name = l /\ x.cluster = c.name /\ (x.tls <=> in.tls # "")
    BY Zenon
  <2>4. \/ l = "prometheus" /\ c.name = "prometheus_backend" /\ c.port = in.mergePort
        \/ c.name = "self_admin"
    BY Zenon DEF ClusterOf, ClusterInv
  <2> HIDE DEF c, x
  <2>5. /\ List(clusters) /\ Unique(clusters) /\ Names(clusters) \subseteq Names(doc.clusters) \cup {c.name}
        /\ Names(doc.clusters) \subseteq Names(clusters)
        /\ "self_admin" \in Names(doc.clusters) \/ c.name \in Names(clusters)
        /\ \A y \in Range(clusters) : y \in Range(doc.clusters) \/ y = c
    <3>1. CASE "self_admin" \in Names(doc.clusters)
      BY <3>1, Zenon DEF AddCluster, ClusterInv
    <3>2. CASE "self_admin" \notin Names(doc.clusters)
      <4> DEFINE s == doc.clusters
                 t == Append(s, c)
      <4>1. List(s) /\ Unique(s)
        BY Zenon DEF ClusterInv
      <4>2. c.name \notin Names(s)
        <5>1. CASE c.name = "self_admin"
          BY <3>2, <5>1
        <5>2. CASE l = "prometheus" /\ c.name = "prometheus_backend"
          <6>1. Names(s) \subseteq {in.clusters} /\ in.clusters # "prometheus_backend"
            BY <1>3, <1>s, <5>2, Zenon DEF ClusterInv, SettingValues
          <6>2. QED
            BY <5>2, <6>1
        <5>3. QED
          BY <2>4, <5>1, <5>2
      <4>3. List(t) /\ Unique(t) /\ Names(t) = Names(s) \cup {c.name} /\ Range(t) = Range(s) \cup {c}
        BY <4>1, <4>2, AddLast, AddName, Zenon
      <4>4. clusters = t
        BY <3>2 DEF AddCluster
      <4> HIDE DEF t, s
      <4>5. QED
        BY <4>3, <4>4 DEF s
    <3>3. QED
      BY <3>1, <3>2
  <2>6. /\ List(listeners) /\ DOMAIN doc.listeners \subseteq DOMAIN listeners
        /\ \A i \in DOMAIN doc.listeners : listeners[i] = doc.listeners[i]
        /\ \E k \in DOMAIN listeners : listeners[k] = x
        /\ \A i \in DOMAIN listeners : i \in DOMAIN doc.listeners \/ listeners[i] = x
    <3> DEFINE s == doc.listeners
    <3>1. List(s)
      BY Zenon DEF ListenerInv
    <3>2. /\ List(listeners) /\ Len(s) \in Nat /\ DOMAIN s = 1..Len(s) /\ DOMAIN listeners = 1..(Len(s) + 1)
          /\ \A i \in DOMAIN s : listeners[i] = s[i]
          /\ listeners[Len(s) + 1] = x
      BY <3>1, AddLast
    <3> HIDE DEF s, listeners
    <3>3. Len(s) + 1 \in DOMAIN listeners /\ \A i \in DOMAIN listeners : i \in DOMAIN s \/ i = Len(s) + 1
      BY <3>2
    <3>4. DOMAIN s \subseteq DOMAIN listeners
      BY <3>2
    <3>5. QED
      BY <3>2, <3>3, <3>4, Zenon DEF s
  <2>7. /\ List(secrets) /\ Range(doc.secrets) \subseteq Range(secrets)
        /\ in.tls # "" => Range(Secrets) \subseteq Range(secrets)
    <3>1. List(doc.secrets) /\ List(Secrets)
      BY ShortList, Zenon DEF ListenerInv, Secrets
    <3>2. List(doc.secrets \o Secrets) /\ Range(doc.secrets \o Secrets) = Range(doc.secrets) \cup Range(Secrets)
      BY <3>1, JoinLists
    <3>3. QED
      BY <3>1, <3>2, Zenon
  <2> HIDE DEF clusters, listeners, secrets
  <2>8. SettingValues' /\ SinkInv'
    BY <2>1, <2>2, Zenon DEF SettingValues, SinkInv, SinkAddress
  <2>9. TagInv'
    BY <1>3, <1>s, <1>c, <2>2, Zenon DEF TagInv, TagsGood
  <2>10. ClusterInv'
    <3>1. \A i \in DOMAIN clusters : clusters[i].name = "prometheus_backend" => clusters[i].port = in.mergePort
      <4>1. \A y \in Range(doc.clusters) : y.name = "prometheus_backend" => y.port = in.mergePort
        BY Zenon DEF ClusterInv, Range
      <4>2. \A y \in Range(clusters) : y.name = "prometheus_backend" => y.port = in.mergePort
        BY <2>4, <2>5, <4>1
      <4>3. QED
        BY <4>2 DEF Range
    <3>2. Loopback \notin Names(clusters)
      BY <1>3, <1>s, <2>4, <2>5, Zenon DEF ClusterInv, Loopback
    <3>3. QED
      BY <1>3, <1>s, <2>1, <2>2, <2>5, <3>1, <3>2, Zenon DEF ClusterInv
  <2>11. ListenerInv'
    <3>1. \A i \in Generated' : (i \in Generated /\ listeners[i] = doc.listeners[i]) \/ listeners[i] = x
      BY <2>2, <2>6 DEF Generated
    <3>2. \A i \in Generated : i \in Generated' /\ listeners[i] = doc.listeners[i]
      BY <2>2, <2>6 DEF Generated
    <3>3. \E i \in Generated' : listeners[i] = x
      BY <2>2, <2>3, <2>6, Zenon DEF Generated
    <3>4. c.name \in Names(clusters) \/ (l = "prometheus" /\ Central("clusters") = "self_admin")
      <4>1. CASE l = "prometheus" /\ "self_admin" \in Names(doc.clusters)
        <5>1. in.clusters = "self_admin"
          BY <1>3, <1>s, <4>1, Zenon DEF ClusterInv
        <5>2. in.central = "yes"
          BY <1>3, <4>1, Zenon DEF Central
        <5>3. QED
          BY <4>1, <5>1, <5>2 DEF Central
      <4>2. CASE l # "prometheus" \/ "self_admin" \notin Names(doc.clusters)
        BY <2>4, <2>5, <4>2
      <4>3. QED
        BY <4>1, <4>2
    <3>5. ASSUME NEW i \in Generated'
          PROVE  \/ listeners[i].cluster \in Names(clusters)
                 \/ listeners[i].name = "prometheus" /\ Central("clusters") = "self_admin"
      BY <2>3, <2>5, <3>1, <3>4, Zenon DEF ListenerInv
    <3>6. ASSUME NEW i \in Generated', listeners[i].tls
          PROVE  Range(Secrets) \subseteq Range(secrets)
      BY <2>3, <2>7, <3>1, <3>6, Zenon DEF ListenerInv
    <3>7. ASSUME in.tls # "", Central("prometheus") # ""
          PROVE  \E i \in Generated' : listeners[i].name = "prometheus" /\ listeners[i].tls
      <4>1. CASE l = "prometheus"
        BY <2>3, <3>3, <3>7, <4>1, Zenon
      <4>2. CASE l # "prometheus"
        BY <1>3, <1>s, <3>2, <3>7, <4>2, Zenon DEF ListenerInv
      <4>3. QED
        BY <4>1, <4>2
    <3>8. QED
      BY <1>3, <1>s, <1>c, <2>1, <2>2, <2>6, <2>7, <3>5, <3>6, <3>7, ZenonT(30) DEF ListenerInv
  <2>12. QED
    BY <2>2, <2>8, <2>9, <2>10, <2>11
<1>4. QED
  BY <1>1, <1>2, <1>3, Zenon

(* appendTelemetryCollectorConfig. *)
LEMMA BootCollector == BootInv /\ AppendTelemetryCollectorConfig => BootInv'
<1> SUFFICES ASSUME BootInv, AppendTelemetryCollectorConfig PROVE BootInv'
  OBVIOUS
<1> USE DEF BootInv
<1>1. step = "collector" /\ step' = "render" /\ UNCHANGED in
  BY AfterStep, Zenon DEF AppendTelemetryCollectorConfig, Go
<1>2. Source' = Source /\ \A f : Central(f)' = Central(f)
  BY <1>1 DEF Source, Central
<1>3. CASE doc' = doc
  <2>1. SettingValues' /\ SinkInv' /\ DOMAIN doc' = Fields
    BY <1>1, <1>3, Zenon DEF SettingValues, SinkInv, SinkAddress
  <2>2. TagInv'
    BY <1>1, <1>2, <1>3, Zenon DEF TagInv, TagsGood
  <2>3. ClusterInv'
    BY <1>1, <1>3, Zenon DEF ClusterInv
  <2>4. ListenerInv'
    BY <1>1, <1>2, <1>3, Zenon DEF ListenerInv, Generated
  <2>5. QED
    BY <2>1, <2>2, <2>3, <2>4
<1>4. CASE doc' # doc
  <2> DEFINE x == [name |-> "metrics_service", address |-> Loopback]
             c == [name |-> Loopback, port |-> "pipe"]
             sinks == Append(doc.sinks, x)
             clusters == Append(doc.clusters, c)
  <2>1. doc' = [doc EXCEPT !.sinks = sinks, !.clusters = clusters]
    BY <1>4, Zenon DEF AppendTelemetryCollectorConfig, Go
  <2>2. /\ DOMAIN doc' = Fields /\ doc'.backendPort = doc.backendPort /\ doc'.sinks = sinks
        /\ doc'.clusters = clusters /\ doc'.listeners = doc.listeners /\ doc'.secrets = doc.secrets
        /\ doc'.tags = doc.tags
    BY <2>1 DEF Fields
  <2>3. x.name = "metrics_service" /\ c.name = Loopback /\ Loopback # "prometheus_backend"
    BY DEF Loopback
  <2> HIDE DEF x, c
  <2>4. List(doc.sinks) /\ List(doc.clusters) /\ Unique(doc.clusters) /\ c.name \notin Names(doc.clusters)
    BY <1>1, <2>3, Zenon DEF SinkInv, ClusterInv
  <2>5. List(sinks) /\ Range(sinks) = Range(doc.sinks) \cup {x}
    BY <2>4, AddLast, AddName, Zenon
  <2>6. /\ List(clusters) /\ Unique(clusters) /\ Names(clusters) = Names(doc.clusters) \cup {c.name}
        /\ Range(clusters) = Range(doc.clusters) \cup {c}
    BY <2>4, AddLast, AddName, Zenon
  <2> HIDE DEF sinks, clusters
  <2>7. SettingValues' /\ SinkInv'
    <3>1. \A y \in Range(doc.sinks) : y.name \in {"statsd", "dogstatsd"} => y.address = SinkAddress(in[y.name])
      BY DEF SinkInv, Range
    <3>2. \A y \in Range(sinks) : y.name \in {"statsd", "dogstatsd"} => y.address = SinkAddress(in[y.name])
      BY <2>3, <2>5, <3>1
    <3>3. \A i \in DOMAIN sinks : sinks[i] \in Range(sinks)
      BY DEF Range
    <3>4. QED
      BY <1>1, <2>2, <2>5, <3>2, <3>3, Zenon DEF SettingValues, SinkInv, SinkAddress
  <2>8. TagInv'
    BY <1>1, <1>2, <2>2, Zenon DEF TagInv, TagsGood
  <2>9. ClusterInv'
    <3>1. \A y \in Range(doc.clusters) : y.name = "prometheus_backend" => y.port = in.mergePort
      BY Zenon DEF ClusterInv, Range
    <3>2. \A i \in DOMAIN clusters : clusters[i].name = "prometheus_backend" => clusters[i].port = in.mergePort
      BY <2>3, <2>6, <3>1 DEF Range
    <3>3. QED
      BY <1>1, <2>2, <2>6, <3>2, Zenon DEF ClusterInv
  <2>10. ListenerInv'
    BY <1>1, <1>2, <2>2, <2>6, Zenon DEF ListenerInv, Generated
  <2>11. QED
    BY <2>2, <2>7, <2>8, <2>9, <2>10
<1>5. QED
  BY <1>3, <1>4

(* Every step of ConfigureArgs and GenerateJSON preserves the invariant.   *)
LEMMA BootInvNext == BootInv /\ [BootNext]_bootVars => BootInv'
<1> SUFFICES ASSUME BootInv, [BootNext]_bootVars PROVE BootInv'
  OBVIOUS
<1>1. CASE GenerateListeners
  <2>1. CASE GenerateListener("prometheus", Central("prometheus"))
    BY <2>1, BootListener
  <2>2. CASE GenerateListener("stats", Central("stats"))
    BY <2>2, BootListener
  <2>3. CASE GenerateListener("ready", doc.ready)
    BY <2>3, BootListener
  <2>4. QED
    BY <1>1, <2>1, <2>2, <2>3 DEF GenerateListeners
<1>2. CASE Render \/ UNCHANGED bootVars
  <2>1. UNCHANGED <<in, doc>> /\ (step' \in {step, "failed"} \/ (step = "render" /\ step' = "rendered"))
    BY <1>2 DEF Render, Fail, bootVars
  <2>2. QED
    BY <2>1, BootSame
<1>3. QED
  BY <1>1, <1>2, BootArgs, BootSinks, BootTags, BootStatic, BootCollector DEF BootNext

(* The invariant holds of every bootstrap. *)
LEMMA BootInvariant == BootSpec => []BootInv
  BY BootInvInit, BootInvNext, PTL DEF BootSpec

(* generateListenerConfig: the listeners it generates route to clusters of *)
(* the document, for every combination of settings.                        *)
THEOREM ListenersRoute == BootSpec => []RoutesResolve
<1>1. BootInv => RoutesResolve
  BY Zenon DEF BootInv, ListenerInv, RoutesResolve
<1>2. QED
  BY BootInvariant, <1>1, PTL

(* generateListenerConfig and appendTelemetryCollectorConfig: no cluster   *)
(* is appended twice.                                                      *)
THEOREM NoClusterTwice == BootSpec => []ClusterNamesUnique
<1>1. BootInv => ClusterNamesUnique
  BY Zenon DEF BootInv, ClusterInv, ClusterNamesUnique, Unique
<1>2. QED
  BY BootInvariant, <1>1, PTL

(* generateStatsTags: no tag is given twice, and the user's wins. *)
THEOREM NoTagTwice == BootSpec => []TagsOnce
<1>1. BootInv => TagsOnce
  BY Zenon DEF BootInv, TagInv, TagsGood, TagsOnce, Unique, Source
<1>2. QED
  BY BootInvariant, <1>1, PTL

(* generateStatsSinkJSON and parseSinkAddr read a URL alike. *)
THEOREM SinkURLsReadAlike == BootSpec => []SinksAgree
<1>1. BootInv => SinksAgree
  <2> SUFFICES ASSUME BootInv, NEW i \in DOMAIN doc.sinks, doc.sinks[i].name \in {"statsd", "dogstatsd"}
               PROVE  \/ ParseSinkAddr(in[doc.sinks[i].name], doc.sinks[i].name) = doc.sinks[i].address
                      \/ doc.sinks[i].name = "statsd" /\ doc.sinks[i].address = "pipe"
    BY DEF SinksAgree
  <2> DEFINE sink == doc.sinks[i].name
             url == in[sink]
  <2>1. doc.sinks[i].address = SinkAddress(url)
    BY DEF BootInv, SinkInv
  <2> HIDE DEF sink, url
  <2>2. ParseSinkAddr(url, sink) = SinkAddress(url) \/ (sink # "dogstatsd" /\ SinkAddress(url) = "pipe")
    BY DEF ParseSinkAddr, SinkAddress
  <2>3. QED
    BY <2>1, <2>2 DEF sink, url
<1>2. QED
  BY BootInvariant, <1>1, PTL

(* bootstrapConfig and startMetrics work out one port. *)
THEOREM MergedPortsAgree == BootSpec => []PortsAgree
<1>1. BootInv => PortsAgree
  BY Zenon DEF BootInv, ClusterInv, PortsAgree, MergedPort
<1>2. QED
  BY BootInvariant, <1>1, PTL

(* generateListenerConfig: a listener that serves TLS finds its secrets,   *)
(* and the Prometheus listener does when certificates are given.           *)
THEOREM TLSHasSecrets == BootSpec => []TLSBacked
<1>1. BootInv => TLSBacked
  BY Zenon DEF BootInv, ListenerInv, TLSBacked
<1>2. QED
  BY BootInvariant, <1>1, PTL
=============================================================================
