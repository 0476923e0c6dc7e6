------------------------- MODULE ModelRegistryProofs -------------------------
(* Proofs about ModelRegistry, for any operations and versions.             *)
EXTENDS ModelRegistry, TLAPS, FiniteSetTheorems, FunctionTheorems, WellFoundedInduction

Slots == Versions \cup {Unversioned}

(* What a registry holds under a version, or without one. *)
Slot(s, v) ==
  IF v # Unversioned THEN s.versions[v]
  ELSE IF s.default.version = Unversioned THEN s.default ELSE NoModel

(* A registry files each model under its own version. *)
Filed(s) ==
  /\ s \in [versions : [Versions -> Objects \cup {NoModel}], default : Objects \cup {NoModel}]
  /\ \A v \in Versions : s.versions[v] # NoModel => s.versions[v].version = v

(* Its default, if it is versioned, is one it holds. *)
DefaultFiled(s) == s.default.version # Unversioned => s.versions[s.default.version] = s.default

(* Then nothing it holds is newer; and it has one if it holds anything. *)
Newest(s) ==
  /\ DefaultFiled(s)
  /\ s.default = NoModel => \A v \in Versions : s.versions[v] = NoModel
  /\ s.default.version # Unversioned =>
       \A v \in Versions : s.versions[v] # NoModel => v =< s.default.version

-----------------------------------------------------------------------------
(* Model objects and registries.                                            *)

(* A model object is known by the load that made it and its version, and    *)
(* none is NoModel.                                                         *)
LEMMA ObjectParts ==
  /\ NoModel.version = Unversioned /\ NoModel.id = "none"
  /\ \A o \in Loads : /\ Raw(o).id = o.id /\ Raw(o).version = o.version
                      /\ Wrap(Raw(o)).id = o.id /\ Wrap(Raw(o)).version = o.version
                      /\ Raw(o) \in Objects /\ Wrap(Raw(o)) \in Objects
  /\ \A m \in Objects : /\ m # NoModel /\ m.id # "none" /\ m.version \in Slots
                        /\ \E o \in Loads : m \in {Raw(o), Wrap(Raw(o))}
<1>1. NoModel.version = Unversioned /\ NoModel.id = "none"
  BY DEF NoModel, Unversioned
<1>2. ASSUME NEW o \in Loads
      PROVE  /\ Raw(o).id = o.id /\ Raw(o).version = o.version
             /\ Wrap(Raw(o)).id = o.id /\ Wrap(Raw(o)).version = o.version
             /\ Raw(o) \in Objects /\ Wrap(Raw(o)) \in Objects
             /\ o.version \in Slots /\ o.id # "none"
  BY OpsAssumption DEF Raw, Wrap, Objects, Of, Loads, Slots
<1>3. \A m \in Objects : \E o \in Loads : m \in {Raw(o), Wrap(Raw(o))}
  BY DEF Objects, Of
<1>4. \A m \in Objects : m.id # "none" /\ m.version \in Slots
  BY <1>2, <1>3
<1> QED  BY <1>1, <1>2, <1>3, <1>4

(* A set of numbers has a smallest one, and one of versions a greatest. *)
LEMMA Smallest ==
  ASSUME NEW T \in SUBSET Nat, T # {}
  PROVE  \E x \in T : \A y \in T : x =< y
<1> DEFINE R == {ss \in Nat \X Nat : ss[1] < ss[2]}
<1>1. IsWellFoundedOn(R, Nat)
  BY NatLessThanWellFounded DEF OpToRel
<1> HIDE DEF R
<1>2. \E x \in T : \A y \in T : ~(<<y, x>> \in R)
  BY <1>1, WFMin
<1>3. \A x, y \in T : ~(<<y, x>> \in R) => x =< y
  BY DEF R
<1> QED  BY <1>2, <1>3

(* A set of versions that has any has a greatest one: VersionsAssumption    *)
(* bounds them, and the naturals are well-founded.                          *)
LEMMA Greatest ==
  ASSUME NEW T \in SUBSET Versions, T # {}
  PROVE  \E x \in T : \A y \in T : y =< x
<1> DEFINE U == {MaxVersion - v : v \in T}
<1>1. /\ \A v \in T : v \in Nat /\ MaxVersion - v \in Nat
      /\ MaxVersion \in Nat
  BY VersionsAssumption DEF Versions
<1>2. U \in SUBSET Nat /\ U # {}
  BY <1>1
<1> HIDE DEF U
<1>3. PICK u \in U : \A y \in U : u =< y
  BY <1>2, Smallest
<1>4. PICK x \in T : u = MaxVersion - x
  BY <1>3 DEF U
<1>5. \A y \in T : MaxVersion - y \in U
  BY DEF U
<1>6. ASSUME NEW y \in T
      PROVE  y =< x
  <2>1. MaxVersion - x =< MaxVersion - y
    BY <1>3, <1>4, <1>5
  <2> QED  BY <1>1, <1>6, <2>1
<1> QED  BY <1>6

(* The models a registry holds, and the latest of them (_find_default). *)
LEMMA LatestHeld ==
  ASSUME NEW s, Filed(s)
  PROVE  /\ Held(s) = {s.versions[v] : v \in Versions} \ {NoModel}
         /\ \A m \in Held(s) : m \in Objects /\ m.version \in Versions /\ s.versions[m.version] = m
         /\ Latest(s) \in Held(s) \cup {NoModel}
         /\ Held(s) # {} => Latest(s) \in Held(s) /\ \A n \in Held(s) : n.version =< Latest(s).version
<1>1. Held(s) = {s.versions[v] : v \in Versions} \ {NoModel}
  BY DEF Held, Filed, Range
<1>2. \A m \in Held(s) : m \in Objects /\ m.version \in Versions /\ s.versions[m.version] = m
  BY <1>1 DEF Filed
<1>3. ASSUME Held(s) # {}
      PROVE  Latest(s) \in Held(s) /\ \A n \in Held(s) : n.version =< Latest(s).version
  <2> DEFINE T == {m.version : m \in Held(s)}
  <2>1. T \in SUBSET Versions /\ T # {}
    BY <1>2, <1>3
  <2> HIDE DEF T
  <2>2. PICK x \in T : \A y \in T : y =< x
    BY <2>1, Greatest
  <2>3. PICK m \in Held(s) : m.version = x
    BY DEF T
  <2>4. \A n \in Held(s) : n.version =< m.version
    BY <2>2, <2>3 DEF T
  <2> QED  BY <1>3, <2>4 DEF Latest
<1>4. Latest(s) \in Held(s) \cup {NoModel}
  BY <1>3 DEF Latest
<1> QED  BY <1>1, <1>2, <1>3, <1>4

(* Reading the default stores it, and changes nothing else. *)
LEMMA CachedKeeps ==
  ASSUME NEW s, Filed(s)
  PROVE  /\ Filed(Cached(s))
         /\ DefaultOf(s) \in Objects \cup {NoModel}
         /\ Cached(s).versions = s.versions /\ Cached(s).default = DefaultOf(s)
         /\ DefaultOf(s).version = Unversioned => DefaultOf(s) = s.default \/ DefaultOf(s) = NoModel
         /\ \A v \in Slots : Slot(Cached(s), v) = Slot(s, v)
         /\ DefaultFiled(s) => DefaultFiled(Cached(s))
         /\ Newest(s) => Newest(Cached(s))
<1>1. /\ s \in [versions : [Versions -> Objects \cup {NoModel}], default : Objects \cup {NoModel}]
      /\ \A v \in Versions : s.versions[v] # NoModel => s.versions[v].version = v
  BY DEF Filed
<1>2. /\ Cached(s).versions = s.versions /\ Cached(s).default = DefaultOf(s)
      /\ DefaultOf(s) \in Objects \cup {NoModel}
      /\ Cached(s) \in [versions : [Versions -> Objects \cup {NoModel}], default : Objects \cup {NoModel}]
  BY <1>1, LatestHeld DEF Cached, DefaultOf
<1>3. Filed(Cached(s))
  BY <1>1, <1>2 DEF Filed
<1>v. Unversioned \notin Versions /\ NoModel.version = Unversioned
  BY ObjectParts DEF Unversioned, Versions
<1>4. \/ s.default # NoModel /\ DefaultOf(s) = s.default
      \/ s.default = NoModel /\ Held(s) = {} /\ DefaultOf(s) = NoModel
      \/ s.default = NoModel /\ DefaultOf(s) \in Held(s) /\ \A n \in Held(s) : n.version =< DefaultOf(s).version
  BY <1>1, LatestHeld DEF DefaultOf, Latest
<1>5. DefaultOf(s) \in Held(s) => DefaultOf(s).version \in Versions /\ s.versions[DefaultOf(s).version] = DefaultOf(s)
  BY LatestHeld
<1>6. \A v \in Slots : Slot(Cached(s), v) = Slot(s, v)
  BY <1>v, <1>2, <1>4, <1>5 DEF Slot
<1>7. DefaultFiled(s) => DefaultFiled(Cached(s))
  BY <1>v, <1>2, <1>4, <1>5 DEF DefaultFiled
<1>8. Newest(s) => Newest(Cached(s))
  <2>1. \A v \in Versions : s.versions[v] # NoModel => s.versions[v] \in Held(s) /\ s.versions[v].version = v
    BY <1>1, LatestHeld
  <2> QED  BY <1>v, <1>2, <1>4, <1>7, <2>1 DEF Newest
<1> QED  BY <1>v, <1>2, <1>3, <1>4, <1>5, <1>6, <1>7, <1>8

(* A model that is registered takes the slot of its version (_register). *)
LEMMA RegisterFiles ==
  ASSUME NEW s, Filed(s), NEW m \in Objects
  PROVE  /\ Filed(Register(s, m))
         /\ \A v \in Slots : Slot(Register(s, m), v) = IF v = m.version THEN m ELSE Slot(s, v)
         /\ DefaultFiled(s) => DefaultFiled(Register(s, m))
         /\ Newest(s) => Newest(Register(s, m))
<1>1. /\ s \in [versions : [Versions -> Objects \cup {NoModel}], default : Objects \cup {NoModel}]
      /\ \A v \in Versions : s.versions[v] # NoModel => s.versions[v].version = v
      /\ m # NoModel /\ m.version \in Versions \cup {Unversioned}
  BY ObjectParts DEF Filed, Slots
<1>v. Unversioned \notin Versions /\ NoModel.version = Unversioned
  BY ObjectParts DEF Unversioned, Versions
<1> DEFINE r == Register(s, m)
<1>2. /\ r.versions = IF m.version = Unversioned THEN s.versions ELSE [s.versions EXCEPT ![m.version] = m]
      /\ r.default = Refreshed(s.default, m)
      /\ r = [versions |-> r.versions, default |-> r.default]
  BY DEF Register
<1>3. /\ s.default = NoModel \/ m.version = Unversioned => Refreshed(s.default, m) = m
      /\ s.default # NoModel /\ m.version # Unversioned /\ s.default.version = Unversioned =>
           Refreshed(s.default, m) = s.default
      /\ s.default # NoModel /\ m.version # Unversioned /\ s.default.version # Unversioned =>
           \/ m.version >= s.default.version /\ Refreshed(s.default, m) = m
           \/ ~(m.version >= s.default.version) /\ Refreshed(s.default, m) = s.default
  BY Zenon DEF Refreshed
<1>4. r.versions \in [Versions -> Objects \cup {NoModel}] /\ r.default \in Objects \cup {NoModel}
  BY <1>1, <1>2, <1>3
<1>5. \A v \in Versions : r.versions[v] = IF v = m.version THEN m ELSE s.versions[v]
  BY <1>1, <1>v, <1>2
<1>6. s.default \in Objects \cup {NoModel} /\ s.default.version \in Versions \cup {Unversioned}
  BY <1>1, <1>v, ObjectParts DEF Slots
<1> HIDE DEF r
<1>7. Filed(r)
  BY <1>1, <1>2, <1>4, <1>5 DEF Filed
<1>8. \A v \in Slots : Slot(r, v) = IF v = m.version THEN m ELSE Slot(s, v)
  <2>1. \A v \in Versions : Slot(r, v) = IF v = m.version THEN m ELSE Slot(s, v)
    BY <1>v, <1>5 DEF Slot
  <2>2. Slot(r, Unversioned) = IF Unversioned = m.version THEN m ELSE Slot(s, Unversioned)
    BY <1>v, <1>2, <1>3 DEF Slot
  <2> QED  BY <2>1, <2>2 DEF Slots
<1>o. \A v, w \in Versions : v \in Int /\ (v >= w <=> w =< v) /\ (~(v >= w) => v < w)
  BY DEF Versions
<1>9. DefaultFiled(s) => DefaultFiled(r)
  <2>1. ASSUME DefaultFiled(s), r.default.version # Unversioned, r.default = s.default, r.default # m
        PROVE  r.versions[r.default.version] = r.default
    <3>1. s.default # NoModel /\ m.version # Unversioned /\ ~(m.version >= s.default.version)
      BY <1>v, <1>2, <1>3, <2>1
    <3>2. s.default.version # m.version /\ s.default.version \in Versions
      BY <1>1, <1>6, <1>o, <2>1, <3>1
    <3> QED  BY <1>5, <2>1, <3>2 DEF DefaultFiled
  <2>2. ASSUME r.default.version # Unversioned, r.default = m
        PROVE  r.versions[r.default.version] = r.default
    BY <1>1, <1>5, <2>2
  <2>3. r.default \in {s.default, m}
    BY <1>2, <1>3
  <2> QED  BY <2>1, <2>2, <2>3 DEF DefaultFiled
<1>10. ASSUME Newest(s), r.default.version # Unversioned, NEW v \in Versions, r.versions[v] # NoModel
       PROVE  v =< r.default.version
  <2>1. v = m.version \/ s.versions[v] # NoModel
    BY <1>5, <1>10
  <2>2. CASE s.default = NoModel \/ m.version = Unversioned
    <3>1. r.default = m
      BY <1>2, <1>3, <2>2
    <3>2. v = m.version
      BY <1>10, <2>1, <2>2, <3>1 DEF Newest
    <3> QED  BY <1>o, <3>1, <3>2
  <2>3. CASE s.default # NoModel /\ m.version # Unversioned /\ s.default.version = Unversioned
    BY <1>2, <1>3, <1>10, <2>3
  <2>4. CASE s.default # NoModel /\ m.version # Unversioned /\ s.default.version # Unversioned
    <3>1. m.version \in Versions /\ s.default.version \in Versions
      BY <1>1, <1>6, <2>4
    <3>2. s.versions[v] # NoModel => v =< s.default.version
      BY <1>10, <2>4 DEF Newest
    <3>3. CASE m.version >= s.default.version
      <4>1. r.default = m
        BY <1>2, <1>3, <2>4, <3>3
      <4>2. m.version \in Int /\ s.default.version \in Int /\ v \in Int
        BY <1>o, <3>1
      <4>3. v = m.version \/ v =< s.default.version
        BY <2>1, <3>2
      <4>4. v =< m.version
        BY <3>3, <4>2, <4>3
      <4> QED  BY <4>1, <4>4
    <3>4. CASE ~(m.version >= s.default.version)
      <4>1. r.default = s.default
        BY <1>2, <1>3, <2>4, <3>4
      <4>2. m.version \in Int /\ s.default.version \in Int /\ v \in Int
        BY <1>o, <3>1
      <4>3. v = m.version \/ v =< s.default.version
        BY <2>1, <3>2
      <4>4. v =< s.default.version
        BY <3>4, <4>2, <4>3
      <4> QED  BY <4>1, <4>4
    <3> QED  BY <3>3, <3>4
  <2> QED  BY <2>2, <2>3, <2>4
<1>11. Newest(s) => Newest(r)
  <2>1. Newest(s) => r.default # NoModel
    BY <1>1, <1>2, <1>3
  <2> QED  BY <1>9, <1>10, <2>1 DEF Newest
<1> QED  BY <1>7, <1>8, <1>9, <1>11 DEF r

(* A default that is cleared leaves the versions as they are. *)
LEMMA ClearKeeps ==
  ASSUME NEW s, Filed(s), NEW m, m # NoModel
  PROVE  /\ Filed(ClearIfDefault(s, m))
         /\ \A v \in Slots : Slot(ClearIfDefault(s, m), v) =
              IF v = Unversioned /\ Slot(s, v) = m THEN NoModel ELSE Slot(s, v)
         /\ DefaultFiled(s) => DefaultFiled(ClearIfDefault(s, m))
         /\ ClearIfDefault(s, m).versions = s.versions
         /\ ClearIfDefault(s, m).default # m
         /\ Newest(s) /\ DefaultOf(s) # m => Newest(ClearIfDefault(s, m))
<1>1. /\ s \in [versions : [Versions -> Objects \cup {NoModel}], default : Objects \cup {NoModel}]
      /\ \A v \in Versions : s.versions[v] # NoModel => s.versions[v].version = v
  BY DEF Filed
<1>v. Unversioned \notin Versions /\ NoModel.version = Unversioned
  BY ObjectParts DEF Unversioned, Versions
<1>c. /\ Filed(Cached(s))
      /\ Cached(s).versions = s.versions /\ Cached(s).default = DefaultOf(s)
      /\ DefaultOf(s).version = Unversioned => DefaultOf(s) = s.default \/ DefaultOf(s) = NoModel
      /\ \A v \in Slots : Slot(Cached(s), v) = Slot(s, v)
      /\ DefaultFiled(s) => DefaultFiled(Cached(s))
      /\ Newest(s) => Newest(Cached(s))
  BY CachedKeeps
<1>d. s.default # NoModel => DefaultOf(s) = s.default
  BY DEF DefaultOf
<1>2. CASE DefaultOf(s) # m
  <2>1. ClearIfDefault(s, m) = Cached(s)
    BY <1>2 DEF ClearIfDefault
  <2>2. Slot(s, Unversioned) # m
    BY <1>2, <1>d DEF Slot
  <2> QED  BY <1>c, <1>2, <2>1, <2>2
<1>3. CASE DefaultOf(s) = m
  <2> DEFINE c == [s EXCEPT !.default = NoModel]
  <2>1. ClearIfDefault(s, m) = c
    BY <1>3 DEF ClearIfDefault
  <2>2. c.versions = s.versions /\ c.default = NoModel
        /\ c \in [versions : [Versions -> Objects \cup {NoModel}], default : Objects \cup {NoModel}]
    BY <1>1
  <2> HIDE DEF c
  <2>3. Filed(c)
    BY <1>1, <2>2 DEF Filed
  <2>4. \A v \in Slots : Slot(c, v) = IF v = Unversioned /\ Slot(s, v) = m THEN NoModel ELSE Slot(s, v)
    <3>1. s.default = m \/ s.default = NoModel
      BY <1>3, <1>d
    <3> QED  BY <1>v, <2>2, <3>1 DEF Slot
  <2>5. DefaultFiled(c)
    BY <1>v, <2>2 DEF DefaultFiled
  <2> QED  BY <1>3, <2>1, <2>2, <2>3, <2>4, <2>5
<1> QED  BY <1>2, <1>3

(* A model that is taken out leaves its slot empty (_unload_model). *)
Deleted(s, m) == IF m.version = Unversioned THEN s ELSE [s EXCEPT !.versions[m.version] = NoModel]

(* A model that is taken out of its slot leaves the other slots alone, and  *)
(* is no default any more.                                                  *)
LEMMA DeletedIsGone ==
  ASSUME NEW s, Filed(s), NEW m \in Objects
  PROVE  /\ Filed(ClearIfDefault(Deleted(s, m), m))
         /\ Slot(s, m.version) = m =>
              \A v \in Slots : Slot(ClearIfDefault(Deleted(s, m), m), v) =
                IF v = m.version THEN NoModel ELSE Slot(s, v)
         /\ Slot(s, m.version) = m /\ DefaultFiled(s) => DefaultFiled(ClearIfDefault(Deleted(s, m), m))
<1>1. /\ s \in [versions : [Versions -> Objects \cup {NoModel}], default : Objects \cup {NoModel}]
      /\ \A v \in Versions : s.versions[v] # NoModel => s.versions[v].version = v
      /\ m # NoModel /\ m.version \in Versions \cup {Unversioned}
  BY ObjectParts DEF Filed, Slots
<1>v. Unversioned \notin Versions /\ NoModel.version = Unversioned
  BY ObjectParts DEF Unversioned, Versions
<1> DEFINE d == Deleted(s, m)
<1>2. /\ \A v \in Versions : d.versions[v] = IF v = m.version THEN NoModel ELSE s.versions[v]
      /\ d.default = s.default
      /\ d \in [versions : [Versions -> Objects \cup {NoModel}], default : Objects \cup {NoModel}]
  BY <1>1, <1>v DEF Deleted
<1> HIDE DEF d
<1>3. Filed(d)
  BY <1>1, <1>2 DEF Filed
<1> DEFINE r == ClearIfDefault(d, m)
<1>4. /\ Filed(r)
      /\ \A v \in Slots : Slot(r, v) = IF v = Unversioned /\ Slot(d, v) = m THEN NoModel ELSE Slot(d, v)
      /\ r.versions = d.versions
      /\ r.default # m
  BY <1>1, <1>3, ClearKeeps
<1>5. r.default \in {NoModel, DefaultOf(d)} /\ DefaultOf(d) \in {d.default, Latest(d)}
  BY <1>1, <1>3, CachedKeeps DEF ClearIfDefault, Filed, DefaultOf
<1> HIDE DEF r
<1>6. ASSUME Slot(s, m.version) = m, NEW v \in Slots
      PROVE  Slot(r, v) = IF v = m.version THEN NoModel ELSE Slot(s, v)
  <2>1. CASE v \in Versions
    BY <1>v, <1>2, <1>4, <2>1 DEF Slot
  <2>2. CASE v = Unversioned
    <3>1. Slot(d, v) = Slot(s, v)
      BY <1>2, <2>2 DEF Slot
    <3>2. Slot(s, v) = m => m.version = Unversioned
      BY <1>v, <1>1, <2>2 DEF Slot
    <3> QED  BY <1>4, <1>6, <2>2, <3>1, <3>2
  <2> QED  BY <2>1, <2>2 DEF Slots
<1>7. ASSUME Slot(s, m.version) = m, DefaultFiled(s)
      PROVE  DefaultFiled(r)
  <2>1. ASSUME r.default.version # Unversioned
        PROVE  r.versions[r.default.version] = r.default
    <3>1. r.default \in {d.default, Latest(d)}
      BY <1>v, <1>5, <2>1
    <3>2. CASE r.default = s.default
      <4>1. s.versions[s.default.version] = s.default /\ s.default \in Objects \cup {NoModel}
        BY <1>1, <1>7, <2>1, <3>2 DEF DefaultFiled
      <4>2. s.default.version \in Versions
        BY <1>v, <2>1, <3>2, <4>1, ObjectParts DEF Slots
      <4>3. s.default.version # m.version
        BY <1>4, <1>7, <2>1, <3>2, <4>1 DEF Slot
      <4> QED  BY <1>2, <1>4, <3>2, <4>1, <4>2, <4>3
    <3>3. CASE r.default = Latest(d)
      <4>1. Latest(d) \in Held(d)
        BY <1>3, <1>v, <2>1, <3>3, LatestHeld
      <4> QED  BY <1>3, <1>4, <3>3, <4>1, LatestHeld
    <3> QED  BY <1>2, <3>1, <3>2, <3>3
  <2> QED  BY <2>1 DEF DefaultFiled
<1> QED  BY <1>4, <1>6, <1>7 DEF r, d

(* The models of a registry are those in its slots. *)
LEMMA ModelsInSlots ==
  ASSUME NEW s, Filed(s)
  PROVE  /\ Models(s) = {Slot(s, v) : v \in Slots} \ {NoModel}
         /\ Empty(s) => \A v \in Slots : Slot(s, v) = NoModel
         /\ \A v \in Slots : Slot(s, v) \in Objects \cup {NoModel}
         /\ \A v \in Slots : Slot(s, v) # NoModel => Slot(s, v).version = v
         /\ DefaultFiled(s) /\ DefaultOf(s) # NoModel => DefaultOf(s) \in Models(s)
<1>1. /\ s \in [versions : [Versions -> Objects \cup {NoModel}], default : Objects \cup {NoModel}]
      /\ \A v \in Versions : s.versions[v] # NoModel => s.versions[v].version = v
  BY DEF Filed
<1>v. Unversioned \notin Versions /\ NoModel.version = Unversioned
  BY ObjectParts DEF Unversioned, Versions
<1>2. /\ \A v \in Versions : Slot(s, v) = s.versions[v]
      /\ Slot(s, Unversioned) = IF s.default.version = Unversioned THEN s.default ELSE NoModel
  BY <1>v DEF Slot
<1>3. Held(s) = {s.versions[v] : v \in Versions} \ {NoModel}
  BY LatestHeld
<1>4. \A v \in Slots : Slot(s, v) # NoModel => Slot(s, v).version = v
  BY <1>1, <1>2 DEF Slots
<1>5. \A v \in Slots : Slot(s, v) \in Objects \cup {NoModel}
  BY <1>1, <1>2 DEF Slots
<1>6. DefaultOf(s).version = Unversioned => DefaultOf(s) = s.default \/ DefaultOf(s) = NoModel
  BY CachedKeeps
<1>7. s.default # NoModel => DefaultOf(s) = s.default
  BY DEF DefaultOf
<1>8. {m \in {DefaultOf(s)} : m.version = Unversioned} \cup {NoModel} = {Slot(s, Unversioned)} \cup {NoModel}
  BY <1>v, <1>2, <1>6, <1>7
<1>9. Models(s) = {Slot(s, v) : v \in Slots} \ {NoModel}
  <2>1. {Slot(s, v) : v \in Slots} = {s.versions[v] : v \in Versions} \cup {Slot(s, Unversioned)}
    BY <1>2 DEF Slots
  <2> QED  BY <1>3, <1>8, <2>1 DEF Models
<1>10. Empty(s) => \A v \in Slots : Slot(s, v) = NoModel
  BY <1>2, <1>3 DEF Empty, Slots
<1>11. ASSUME DefaultFiled(s), DefaultOf(s) # NoModel
       PROVE  DefaultOf(s) \in Models(s)
  <2>1. CASE DefaultOf(s).version = Unversioned
    BY <1>11, <2>1 DEF Models
  <2>2. CASE DefaultOf(s).version # Unversioned
    <3>1. DefaultOf(s) \in {s.default, Latest(s)}
      BY DEF DefaultOf
    <3>2. Latest(s) \in Held(s) \cup {NoModel}
      BY LatestHeld
    <3>3. DefaultOf(s) = s.default => s.versions[s.default.version] = s.default /\ s.default.version \in Versions
      BY <1>1, <1>11, <2>2, ObjectParts DEF DefaultFiled, Slots
    <3>4. DefaultOf(s) \in Held(s)
      BY <1>3, <1>11, <3>1, <3>2, <3>3
    <3> QED  BY <1>11, <3>4 DEF Models
  <2> QED  BY <2>1, <2>2
<1> QED  BY <1>4, <1>5, <1>9, <1>10, <1>11

(* A registry that has just been made, or emptied. *)
LEMMA NoVersionsFiled ==
  /\ Filed(NoVersions) /\ Newest(NoVersions) /\ DefaultFiled(NoVersions)
  /\ \A v \in Slots : Slot(NoVersions, v) = NoModel
<1>v. Unversioned \notin Versions /\ NoModel.version = Unversioned
  BY ObjectParts DEF Unversioned, Versions
<1>1. NoVersions.default = NoModel /\ \A v \in Versions : NoVersions.versions[v] = NoModel
  BY DEF NoVersions
<1>2. Filed(NoVersions)
  BY <1>1 DEF Filed, NoVersions
<1>3. DefaultFiled(NoVersions) /\ Newest(NoVersions)
  BY <1>v, <1>1 DEF DefaultFiled, Newest
<1> QED  BY <1>v, <1>1, <1>2, <1>3 DEF Slot, Slots

-----------------------------------------------------------------------------
Started == {o \in Loads : task[o].stage # "idle"}

(* Every registry is made by a load of its own. *)
Counted ==
  /\ made =< Cardinality(Started)
  /\ \A g \in Registries : g > made => single[g] = NoVersions

(* Where an operation is tells what it is, and which model it has. *)
TaskTypes == [stage : Stages, reload : BOOLEAN, registry : Registries \cup {NoRegistry},
              model : Objects \cup {NoModel}, old : Objects \cup {NoModel},
              hooking : SUBSET Objects, stopping : SUBSET Objects]
Busy(t) == t.stage \notin {"idle", "done", "failed", "unretired"} \/ t.hooking \cup t.stopping # {}
Shape(o, t, n) ==
  /\ t.stage = "idle" => t = Idle
  /\ t.stage \in {"hook", "late_hook", "load", "retire"} =>
       o \in Loads /\ t.model = IF t.stage = "hook" THEN Raw(o) ELSE Wrap(Raw(o))
  /\ Busy(t) => t.registry \in 1..n
  /\ t.reload => /\ t.old # NoModel /\ t.old.id # o.id
                 /\ o.version # Unversioned => t.old.version = o.version
  /\ t.stage = "retire" => t.reload
  /\ t.hooking \cup t.stopping # {} => t.stage \in {"unload", "failed"}
TaskShape == \A o \in Ops : Shape(o, task[o], made)

(* The models a registry refers to: none is of a load that has not begun.    *)
Known(s) == {s.default, NoModel} \cup {s.versions[v] : v \in Versions}
Unseen ==
  \A o \in Loads : task[o].stage = "idle" =>
    \A g \in Registries : \A m \in Known(single[g]) : m.id # o.id

RegistryInv ==
  /\ TypeOK
  /\ \A g \in Registries : Filed(single[g])
  /\ Counted
  /\ TaskShape
  /\ Unseen

(* While nothing fails or is unloaded, the default is the newest. *)
OnlyLoads == \A o \in Ops : task[o].stage \notin {"unload", "failed"} /\ (task[o].stage = "done" => o \in Loads)
NewestWhileLoading == OnlyLoads => \A g \in Registries : Newest(single[g])

(* What a registry refers to when it is changed was there, or is new. *)
LEMMA KnownKeeps ==
  ASSUME NEW s, Filed(s)
  PROVE  /\ Known(s) \subseteq Objects \cup {NoModel}
         /\ Known(Cached(s)) \subseteq Known(s)
         /\ \A m \in Objects : Known(Register(s, m)) \subseteq Known(s) \cup {m}
         /\ \A m : Known(ClearIfDefault(s, m)) \subseteq Known(s)
         /\ \A m \in Objects : Known(ClearIfDefault(Deleted(s, m), m)) \subseteq Known(s)
         /\ DefaultOf(s) \in Known(s) /\ Models(s) \subseteq Objects
         /\ \A v \in Slots : /\ Find(s, v) \in Known(s)
                             /\ v # Unversioned /\ Find(s, v) # NoModel => Find(s, v).version = v
                             /\ Found(s, v) \in {s, Cached(s)}
         /\ Known(NoVersions) = {NoModel}
<1>1. /\ s \in [versions : [Versions -> Objects \cup {NoModel}], default : Objects \cup {NoModel}]
      /\ \A v \in Versions : s.versions[v] # NoModel => s.versions[v].version = v
  BY DEF Filed
<1>2. ASSUME NEW c, Filed(c)
      PROVE  /\ DefaultOf(c) \in Known(c) /\ Known(Cached(c)) \subseteq Known(c)
             /\ \A m : Known(ClearIfDefault(c, m)) \subseteq Known(c)
  <2>0. c \in [versions : [Versions -> Objects \cup {NoModel}], default : Objects \cup {NoModel}]
    BY <1>2 DEF Filed
  <2>1. DefaultOf(c) \in Known(c)
    BY <1>2, LatestHeld DEF DefaultOf, Known
  <2>2. Known(Cached(c)) \subseteq Known(c)
    BY <1>2, <2>1, CachedKeeps DEF Known
  <2>3. Known([c EXCEPT !.default = NoModel]) \subseteq Known(c)
    BY <2>0 DEF Known
  <2> QED  BY <2>1, <2>2, <2>3 DEF ClearIfDefault
<1>3. ASSUME NEW m \in Objects
      PROVE  Known(Register(s, m)) \subseteq Known(s) \cup {m}
  <2>1. Refreshed(s.default, m) \in {s.default, m}
    BY DEF Refreshed
  <2>2. /\ Register(s, m).default = Refreshed(s.default, m)
        /\ \A v \in Versions : Register(s, m).versions[v] \in {s.versions[v], m}
    BY <1>1 DEF Register
  <2> QED  BY <2>1, <2>2 DEF Known
<1>4. ASSUME NEW m \in Objects
      PROVE  Known(ClearIfDefault(Deleted(s, m), m)) \subseteq Known(s)
  <2>1. Filed(Deleted(s, m))
    BY <1>1 DEF Deleted, Filed
  <2>2. Known(Deleted(s, m)) \subseteq Known(s)
    BY <1>1 DEF Deleted, Known
  <2> QED  BY <1>2, <2>1, <2>2
<1>5. Models(s) \subseteq Objects
  BY ModelsInSlots
<1>6. ASSUME NEW v \in Slots
      PROVE  /\ Find(s, v) \in Known(s)
             /\ v # Unversioned /\ Find(s, v) # NoModel => Find(s, v).version = v
             /\ Found(s, v) \in {s, Cached(s)}
  BY <1>1, <1>2 DEF Find, Found, Known, Slots
<1>7. Known(NoVersions) = {NoModel}
  BY DEF Known, NoVersions
<1>8. Known(s) \subseteq Objects \cup {NoModel}
  BY <1>1 DEF Known
<1> QED  BY <1>2, <1>3, <1>4, <1>5, <1>6, <1>7, <1>8

(* A reload of a version does not clear the default (_reload_model): it is    *)
(* the new model, or one that is no older and not the one it replaces.      *)
LEMMA ReloadKeepsDefault ==
  ASSUME NEW s, Filed(s), NEW m \in Objects, NEW old \in Objects, m # old,
         m.version # Unversioned => old.version = m.version
  PROVE  DefaultOf(Register(s, m)) # old
<1>1. /\ s.default \in Objects \cup {NoModel} /\ m # NoModel /\ m.version \in Slots
      /\ Register(s, m).default = Refreshed(s.default, m)
  BY ObjectParts DEF Filed, Register
<1>2. Refreshed(s.default, m) # NoModel
  BY <1>1 DEF Refreshed
<1>3. m.version # Unversioned => m.version >= m.version
  BY <1>1 DEF Slots, Versions
<1>4. Refreshed(s.default, m) # old
  BY <1>1, <1>3 DEF Refreshed
<1> QED  BY <1>1, <1>2, <1>4 DEF DefaultOf

(* There are finitely many loads.                                           *)
LEMMA LoadsFinite == IsFiniteSet(Loads) /\ Cardinality(Loads) \in Nat
<1>1. IsFiniteSet(Loads)
  BY OpsAssumption, FS_Subset DEF Loads
<1> QED  BY <1>1, FS_CardinalityType

(* The models that are ready and do not resist being unloaded.              *)
Lasting == ready \ Of(Stubborn)

(* What is ready stays so, and stays what it is.                            *)
LEMMA ReadyStays == UNCHANGED ready => Fit' = Fit /\ Lasting' = Lasting
BY DEF Fit, Lasting

LEMMA SameReadiness ==
  ASSUME NEW n, n \in ready <=> n \in ready'
  PROVE  (n \in Fit <=> n \in Fit') /\ (n \in Lasting <=> n \in Lasting')
BY DEF Fit, Lasting

(* One model's load() ends.                                                 *)
Comes(m) ==
  /\ ready' \subseteq Objects /\ m \in Fit'
  /\ \A n \in Objects : n # m => (n \in ready <=> n \in ready')
LEMMA LoadEnds ==
  ASSUME RegistryInv, NEW o \in Loads, FinishLoad(o), task[o].model = Wrap(Raw(o))
  PROVE  Comes(Wrap(Raw(o))) /\ (Wrap(Raw(o)) \in ready' \/ (o \in Unready /\ Wrap(Raw(o)) \notin ready'))
<1>1. Wrap(Raw(o)) \in Objects /\ ready \subseteq Objects
  BY ObjectParts DEF RegistryInv, TypeOK
<1>2. o \in Unready => Wrap(Raw(o)) \in Of(Unready)
  BY DEF Of
<1> QED  BY <1>1, <1>2 DEF FinishLoad, Comes, Fit

(* One model's unload() ends.                                               *)
Goes(m) ==
  /\ ready' \subseteq Objects /\ m \notin Lasting'
  /\ \A n \in Objects : n # m => (n \in ready <=> n \in ready')
LEMMA Leaves ==
  ASSUME RegistryInv, NEW m \in Objects, NEW end \in Ends(m), ready' = Left(m, end)
  PROVE  Goes(m)
<1>1. ready \subseteq Objects
  BY DEF RegistryInv, TypeOK
<1>2. CASE m \in Of(Stubborn)
  <2>1. ready' \in {ready \ {m}, ready \cup {m}, ready}
    BY DEF Left
  <2> QED  BY <1>1, <1>2, <2>1 DEF Goes, Lasting
<1>3. CASE m \notin Of(Stubborn)
  <2>1. ready' = ready \ {m}
    BY <1>3 DEF Ends, Left
  <2> QED  BY <1>1, <2>1 DEF Goes, Lasting
<1> QED  BY <1>2, <1>3

Retired(o, st) ==
  /\ task[o].stage = "retire" /\ UNCHANGED <<single, made, entry>>
  /\ task' = [task EXCEPT ![o] = [task[o] EXCEPT !.stage = st]]
  /\ Goes(task[o].old)
LEMMA RetireEnds ==
  ASSUME RegistryInv, NEW o \in Ops, FinishRetire(o)
  PROVE  \E st \in {"done", "unretired"} : Retired(o, st)
<1>1. task \in [Ops -> TaskTypes] /\ task[o].stage = "retire" /\ task[o].old \in Objects
  BY DEF RegistryInv, TypeOK, TaskTypes, FinishRetire
<1>2. PICK end \in Ends(task[o].old) :
        /\ ready' = Left(task[o].old, end)
        /\ task' = [task EXCEPT ![o].stage = IF end = "raised" THEN "unretired" ELSE "done"]
  BY DEF FinishRetire
<1>3. PICK st \in {"done", "unretired"} : st = IF end = "raised" THEN "unretired" ELSE "done"
  OBVIOUS
<1>4. task' = [task EXCEPT ![o] = [task[o] EXCEPT !.stage = st]]
  BY <1>1, <1>2, <1>3
<1>5. Goes(task[o].old)
  BY <1>1, <1>2, Leaves
<1>6. UNCHANGED <<single, made, entry>>
  BY DEF FinishRetire
<1> QED  BY <1>1, <1>4, <1>5, <1>6 DEF Retired

Stopped(o, m, st) ==
  /\ UNCHANGED <<single, made, entry>>
  /\ task' = [task EXCEPT ![o] = [task[o] EXCEPT !.stopping = @ \ {m}, !.stage = st]]
  /\ Goes(m)
LEMMA UnloadEnds ==
  ASSUME RegistryInv, NEW o \in Ops, NEW m \in task[o].stopping, FinishModelUnload(o, m)
  PROVE  \E st \in {task[o].stage, "failed"} : Stopped(o, m, st)
<1>1. task \in [Ops -> TaskTypes] /\ m \in Objects
  BY DEF RegistryInv, TypeOK, TaskTypes
<1>2. PICK end \in Ends(m) :
        /\ ready' = Left(m, end)
        /\ task' = [task EXCEPT ![o].stopping = @ \ {m},
                                ![o].stage = IF end = "raised" THEN "failed" ELSE @]
  BY DEF FinishModelUnload
<1>3. PICK st \in {task[o].stage, "failed"} : st = IF end = "raised" THEN "failed" ELSE task[o].stage
  OBVIOUS
<1>4. task' = [task EXCEPT ![o] = [task[o] EXCEPT !.stopping = @ \ {m}, !.stage = st]]
  BY <1>1, <1>2, <1>3 DEF TaskTypes
<1>5. Goes(m)
  BY <1>1, <1>2, Leaves
<1>6. UNCHANGED <<single, made, entry>>
  BY DEF FinishModelUnload
<1> QED  BY <1>4, <1>5, <1>6 DEF Stopped

(* Every load makes a registry at most. *)
LEMMA CountedStep ==
  ASSUME RegistryInv, NEW o \in Ops,
         Started \subseteq Started',
         made' = made \/ (made' = made + 1 /\ o \in Loads /\ task[o].stage = "idle" /\ task'[o].stage # "idle")
  PROVE  made' \in 0..Cardinality(Loads) /\ made' =< Cardinality(Started') /\ made =< made'
<1>1. made \in Nat /\ made =< Cardinality(Started)
  BY DEF RegistryInv, TypeOK, Counted
<1>2. IsFiniteSet(Loads)
  BY LoadsFinite
<1>3. Started \subseteq Loads /\ Started' \subseteq Loads
  BY DEF Started
<1>4. IsFiniteSet(Started) /\ IsFiniteSet(Started')
  BY <1>2, <1>3, FS_Subset
<1>5. Cardinality(Started) \in Nat /\ Cardinality(Started') \in Nat /\ Cardinality(Loads) \in Nat
  BY <1>2, <1>4, FS_CardinalityType
<1>6. Cardinality(Started') =< Cardinality(Loads)
  BY <1>2, <1>3, FS_Subset
<1>7. Cardinality(Started) =< Cardinality(Started')
  BY <1>4, FS_Subset
<1>8. CASE made' = made
  BY <1>1, <1>5, <1>6, <1>7, <1>8
<1>9. CASE made' = made + 1 /\ o \in Loads /\ task[o].stage = "idle" /\ task'[o].stage # "idle"
  <2>1. o \notin Started /\ o \in Started'
    BY <1>9 DEF Started
  <2>2. IsFiniteSet(Started \cup {o}) /\ Cardinality(Started \cup {o}) = Cardinality(Started) + 1
    BY <1>4, <2>1, FS_AddElement
  <2>3. Cardinality(Started \cup {o}) =< Cardinality(Started')
    BY <1>4, <2>1, FS_Subset
  <2> QED  BY <1>1, <1>5, <1>6, <1>9, <2>2, <2>3
<1> QED  BY <1>8, <1>9

(* A step of an operation: what it does to its task and to one registry      *)
(* keeps the types of all.                                                  *)
LEMMA OperationStep ==
  ASSUME RegistryInv, NEW o \in Ops, NEW t \in TaskTypes, NEW g \in Registries, NEW s,
         task' = [task EXCEPT ![o] = t], t.stage # "idle",
         made' = made \/ (made' = made + 1 /\ g = made' /\ o \in Loads /\ task[o].stage = "idle"),
         Shape(o, t, made'),
         single' = [single EXCEPT ![g] = s], Filed(s), g =< made' \/ s = NoVersions,
         \A m \in Known(s) \ Known(single[g]) : (m \in {Raw(o), Wrap(Raw(o))} /\ o \in Loads) \/ m = NoModel,
         entry' \in Registries \cup {NoRegistry}, entry' =< made', ready' \subseteq Objects
  PROVE  RegistryInv'
<1>t. /\ single \in [Registries -> [versions : [Versions -> Objects \cup {NoModel}],
                                    default : Objects \cup {NoModel}]]
      /\ task \in [Ops -> TaskTypes] /\ made \in Nat
      /\ \A h \in Registries : Filed(single[h])
      /\ \A h \in Registries : h > made => single[h] = NoVersions
  BY DEF RegistryInv, TypeOK, TaskTypes, Counted
<1>1. task' \in [Ops -> TaskTypes] /\ task'[o] = t /\ \A p \in Ops : p # o => task'[p] = task[p]
  BY <1>t
<1>2. Started \subseteq Started'
  BY <1>1 DEF Started
<1>3. made' \in 0..Cardinality(Loads) /\ made' =< Cardinality(Started') /\ made =< made'
  BY <1>1, <1>2, CountedStep
<1>4. /\ single'[g] = s /\ \A h \in Registries : h # g => single'[h] = single[h]
      /\ \A h \in Registries : Filed(single'[h])
      /\ single' \in [Registries -> [versions : [Versions -> Objects \cup {NoModel}],
                                     default : Objects \cup {NoModel}]]
  BY <1>t DEF Filed
<1>5. \A h \in Registries : h > made' => single'[h] = NoVersions
  <2>1. ASSUME NEW h \in Registries, h > made'
        PROVE  single'[h] = NoVersions
    <3>1. h \in Int /\ made' \in Int /\ made \in Int
      BY <1>t, <1>3, LoadsFinite DEF Registries
    <3>2. h > made
      BY <1>3, <2>1, <3>1
    <3>3. h # g \/ s = NoVersions
      BY <2>1, <3>1
    <3> QED  BY <1>t, <1>4, <3>2, <3>3
  <2> QED  BY <2>1
<1>6. \A p \in Ops : Shape(p, task'[p], made')
  <2>1. ASSUME NEW p \in Ops, p # o
        PROVE  Shape(p, task'[p], made')
    <3>1. Shape(p, task[p], made)
      BY DEF RegistryInv, TaskShape
    <3>2. made \in Int /\ made' \in Int /\ made =< made'
      BY <1>t, <1>3
    <3>3. 1..made \subseteq 1..made'
      BY <3>2
    <3> QED  BY <1>1, <2>1, <3>1, <3>3 DEF Shape
  <2> QED  BY <1>1, <2>1
<1>7. ASSUME NEW p \in Loads, task'[p].stage = "idle", NEW h \in Registries, NEW m \in Known(single'[h])
      PROVE  m.id # p.id
  <2>1. p # o /\ p \in Ops /\ task[p].stage = "idle"
    BY <1>1, <1>7 DEF Loads
  <2>2. CASE m \in Known(single[h])
    BY <2>1, <2>2 DEF RegistryInv, Unseen
  <2>3. CASE m \notin Known(single[h])
    <3>1. m = NoModel \/ (o \in Loads /\ m \in {Raw(o), Wrap(Raw(o))})
      BY <1>4, <1>7, <2>3
    <3>2. p.id # "none" /\ p.id # o.id
      BY <2>1, OpsAssumption
    <3> QED  BY <3>1, <3>2, ObjectParts
  <2> QED  BY <2>2, <2>3
<1>8. \A p \in Ops : task'[p].stage = "retire" => task'[p].old # NoModel
  BY <1>6 DEF Shape
<1>9. \A h \in Registries : \A m \in Range(single'[h].versions) :
        m # NoModel => single'[h].versions[m.version] = m
  BY <1>4 DEF Filed, Range
<1>10. TypeOK'
  BY <1>1, <1>3, <1>4, <1>8, <1>9 DEF TypeOK, TaskTypes
<1>11. Counted' /\ TaskShape' /\ Unseen'
  BY <1>3, <1>5, <1>6, <1>7 DEF Counted, TaskShape, Unseen
<1> QED  BY <1>4, <1>10, <1>11 DEF RegistryInv

(* Every step of the registry keeps its types. *)
LEMMA RegistryStep == RegistryInv /\ [Next]_vars => RegistryInv'
<1> SUFFICES ASSUME RegistryInv, [Next]_vars  PROVE RegistryInv'
  OBVIOUS
<1>t. /\ single \in [Registries -> [versions : [Versions -> Objects \cup {NoModel}],
                                    default : Objects \cup {NoModel}]]
      /\ task \in [Ops -> TaskTypes] /\ made \in Nat /\ made =< Cardinality(Loads)
      /\ entry \in Registries \cup {NoRegistry} /\ entry =< made /\ ready \subseteq Objects
      /\ \A h \in Registries : Filed(single[h])
      /\ \A o \in Ops : Shape(o, task[o], made)
  BY LoadsFinite DEF RegistryInv, TypeOK, TaskTypes, TaskShape
<1>r. \A h \in 1..made : h \in Registries /\ h =< made
  BY <1>t, LoadsFinite DEF Registries
<1>k. \A h \in Registries : Known(single[h]) \subseteq Objects \cup {NoModel}
  BY <1>t, KnownKeeps
<1>i. Idle \in TaskTypes
  BY DEF Idle, TaskTypes, Stages
<1>1. ASSUME NEW o \in Ops, BeginLoad(o)
      PROVE  RegistryInv'
  <2>1. /\ o \in Loads /\ task[o].stage = "idle" /\ entry' = RegistryToUse
        /\ made' = IF entry = NoRegistry THEN made + 1 ELSE made
        /\ UNCHANGED ready
    BY <1>1 DEF BeginLoad, Loads, MayBegin
  <2> DEFINE found == Found(single[RegistryToUse], o.version)
             old == Find(single[RegistryToUse], o.version)
             begun == [Idle EXCEPT !.stage = "hook", !.registry = RegistryToUse, !.model = Raw(o),
                                   !.old = old, !.reload = (old # NoModel)]
  <2>2. \/ /\ task' = [task EXCEPT ![o] = begun]
           /\ single' = [single EXCEPT ![RegistryToUse] =
                           IF begun.reload THEN found ELSE Register(found, Raw(o))]
        \/ /\ task' = [task EXCEPT ![o].stage = "failed"]
           /\ single' = [single EXCEPT ![RegistryToUse] = found]
    BY <1>1 DEF BeginLoad
  <2>3. PICK g : g = RegistryToUse
    OBVIOUS
  <2>4. PICK was : was = old
    OBVIOUS
  <2>5. PICK t : /\ task' = [task EXCEPT ![o] = t]
                 /\ \/ /\ t = [Idle EXCEPT !.stage = "hook", !.registry = g, !.model = Raw(o),
                                           !.old = was, !.reload = (was # NoModel)]
                       /\ single' = [single EXCEPT ![g] = IF was # NoModel THEN found ELSE Register(found, Raw(o))]
                    \/ /\ t = [Idle EXCEPT !.stage = "failed"]
                       /\ single' = [single EXCEPT ![g] = found]
    <3>1. task[o] = Idle
      BY <1>t, <2>1 DEF Shape
    <3>2. [task EXCEPT ![o].stage = "failed"] = [task EXCEPT ![o] = [Idle EXCEPT !.stage = "failed"]]
      BY <1>t, <3>1
    <3>3. begun.reload = (was # NoModel)
      BY <2>4 DEF Idle
    <3> QED  BY <2>2, <2>3, <2>4, <3>2, <3>3
  <2>6. t.stage \in {"hook", "failed"}
    BY <2>5 DEF Idle
  <2>7. Started \subseteq Started' /\ task'[o].stage # "idle"
    BY <1>t, <2>5, <2>6 DEF Started
  <2>8. made' \in 0..Cardinality(Loads) /\ made =< made'
    BY <2>1, <2>7, CountedStep
  <2>9. g \in Registries /\ g =< made' /\ g \in 1..made'
    <3>1. CASE entry = NoRegistry
      <4>1. g = made + 1 /\ made' = made + 1
        BY <2>1, <2>3, <3>1 DEF RegistryToUse
      <4> QED  BY <1>t, <2>8, <4>1, LoadsFinite DEF Registries
    <3>2. CASE entry # NoRegistry
      <4>1. g = entry /\ made' = made /\ g \in Registries
        BY <1>t, <2>1, <2>3, <3>2 DEF RegistryToUse
      <4>2. g \in Nat /\ g >= 1
        BY <4>1, LoadsFinite DEF Registries
      <4> QED  BY <1>t, <4>1, <4>2
    <3> QED  BY <3>1, <3>2
  <2>10. o.version \in Slots
    BY OpsAssumption DEF Slots
  <2>11. /\ was \in Known(single[g])
         /\ o.version # Unversioned /\ was # NoModel => was.version = o.version
         /\ found \in {single[g], Cached(single[g])}
    BY <1>t, <2>3, <2>4, <2>9, <2>10, KnownKeeps
  <2>12. was \in Objects \cup {NoModel} /\ was.id # o.id
    <3>1. was.id # o.id
      BY <2>1, <2>9, <2>11 DEF RegistryInv, Unseen
    <3> QED  BY <1>k, <2>9, <2>11, <3>1
  <2>13. t \in TaskTypes
    <3>1. Raw(o) \in Objects
      BY <2>1, ObjectParts
    <3>2. (was # NoModel) \in BOOLEAN
      OBVIOUS
    <3> QED  BY <1>i, <2>5, <2>9, <2>12, <3>1, <3>2 DEF Idle, TaskTypes, Stages
  <2>14. Shape(o, t, made')
    <3>1. CASE t.stage = "failed"
      <4>1. t = [Idle EXCEPT !.stage = "failed"]
        BY <2>5, <3>1 DEF Idle
      <4> QED  BY <4>1 DEF Idle, Shape, Busy
    <3>2. CASE t.stage = "hook"
      <4>1. t = [Idle EXCEPT !.stage = "hook", !.registry = g, !.model = Raw(o),
                             !.old = was, !.reload = (was # NoModel)]
        BY <2>5, <3>2 DEF Idle
      <4>2. /\ t.registry = g /\ t.model = Raw(o) /\ t.old = was /\ (t.reload <=> was # NoModel)
            /\ t.hooking \cup t.stopping = {}
        BY <4>1 DEF Idle
      <4> QED  BY <2>1, <2>9, <2>11, <2>12, <3>2, <4>2 DEF Shape
    <3> QED  BY <2>6, <3>1, <3>2
  <2>15. PICK s : /\ single' = [single EXCEPT ![g] = s]
                  /\ s = found \/ s = Register(found, Raw(o))
    BY <2>5
  <2>16. PICK f : f = found
    OBVIOUS
  <2>17. Filed(f) /\ Known(f) \subseteq Known(single[g])
    BY <1>t, <2>9, <2>11, <2>16, CachedKeeps, KnownKeeps
  <2>18. Filed(s) /\ Known(s) \subseteq Known(single[g]) \cup {Raw(o)}
    <3>1. Raw(o) \in Objects
      BY <2>1, ObjectParts
    <3>2. Filed(Register(f, Raw(o))) /\ Known(Register(f, Raw(o))) \subseteq Known(f) \cup {Raw(o)}
      BY <2>17, <3>1, RegisterFiles, KnownKeeps
    <3>3. s = f \/ s = Register(f, Raw(o))
      BY <2>15, <2>16
    <3> QED  BY <2>17, <3>2, <3>3
  <2>19. made' = made \/ (made' = made + 1 /\ g = made')
    BY <2>1, <2>3 DEF RegistryToUse
  <2>20. entry' = g /\ ready' \subseteq Objects
    BY <1>t, <2>1, <2>3
  <2> HIDE DEF found, old, begun
  <2> QED  BY <2>1, <2>5, <2>6, <2>9, <2>13, <2>14, <2>15, <2>18, <2>19, <2>20, OperationStep
<1>b. ASSUME NEW o \in Ops, NEW t \in TaskTypes, Busy(task[o]), task' = [task EXCEPT ![o] = t],
             t.stage # "idle", Shape(o, t, made), UNCHANGED <<single, made, entry>>, ready' \subseteq Objects
      PROVE  RegistryInv'
  <2>1. PICK g : g = task[o].registry
    OBVIOUS
  <2>2. g \in Registries /\ g =< made
    BY <1>t, <1>r, <1>b, <2>1 DEF Shape
  <2>3. single' = [single EXCEPT ![g] = single[g]] /\ Filed(single[g])
    BY <1>t, <1>b, <2>2
  <2> QED  BY <1>t, <1>b, <2>2, <2>3, OperationStep
<1>s. ASSUME NEW o \in Ops, NEW t \in TaskTypes, Busy(task[o]), task' = [task EXCEPT ![o] = t],
             t.stage # "idle", Shape(o, t, made), UNCHANGED <<made, entry>>, ready' \subseteq Objects,
             NEW s, single' = [single EXCEPT ![task[o].registry] = s], Filed(s),
             Known(s) \subseteq Known(single[task[o].registry]) \cup {t.model},
             (t.model \in {Raw(o), Wrap(Raw(o))} /\ o \in Loads) \/ Known(s) \subseteq Known(single[task[o].registry])
      PROVE  RegistryInv'
  <2>1. PICK g : g = task[o].registry
    OBVIOUS
  <2>2. g \in Registries /\ g =< made
    BY <1>t, <1>r, <1>s, <2>1 DEF Shape
  <2>3. single' = [single EXCEPT ![g] = s]
    BY <1>s, <2>1
  <2>4. \A m \in Known(s) \ Known(single[g]) :
           (m \in {Raw(o), Wrap(Raw(o))} /\ o \in Loads) \/ m = NoModel
    BY <1>s, <2>1
  <2> QED  BY <1>t, <1>s, <2>2, <2>3, <2>4, OperationStep
<1>w. \A o \in Ops : Busy(task[o]) <=> Running(o)
  BY DEF Busy, Running
<1>2. ASSUME NEW o \in Ops, FinishHook(o)
      PROVE  RegistryInv'
  <2>1. /\ task[o].stage = "hook" /\ o \in Loads /\ task[o].model = Raw(o) /\ task[o] \in TaskTypes
        /\ Shape(o, task[o], made)
    BY <1>t, <1>2 DEF FinishHook, Shape
  <2>2. PICK t : t = [task[o] EXCEPT !.stage = "late_hook", !.model = Wrap(Raw(o))]
    OBVIOUS
  <2>3. task' = [task EXCEPT ![o] = t] /\ UNCHANGED <<single, made, entry, ready>>
    BY <1>t, <1>2, <2>1, <2>2 DEF FinishHook, TaskTypes
  <2>4. Wrap(Raw(o)) \in Objects
    BY <2>1, ObjectParts
  <2>5. t \in TaskTypes
    BY <2>1, <2>2, <2>4 DEF TaskTypes, Stages
  <2>6. Busy(task[o]) /\ Shape(o, t, made) /\ t.stage # "idle"
    BY <2>1, <2>2 DEF Busy, Shape, TaskTypes
  <2> QED  BY <1>t, <1>b, <2>3, <2>5, <2>6
<1>3. ASSUME NEW o \in Ops, FinishLateHook(o)
      PROVE  RegistryInv'
  <2>1. /\ task[o].stage = "late_hook" /\ o \in Loads /\ task[o].model = Wrap(Raw(o)) /\ task[o] \in TaskTypes
        /\ Shape(o, task[o], made) /\ Wrap(Raw(o)) \in Objects
    BY <1>t, <1>3, ObjectParts DEF FinishLateHook, Shape
  <2>2. PICK t : t = [task[o] EXCEPT !.stage = "load"]
    OBVIOUS
  <2>3. task' = [task EXCEPT ![o] = t] /\ UNCHANGED <<made, entry, ready>>
    BY <1>t, <1>3, <2>2 DEF FinishLateHook, TaskTypes
  <2>4. t \in TaskTypes /\ t.model = Wrap(Raw(o))
    BY <2>1, <2>2 DEF TaskTypes, Stages
  <2>5. Busy(task[o]) /\ Shape(o, t, made) /\ t.stage # "idle"
    BY <2>1, <2>2 DEF Busy, Shape, TaskTypes
  <2>6. CASE task[o].reload
    <3>1. single' = single
      BY <1>3, <2>6 DEF FinishLateHook
    <3> QED  BY <1>t, <1>b, <2>3, <2>4, <2>5, <3>1
  <2>7. CASE ~task[o].reload
    <3>1. PICK g : g = task[o].registry
      OBVIOUS
    <3>2. g \in Registries
      BY <1>r, <2>1, <2>5, <3>1 DEF Shape
    <3>3. PICK s : s = Register(single[g], Wrap(Raw(o)))
      OBVIOUS
    <3>4. single' = [single EXCEPT ![g] = s]
      BY <1>t, <1>3, <2>1, <2>7, <3>1, <3>2, <3>3 DEF FinishLateHook
    <3>5. Filed(s) /\ Known(s) \subseteq Known(single[g]) \cup {Wrap(Raw(o))}
      BY <1>t, <2>1, <3>2, <3>3, RegisterFiles, KnownKeeps
    <3> QED  BY <1>t, <1>s, <2>1, <2>3, <2>4, <2>5, <3>1, <3>4, <3>5
  <2> QED  BY <2>6, <2>7
<1>4. ASSUME NEW o \in Ops, FinishLoad(o)
      PROVE  RegistryInv'
  <2>1. /\ task[o].stage = "load" /\ o \in Loads /\ task[o].model = Wrap(Raw(o)) /\ task[o] \in TaskTypes
        /\ Shape(o, task[o], made) /\ Wrap(Raw(o)) \in Objects
    BY <1>t, <1>4, ObjectParts DEF FinishLoad, Shape
  <2>2. PICK t : t = [task[o] EXCEPT !.stage = IF task[o].reload THEN "retire" ELSE "done"]
    OBVIOUS
  <2>3. task' = [task EXCEPT ![o] = t] /\ UNCHANGED <<made, entry>> /\ ready' \subseteq Objects
    BY <1>t, <1>4, <2>1, <2>2, LoadEnds DEF FinishLoad, TaskTypes, Comes
  <2>4. t \in TaskTypes /\ t.model = Wrap(Raw(o)) /\ t.reload = task[o].reload
        /\ t.stage = IF task[o].reload THEN "retire" ELSE "done"
    BY <2>1, <2>2 DEF TaskTypes, Stages
  <2>5. Busy(task[o]) /\ Shape(o, t, made) /\ t.stage # "idle"
    BY <2>1, <2>2, <2>4 DEF Busy, Shape, TaskTypes
  <2>6. CASE ~task[o].reload
    <3>1. single' = single
      BY <1>4, <2>6 DEF FinishLoad
    <3> QED  BY <1>b, <2>3, <2>4, <2>5, <3>1
  <2>7. CASE task[o].reload
    <3>1. PICK g : g = task[o].registry
      OBVIOUS
    <3>2. g \in Registries
      BY <1>r, <2>1, <2>5, <3>1 DEF Shape
    <3>3. PICK c : c = Register(single[g], Wrap(Raw(o)))
      OBVIOUS
    <3>4. Filed(c) /\ Known(c) \subseteq Known(single[g]) \cup {Wrap(Raw(o))}
      BY <1>t, <2>1, <3>2, <3>3, RegisterFiles, KnownKeeps
    <3>5. PICK s : s = ClearIfDefault(c, task[o].old)
      OBVIOUS
    <3>6. task[o].old # NoModel
      BY <2>1, <2>7 DEF Shape
    <3>7. Filed(s) /\ Known(s) \subseteq Known(c)
      BY <3>4, <3>5, <3>6, ClearKeeps, KnownKeeps
    <3>8. single' = [single EXCEPT ![g] = s]
      BY <1>t, <1>4, <2>1, <2>7, <3>1, <3>2, <3>3, <3>5 DEF FinishLoad
    <3> QED  BY <1>s, <2>1, <2>3, <2>4, <2>5, <3>1, <3>4, <3>7, <3>8
  <2> QED  BY <2>6, <2>7
<1>5. ASSUME NEW o \in Ops, FinishRetire(o)
      PROVE  RegistryInv'
  <2>0. PICK st \in {"done", "unretired"} : Retired(o, st)
    BY <1>5, RetireEnds
  <2>1. task[o].stage = "retire" /\ task[o] \in TaskTypes /\ Shape(o, task[o], made)
    BY <1>t, <2>0 DEF Retired
  <2>2. PICK t : t = [task[o] EXCEPT !.stage = st]
    OBVIOUS
  <2>3. task' = [task EXCEPT ![o] = t] /\ UNCHANGED <<single, made, entry>> /\ ready' \subseteq Objects
    BY <2>0, <2>2 DEF Retired, Goes
  <2>4. t \in TaskTypes
    BY <2>1, <2>2 DEF TaskTypes, Stages
  <2>5. Busy(task[o]) /\ Shape(o, t, made) /\ t.stage # "idle"
    BY <2>1, <2>2 DEF Busy, Shape, TaskTypes
  <2> QED  BY <1>b, <2>3, <2>4, <2>5
<1>6. ASSUME NEW o \in Ops, FailLoad(o)
      PROVE  RegistryInv'
  <2>1. /\ task[o].stage \in {"hook", "late_hook", "load"} /\ task[o] \in TaskTypes
        /\ Shape(o, task[o], made) /\ UNCHANGED <<single, made, entry, ready>>
    <3>1. task[o].stage \in Stages
      BY <1>t DEF TaskTypes
    <3> QED  BY <1>t, <1>6, <3>1, FailuresAssumption DEF FailLoad, Stages
  <2>2. PICK t : t = IF task[o].reload THEN [task[o] EXCEPT !.stage = "failed"]
                     ELSE [task[o] EXCEPT !.stage = "unload", !.hooking = {task[o].model}]
    OBVIOUS
  <2>3. task' = [task EXCEPT ![o] = t]
    BY <1>t, <1>6, <2>2 DEF FailLoad, TaskTypes
  <2>4. task[o].model \in Objects
    BY <2>1, ObjectParts DEF Shape
  <2>5. t \in TaskTypes
    BY <2>1, <2>2, <2>4 DEF TaskTypes, Stages
  <2>6. Busy(task[o]) /\ Shape(o, t, made) /\ t.stage # "idle"
    BY <2>1, <2>2 DEF Busy, Shape, TaskTypes
  <2> QED  BY <1>t, <1>b, <2>1, <2>3, <2>5, <2>6
<1>9. ASSUME NEW o \in Ops, NEW m \in task[o].stopping, FinishModelUnload(o, m)
      PROVE  RegistryInv'
  <2>1. task[o] \in TaskTypes /\ Shape(o, task[o], made)
    BY <1>t
  <2>0. PICK st \in {task[o].stage, "failed"} : Stopped(o, m, st)
    BY <1>9, UnloadEnds
  <2>2. PICK t : t = [task[o] EXCEPT !.stopping = @ \ {m}, !.stage = st]
    OBVIOUS
  <2>3. task' = [task EXCEPT ![o] = t] /\ UNCHANGED <<single, made, entry>> /\ ready' \subseteq Objects
    BY <2>0, <2>2 DEF Stopped, Goes
  <2>4. t \in TaskTypes
    BY <2>1, <2>2 DEF TaskTypes, Stages
  <2>5. Busy(task[o]) /\ t.stage # "idle"
    <3>1. task[o].stage = "idle" => task[o].stopping = {}
      BY <2>1 DEF Shape, Idle
    <3> QED  BY <2>1, <2>2, <3>1 DEF Busy, TaskTypes
  <2>6. Shape(o, t, made)
    <3>1. task[o].stage \in {"unload", "failed"}
      BY <2>1 DEF Shape
    <3>2. /\ t.stage \in {"unload", "failed"} /\ t.registry = task[o].registry
          /\ t.reload = task[o].reload /\ t.old = task[o].old
      BY <2>1, <2>2, <3>1 DEF TaskTypes
    <3> QED  BY <2>1, <2>5, <3>2 DEF Shape
  <2> QED  BY <1>b, <2>3, <2>4, <2>5, <2>6
<1>7. ASSUME NEW o \in Ops, BeginUnload(o)
      PROVE  RegistryInv'
  <2>1. /\ task[o].stage = "idle" /\ entry # NoRegistry /\ o \notin Loads
        /\ UNCHANGED <<made, entry, ready>>
    BY <1>7 DEF BeginUnload, Loads, MayBegin
  <2>2. PICK g : g = entry
    OBVIOUS
  <2>3. g \in Registries /\ g \in 1..made /\ g =< made
    <3>1. g \in Registries /\ g =< made
      BY <1>t, <2>1, <2>2
    <3>2. g \in Nat /\ g >= 1
      BY <3>1, LoadsFinite DEF Registries
    <3> QED  BY <1>t, <3>1, <3>2
  <2>4. PICK targets : targets = IF o.kind = "purge" THEN Models(single[g])
                                 ELSE {Find(single[g], o.version)} \ {NoModel}
    OBVIOUS
  <2>5. PICK t : t = [Idle EXCEPT !.stage = "unload", !.registry = g, !.hooking = targets]
    OBVIOUS
  <2>6. PICK s : s = IF o.kind = "purge" THEN Cached(single[g]) ELSE Found(single[g], o.version)
    OBVIOUS
  <2>7. task' = [task EXCEPT ![o] = t] /\ single' = [single EXCEPT ![g] = s]
    BY <1>t, <1>7, <2>2, <2>3, <2>4, <2>5, <2>6 DEF BeginUnload
  <2>8. o.version \in Slots
    BY OpsAssumption DEF Slots
  <2>9. targets \in SUBSET Objects
    <3>1. Models(single[g]) \subseteq Objects /\ Find(single[g], o.version) \in Known(single[g])
      BY <1>t, <2>3, <2>8, KnownKeeps
    <3> QED  BY <1>k, <2>3, <2>4, <3>1
  <2>10. t \in TaskTypes
    BY <1>i, <2>3, <2>5, <2>9 DEF TaskTypes, Idle, Stages
  <2>11. t.stage = "unload" /\ t.registry = g /\ ~t.reload
    BY <2>5 DEF Idle
  <2>12. Shape(o, t, made)
    BY <2>3, <2>11 DEF Shape
  <2>13. s \in {single[g], Cached(single[g])}
    BY <1>t, <2>3, <2>6, <2>8, KnownKeeps
  <2>14. Filed(s) /\ Known(s) \subseteq Known(single[g])
    BY <1>t, <2>3, <2>13, CachedKeeps, KnownKeeps
  <2> QED  BY <1>t, <2>1, <2>3, <2>7, <2>10, <2>11, <2>12, <2>14, OperationStep
<1>8. ASSUME NEW o \in Ops, NEW m \in task[o].hooking, FinishUnloadHooks(o, m)
      PROVE  RegistryInv'
  <2>1. /\ task[o] \in TaskTypes /\ Shape(o, task[o], made) /\ UNCHANGED <<made, entry, ready>>
        /\ Busy(task[o]) /\ task[o].stage # "idle"
    <3>1. task[o] \in TaskTypes /\ Shape(o, task[o], made)
      BY <1>t
    <3>2. task[o].stage # "idle"
      BY <3>1 DEF Shape, Idle
    <3> QED  BY <1>8, <3>1, <3>2 DEF FinishUnloadHooks, Busy
  <2>2. m \in Objects
    BY <2>1 DEF TaskTypes
  <2>3. PICK g : g = task[o].registry
    OBVIOUS
  <2>4. g \in Registries
    BY <1>r, <2>1, <2>3 DEF Shape
  <2>5. PICK gone : gone = (m.version # Unversioned /\ single[g].versions[m.version] = NoModel)
    OBVIOUS
  <2>6. CASE gone
    <3>1. PICK t : t = [task[o] EXCEPT !.stage = "failed", !.hooking = @ \ {m}]
      OBVIOUS
    <3>2. task' = [task EXCEPT ![o] = t] /\ UNCHANGED single
      BY <1>t, <1>8, <2>3, <2>5, <2>6, <3>1 DEF FinishUnloadHooks, TaskTypes
    <3>3. t \in TaskTypes /\ t.stage = "failed" /\ t.registry = g
      BY <2>1, <2>3, <3>1 DEF TaskTypes, Stages
    <3>4. t.reload = task[o].reload /\ t.old = task[o].old
      BY <2>1, <3>1 DEF TaskTypes
    <3>5. Shape(o, t, made)
      BY <2>1, <2>3, <3>3, <3>4 DEF Shape
    <3> QED  BY <1>t, <1>b, <2>1, <3>2, <3>3, <3>5
  <2>7. CASE ~gone
    <3>1. PICK t : t = [task[o] EXCEPT !.hooking = @ \ {m}, !.stopping = @ \cup {m}]
      OBVIOUS
    <3>2. PICK s : s = ClearIfDefault(Deleted(single[g], m), m)
      OBVIOUS
    <3>3. task' = [task EXCEPT ![o] = t] /\ single' = [single EXCEPT ![g] = s]
      BY <1>t, <1>8, <2>3, <2>5, <2>7, <3>1, <3>2 DEF FinishUnloadHooks, TaskTypes, Deleted
    <3>4. t \in TaskTypes
      BY <2>1, <2>2, <3>1 DEF TaskTypes
    <3>5. /\ t.stage = task[o].stage /\ t.registry = g /\ t.reload = task[o].reload
          /\ t.old = task[o].old /\ t.model = task[o].model
      BY <2>1, <2>3, <3>1 DEF TaskTypes
    <3>6. Shape(o, t, made)
      BY <2>1, <2>3, <3>5 DEF Shape
    <3>7. Filed(s) /\ Known(s) \subseteq Known(single[g])
      BY <1>t, <2>2, <2>4, <3>2, DeletedIsGone, KnownKeeps
    <3> QED  BY <1>t, <1>s, <2>1, <2>3, <3>3, <3>4, <3>5, <3>6, <3>7
  <2> QED  BY <2>6, <2>7
<1>10. ASSUME NEW o \in Ops, EndUnload(o)
       PROVE  RegistryInv'
  <2>1. /\ task[o] \in TaskTypes /\ Shape(o, task[o], made) /\ UNCHANGED <<made, ready>>
        /\ task[o].stage = "unload" /\ entry' \in {entry, NoRegistry}
    BY <1>t, <1>10 DEF EndUnload
  <2>2. PICK g : g = task[o].registry
    OBVIOUS
  <2>3. g \in Registries /\ g =< made
    BY <1>r, <2>1, <2>2 DEF Shape, Busy
  <2>4. PICK st \in {"done", "failed"} : task' = [task EXCEPT ![o].stage = st]
    BY <1>10, Zenon DEF EndUnload
  <2>5. PICK t : t = [task[o] EXCEPT !.stage = st]
    OBVIOUS
  <2>6. task' = [task EXCEPT ![o] = t]
    BY <1>t, <2>4, <2>5
  <2>0. task[o].hooking = {} /\ task[o].stopping = {}
    BY <1>10 DEF EndUnload
  <2>7. /\ t \in TaskTypes /\ t.stage \in {"done", "failed"} /\ t.registry = g
        /\ t.reload = task[o].reload /\ t.old = task[o].old
        /\ t.hooking \cup t.stopping = {}
    BY <2>0, <2>1, <2>2, <2>4, <2>5 DEF TaskTypes, Stages
  <2>8. Shape(o, t, made)
    BY <2>1, <2>2, <2>7 DEF Shape, Busy
  <2>9. PICK s : s = IF o.kind = "purge" THEN NoVersions ELSE single[g]
    OBVIOUS
  <2>10. single' = [single EXCEPT ![g] = s]
    BY <1>t, <1>10, <2>2, <2>3, <2>9 DEF EndUnload
  <2>11. Filed(s) /\ Known(s) \subseteq Known(single[g])
    <3>1. Filed(single[g]) /\ Known(NoVersions) = {NoModel} /\ NoModel \in Known(single[g])
      BY <1>t, <2>3, KnownKeeps DEF Known
    <3> QED  BY <2>9, <3>1, NoVersionsFiled
  <2>12. entry' \in Registries \cup {NoRegistry} /\ entry' =< made'
    BY <1>t, <2>1 DEF NoRegistry
  <2> QED  BY <1>t, <2>1, <2>3, <2>6, <2>7, <2>8, <2>10, <2>11, <2>12, OperationStep
<1>11. ASSUME ReadDefault
       PROVE  RegistryInv'
  <2>1. UNCHANGED <<made, entry, ready, task>> /\ entry # NoRegistry
    BY <1>11 DEF ReadDefault
  <2>2. PICK g \in Registries : g = entry
    BY <1>t, <2>1
  <2>3. PICK s : s = Cached(single[g])
    OBVIOUS
  <2>4. single' = [single EXCEPT ![g] = s]
    BY <1>t, <1>11, <2>2, <2>3 DEF ReadDefault
  <2>5. Filed(s) /\ Known(s) \subseteq Known(single[g])
    BY <1>t, <2>3, CachedKeeps, KnownKeeps
  <2>6. \A h \in Registries : single'[h] = IF h = g THEN s ELSE single[h]
    BY <1>t, <2>4
  <2>7. \A h \in Registries : Filed(single'[h]) /\ Known(single'[h]) \subseteq Known(single[h])
    BY <1>t, <2>5, <2>6
  <2>8. single' \in [Registries -> [versions : [Versions -> Objects \cup {NoModel}],
                                    default : Objects \cup {NoModel}]]
    BY <1>t, <2>4, <2>5 DEF Filed
  <2>9. \A h \in Registries : h > made => h # g
    BY <1>t, <2>2, LoadsFinite DEF Registries
  <2>10. \A h \in Registries : h > made => single'[h] = NoVersions
    BY <2>6, <2>9 DEF RegistryInv, Counted
  <2>11. Started' = Started
    BY <2>1 DEF Started
  <2>12. Counted' /\ TaskShape' /\ Unseen'
    BY <2>1, <2>7, <2>10, <2>11 DEF RegistryInv, Counted, TaskShape, Unseen
  <2>13. \A h \in Registries : \A m \in Range(single'[h].versions) :
           m # NoModel => single'[h].versions[m.version] = m
    BY <2>7 DEF Filed, Range
  <2>14. TypeOK'
    BY <2>1, <2>8, <2>13 DEF RegistryInv, TypeOK
  <2> QED  BY <2>7, <2>12, <2>14 DEF RegistryInv
<1>12. CASE UNCHANGED vars
  <2>1. UNCHANGED <<single, made, entry, ready, task>>
    BY <1>12 DEF vars
  <2>2. Counted' /\ TaskShape' /\ Unseen' /\ TypeOK'
    BY <2>1 DEF RegistryInv, Counted, Started, TaskShape, Unseen, TypeOK
  <2> QED  BY <2>1, <2>2 DEF RegistryInv
<1> QED
  BY <1>1, <1>2, <1>3, <1>4, <1>5, <1>6, <1>7, <1>8, <1>9, <1>10, <1>11, <1>12 DEF Next

(* The registry starts empty, with no operation running.                    *)
LEMMA RegistryInit == Init => RegistryInv
<1> SUFFICES ASSUME Init  PROVE RegistryInv
  OBVIOUS
<1>1. /\ single = [g \in Registries |-> NoVersions] /\ made = 0 /\ entry = NoRegistry
      /\ ready = {} /\ task = [o \in Ops |-> Idle]
  BY DEF Init
<1>2. Filed(NoVersions) /\ Known(NoVersions) = {NoModel}
  BY NoVersionsFiled, KnownKeeps
<1>3. /\ Idle \in TaskTypes /\ Idle.stage = "idle" /\ ~Idle.reload /\ ~Busy(Idle)
      /\ Idle.hooking \cup Idle.stopping = {}
  BY DEF Idle, TaskTypes, Stages, Busy
<1>4. TaskShape
  BY <1>1, <1>3 DEF TaskShape, Shape
<1>5. Started = {}
  BY <1>1, <1>3 DEF Started, Loads
<1>6. Counted
  BY <1>1, <1>5, FS_EmptySet DEF Counted
<1>7. Unseen
  BY <1>1, <1>2, ObjectParts, OpsAssumption DEF Unseen, Loads
<1>8. single \in [Registries -> [versions : [Versions -> Objects \cup {NoModel}],
                                 default : Objects \cup {NoModel}]]
  BY <1>1, <1>2 DEF Filed
<1>9. \A g \in Registries : \A m \in Range(single[g].versions) :
        m # NoModel => single[g].versions[m.version] = m
  BY <1>1, <1>2 DEF Filed, Range
<1>10. task \in [Ops -> TaskTypes]
  BY <1>1, <1>3
<1>11. \A o \in Ops : task[o].stage # "retire"
  BY <1>1, <1>3
<1>12. made \in 0..Cardinality(Loads) /\ entry =< made
  BY <1>1, LoadsFinite DEF NoRegistry
<1>13. TypeOK
  BY <1>1, <1>8, <1>9, <1>10, <1>11, <1>12 DEF TypeOK, TaskTypes
<1> QED  BY <1>1, <1>2, <1>4, <1>6, <1>7, <1>13 DEF RegistryInv

(* However loads and unloads overlap, the registry files a model under its  *)
(* own version or under none, and a reload that retires its old model has   *)
(* one (registry.py:188, :268).                                             *)
THEOREM RegistryTyping == Spec => []TypeOK
<1>1. RegistryInv => TypeOK
  BY DEF RegistryInv
<1> QED  BY <1>1, RegistryInit, RegistryStep, PTL DEF Spec

(* What a load does to the newest version while nothing fails: every model   *)
(* it registers, and every default that is read, keeps it the default.      *)
LEMMA NewestStep == RegistryInv /\ NewestWhileLoading /\ [Next]_vars => NewestWhileLoading'
<1> SUFFICES ASSUME RegistryInv, NewestWhileLoading, [Next]_vars, OnlyLoads'
             PROVE  \A g \in Registries : Newest(single'[g])
  BY DEF NewestWhileLoading, Newest, DefaultFiled
<1>t. /\ single \in [Registries -> [versions : [Versions -> Objects \cup {NoModel}],
                                    default : Objects \cup {NoModel}]]
      /\ task \in [Ops -> TaskTypes] /\ made \in Nat
      /\ entry \in Registries \cup {NoRegistry}
      /\ \A h \in Registries : Filed(single[h])
      /\ \A o \in Ops : Shape(o, task[o], made)
      /\ \A o \in Ops : Busy(task[o]) => task[o].registry \in 1..made
      /\ made =< Cardinality(Loads)
  BY LoadsFinite DEF RegistryInv, TypeOK, TaskTypes, TaskShape, Shape
<1>r. \A h \in 1..made : h \in Registries
  BY <1>t, LoadsFinite DEF Registries
<1>o. \A p \in Ops : /\ task'[p].stage \notin {"unload", "failed"}
                     /\ task'[p].stage = "done" => p \in Loads
  BY DEF OnlyLoads
(* An operation that is not the one that moves is as it was.                *)
<1>a. ASSUME NEW o \in Ops, NEW t, task' = [task EXCEPT ![o] = t],
             task[o].stage \notin {"unload", "failed"}, task[o].stage = "done" => o \in Loads
      PROVE  \A g \in Registries : Newest(single[g])
  <2>1. \A p \in Ops : p # o => task'[p] = task[p]
    BY <1>t, <1>a
  <2>2. OnlyLoads
    BY <1>o, <1>a, <2>1 DEF OnlyLoads
  <2> QED  BY <2>2 DEF NewestWhileLoading
<1>b. ASSUME NEW g \in Registries, NEW s, single' = [single EXCEPT ![g] = s], Newest(s),
             \A h \in Registries : Newest(single[h])
      PROVE  \A h \in Registries : Newest(single'[h])
  BY <1>t, <1>b
<1>1. ASSUME NEW o \in Ops, BeginLoad(o)
      PROVE  \A h \in Registries : Newest(single'[h])
  <2>1. PICK g : g = RegistryToUse
    OBVIOUS
  <2>2. g \in Registries
    <3>1. RegistryInv'
      BY RegistryStep
    <3>2. entry' = g /\ g # NoRegistry
      BY <1>t, <1>1, <2>1 DEF BeginLoad, RegistryToUse, NoRegistry
    <3> QED  BY <3>1, <3>2 DEF RegistryInv, TypeOK
  <2>3. task[o].stage = "idle" /\ o \in Loads
    BY <1>1 DEF BeginLoad, MayBegin, Loads
  <2>4. PICK f : f = Found(single[g], o.version)
    OBVIOUS
  <2>5. ~(task' = [task EXCEPT ![o].stage = "failed"])
    <3>1. [task EXCEPT ![o].stage = "failed"][o].stage = "failed"
      BY <1>t DEF TaskTypes
    <3> QED  BY <1>o, <3>1
  <2>6. /\ single' = [single EXCEPT ![g] = f] \/ single' = [single EXCEPT ![g] = Register(f, Raw(o))]
        /\ \E t : task' = [task EXCEPT ![o] = t]
    BY <1>1, <2>1, <2>4, <2>5 DEF BeginLoad
  <2>7. \A h \in Registries : Newest(single[h])
    BY <1>a, <2>3, <2>6
  <2>8. o.version \in Slots
    BY OpsAssumption DEF Slots
  <2>9. f \in {single[g], Cached(single[g])}
    BY <1>t, <2>2, <2>4, <2>8, KnownKeeps
  <2>10. Filed(f) /\ Newest(f)
    BY <1>t, <2>2, <2>7, <2>9, CachedKeeps
  <2>11. Raw(o) \in Objects
    BY <2>3, ObjectParts
  <2>12. Newest(Register(f, Raw(o)))
    BY <2>10, <2>11, RegisterFiles
  <2> QED  BY <1>b, <2>2, <2>6, <2>7, <2>10, <2>12
<1>2. ASSUME NEW o \in Ops, FinishLateHook(o)
      PROVE  \A h \in Registries : Newest(single'[h])
  <2>1. task[o].stage = "late_hook" /\ task' = [task EXCEPT ![o] = [task[o] EXCEPT !.stage = "load"]]
    BY <1>t, <1>2 DEF FinishLateHook, TaskTypes
  <2>2. \A h \in Registries : Newest(single[h])
    BY <1>a, <2>1
  <2>3. o \in Loads /\ task[o].model = Wrap(Raw(o)) /\ task[o].registry \in 1..made
    BY <1>t, <2>1 DEF Shape, Busy
  <2>4. PICK g : g = task[o].registry
    OBVIOUS
  <2>5. g \in Registries
    BY <1>r, <2>3, <2>4
  <2>6. single' = single \/ single' = [single EXCEPT ![g] = Register(single[g], Wrap(Raw(o)))]
    BY <1>t, <1>2, <2>3, <2>4, <2>5, Zenon DEF FinishLateHook
  <2>7. Newest(Register(single[g], Wrap(Raw(o))))
    BY <1>t, <2>2, <2>3, <2>5, ObjectParts, RegisterFiles
  <2> QED  BY <1>b, <2>2, <2>5, <2>6, <2>7
<1>3. ASSUME NEW o \in Ops, FinishLoad(o)
      PROVE  \A h \in Registries : Newest(single'[h])
  <2>1. /\ task[o].stage = "load"
        /\ \E st : task' = [task EXCEPT ![o] = [task[o] EXCEPT !.stage = st]]
    BY <1>t, <1>3 DEF FinishLoad, TaskTypes
  <2>2. \A h \in Registries : Newest(single[h])
    BY <1>a, <2>1
  <2>3. o \in Loads /\ task[o].model = Wrap(Raw(o)) /\ task[o].registry \in 1..made
    BY <1>t, <2>1 DEF Shape, Busy
  <2>4. PICK g : g = task[o].registry
    OBVIOUS
  <2>5. g \in Registries
    BY <1>r, <2>3, <2>4
  <2>6. CASE ~task[o].reload
    BY <1>3, <2>2, <2>6 DEF FinishLoad
  <2>7. CASE task[o].reload
    <3>1. PICK c : c = Register(single[g], Wrap(Raw(o)))
      OBVIOUS
    <3>2. PICK old : old = task[o].old
      OBVIOUS
    <3>3. single' = [single EXCEPT ![g] = ClearIfDefault(c, old)]
      BY <1>t, <1>3, <2>3, <2>4, <2>5, <2>7, <3>1, <3>2 DEF FinishLoad
    <3>4. /\ old \in Objects /\ old.id # o.id /\ old # NoModel
          /\ o.version # Unversioned => old.version = o.version
      BY <1>t, <2>1, <2>7, <3>2 DEF Shape, TaskTypes
    <3>5. Wrap(Raw(o)) \in Objects /\ Wrap(Raw(o)) # old /\ Wrap(Raw(o)).version = o.version
      BY <2>3, <3>4, ObjectParts
    <3>6. DefaultOf(c) # old
      BY <1>t, <2>5, <3>1, <3>4, <3>5, ReloadKeepsDefault
    <3>7. Filed(c) /\ Newest(c)
      BY <1>t, <2>2, <2>5, <3>1, <3>5, RegisterFiles
    <3>8. Newest(ClearIfDefault(c, old))
      BY <3>4, <3>6, <3>7, ClearKeeps
    <3> QED  BY <1>b, <2>2, <2>5, <3>3, <3>8
  <2> QED  BY <2>6, <2>7
<1>4. ASSUME NEW o \in Ops, FinishHook(o) \/ FinishRetire(o)
      PROVE  \A h \in Registries : Newest(single'[h])
  <2>0. FinishRetire(o) => \E st \in {"done", "unretired"} : Retired(o, st)
    BY RetireEnds
  <2>1. /\ task[o].stage \in {"hook", "retire"} /\ UNCHANGED single
        /\ \E t : task' = [task EXCEPT ![o] = t]
    BY <1>t, <1>4, <2>0 DEF FinishHook, Retired, TaskTypes
  <2> QED  BY <1>a, <2>1
(* A load that fails or an unload ends the period.                          *)
<1>5. ASSUME NEW o \in Ops, FailLoad(o) \/ BeginUnload(o) \/ EndUnload(o)
      PROVE  FALSE
  <2>1. task[o] \in TaskTypes
    BY <1>t
  <2>2. FailLoad(o) => task'[o].stage \in {"failed", "unload"}
    BY <1>t, <2>1 DEF FailLoad, TaskTypes
  <2>3. BeginUnload(o) => task'[o].stage = "unload"
    BY <1>t DEF BeginUnload, Idle
  <2>4. EndUnload(o) => task'[o].stage = "failed" \/ (task'[o].stage = "done" /\ o \notin Loads)
    BY <1>t, <2>1 DEF EndUnload, TaskTypes, Loads
  <2> QED  BY <1>o, <1>5, <2>2, <2>3, <2>4
<1>6. ASSUME NEW o \in Ops, NEW m,
             \/ m \in task[o].hooking /\ FinishUnloadHooks(o, m)
             \/ m \in task[o].stopping /\ FinishModelUnload(o, m)
      PROVE  FALSE
  <2>1. task[o] \in TaskTypes /\ task[o].stage \in {"unload", "failed"}
    BY <1>t, <1>6 DEF Shape
  <2>2. task'[o].stage \in {"unload", "failed"}
    <3>1. FinishUnloadHooks(o, m) => task'[o].stage \in {"failed", task[o].stage}
      BY <1>t, <2>1 DEF FinishUnloadHooks, TaskTypes
    <3>2. FinishModelUnload(o, m) => task'[o].stage \in {"failed", task[o].stage}
      <4>1. ASSUME NEW st \in {task[o].stage, "failed"}, Stopped(o, m, st)
            PROVE  task'[o].stage = st
        BY <1>t, <2>1, <4>1 DEF Stopped, TaskTypes
      <4> QED  BY <4>1, UnloadEnds DEF FinishModelUnload
    <3> QED  BY <1>6, <2>1, <3>1, <3>2
  <2> QED  BY <1>o, <2>2
<1>7. CASE ReadDefault
  <2>1. PICK g : g = entry
    OBVIOUS
  <2>2. g \in Registries
    BY <1>t, <1>7, <2>1 DEF ReadDefault
  <2>3. single' = [single EXCEPT ![g] = Cached(single[g])] /\ task' = task
    BY <1>t, <1>7, <2>1, <2>2 DEF ReadDefault
  <2>4. \A h \in Registries : Newest(single[h])
    BY <1>o, <2>3 DEF OnlyLoads, NewestWhileLoading
  <2>5. Newest(Cached(single[g]))
    BY <1>t, <2>2, <2>4, CachedKeeps
  <2> QED  BY <1>b, <2>2, <2>3, <2>4, <2>5
<1>8. CASE UNCHANGED vars
  <2>1. single' = single /\ task' = task
    BY <1>8 DEF vars
  <2> QED  BY <1>o, <2>1 DEF OnlyLoads, NewestWhileLoading
<1> QED
  BY <1>1, <1>2, <1>3, <1>4, <1>5, <1>6, <1>7, <1>8 DEF Next

(* A default that no registered version is newer than is the latest.        *)
LEMMA NewestIsLatest ==
  ASSUME RegistryInv, NewestWhileLoading
  PROVE  LatestWhileLoading
<1> SUFFICES ASSUME OnlyLoads, DefaultOf(Current).version # Unversioned
             PROVE  DefaultOf(Current) = Latest(Current)
  BY DEF LatestWhileLoading, OnlyLoads, DefaultIsLatest
<1>1. PICK s : s = Current
  OBVIOUS
<1>2. Filed(s) /\ Newest(s)
  BY <1>1, NoVersionsFiled DEF Current, RegistryInv, TypeOK, NewestWhileLoading
<1>3. CASE s.default = NoModel
  BY <1>1, <1>3 DEF DefaultOf
<1>4. CASE s.default # NoModel
  <2>1. DefaultOf(s) = s.default /\ s.default.version # Unversioned
    BY <1>1, <1>4 DEF DefaultOf
  <2>2. s.default \in Objects /\ s.default.version \in Versions
    BY <1>2, <1>4, <2>1, ObjectParts DEF Filed, Slots
  <2>3. s.versions[s.default.version] = s.default
    BY <1>2, <2>1 DEF Newest, DefaultFiled
  <2>4. s.default \in Held(s)
    BY <1>2, <1>4, <2>2, <2>3, LatestHeld
  <2>5. /\ Latest(s) \in Held(s) /\ s.default.version =< Latest(s).version
        /\ Latest(s).version \in Versions /\ s.versions[Latest(s).version] = Latest(s)
        /\ Latest(s) # NoModel
    BY <1>2, <2>4, LatestHeld DEF Held
  <2>6. Latest(s).version =< s.default.version
    BY <1>2, <2>1, <2>5 DEF Newest
  <2>7. Latest(s).version = s.default.version
    BY <2>2, <2>5, <2>6 DEF Versions
  <2> QED  BY <1>1, <2>1, <2>3, <2>5, <2>7
<1> QED  BY <1>3, <1>4

(* However many loads and reloads of a name overlap, and in whatever order   *)
(* they end, the default is the latest version (registry.py:109,            *)
(* tests/test_registry.py:128).  This is said of the time before the first  *)
(* unload begins and the first load fails, whose model may have been the    *)
(* default; an old model that will not unload does not end it.              *)
THEOREM OverlappingLoads == Spec => []LatestWhileLoading
<1>1. Init => NewestWhileLoading
  BY NoVersionsFiled DEF Init, NewestWhileLoading
<1>2. RegistryInv /\ NewestWhileLoading => LatestWhileLoading
  BY NewestIsLatest
<1> QED  BY <1>1, <1>2, RegistryInit, RegistryStep, NewestStep, PTL DEF Spec

-----------------------------------------------------------------------------
(* MLServer.start loads its models together, each version once; whatever     *)
(* else is done with a model is done alone.                                 *)
Orderly ==
  /\ Together \subseteq Loads
  /\ \A o, p \in Together : o.version = p.version => o = p
(* A name has versions, or a model without one. *)
Unmixed == (\A o \in Loads : o.version # Unversioned) \/ (\A o \in Loads : o.version = Unversioned)
(* The hooks after the one that replaces the model do not raise. *)
Settled == ~Wraps \/ "late_hook" \notin Failures

slot == [v \in Slots |-> Slot(Current, v)]

(* Operations that run at a time are loads that may, and of one registry. *)
Alone == \A o, p \in Ops : Running(o) /\ Running(p) /\ o # p => {o, p} \subseteq Together
Here == \A o \in Ops : Running(o) => entry # NoRegistry /\ task[o].registry = entry

(* What a load knows of the slot of its version: m is there, R are fit.     *)
LoadOwn(o, t, m, R) ==
  /\ t.stage # "unload" => t.hooking = {} /\ t.stopping = {}
  /\ t.stage \in {"idle", "failed"} => m.id # o.id
  /\ t.stage \in {"hook", "late_hook"} /\ ~t.reload => m = Raw(o)
  /\ t.stage = "load" /\ ~t.reload => m = t.model
  /\ t.stage \in {"hook", "late_hook", "load"} /\ t.reload => m = t.old /\ m \in R
  /\ t.stage = "retire" => m = t.model /\ m \in R
  /\ t.stage \in {"hook", "late_hook", "load", "retire"} /\ t.reload =>
       t.old.id # o.id /\ t.old.version = o.version
  /\ t.stage = "unload" =>
       /\ ~t.reload
       /\ t.stopping \subseteq {t.model}
       /\ t.model \in {Raw(o), Wrap(Raw(o))}
       /\ \/ t.hooking = {} /\ m = NoModel
          \/ t.hooking = {t.model} /\ t.stopping = {} /\ m = t.model
LoadsOwn == \A o \in Loads : LoadOwn(o, task[o], slot[o.version], Fit)

(* What an unload knows of the models it unloads. *)
UnloadOwn(o, t, held) ==
  /\ t.stage \in {"idle", "unload", "done", "failed"} /\ ~t.reload
  /\ t.stage \notin {"unload", "failed"} => t.hooking = {} /\ t.stopping = {}
  /\ \A m \in t.hooking : held[m.version] = m
  /\ \A m \in t.stopping : held[m.version] = NoModel
  /\ o.kind = "purge" /\ Busy(t) => \A v \in Slots : held[v] \in t.hooking \cup {NoModel}
  /\ o.kind = "unload" /\ Busy(t) =>
       /\ held[o.version] \in t.hooking \cup {NoModel}
       /\ o.version # Unversioned => \A m \in t.hooking : m.version = o.version
UnloadsOwn == \A o \in Ops \ Loads : UnloadOwn(o, task[o], slot)

(* A model that is held is fit, or of a first load that is under way. *)
FirstLoad(t) == t.stage \in {"hook", "late_hook", "load", "unload"} /\ ~t.reload
HeldReady ==
  \A v \in Slots : slot[v] # NoModel =>
    slot[v] \in Fit \/ \E o \in Loads : o.version = v /\ FirstLoad(task[o])

(* A model that is ready and lets itself be unloaded is held, or about to be *)
(* unloaded.                                                                 *)
Leaving(t, m) == (t.stage = "retire" /\ t.old = m) \/ m \in t.stopping
ReadyHeld ==
  /\ Lasting \subseteq {Wrap(Raw(o)) : o \in Loads}
  /\ \A m \in Lasting : slot[m.version] = m \/ \E o \in Ops : Leaving(task[o], m)

OrderlyInv ==
  /\ Alone
  /\ Here
  /\ LoadsOwn
  /\ UnloadsOwn
  /\ HeldReady
  /\ ReadyHeld
  /\ DefaultFiled(Current)

(* The slots of the registry in use. *)
LEMMA SlotFacts ==
  ASSUME RegistryInv
  PROVE  /\ Filed(Current)
         /\ \A v \in Slots : /\ slot[v] = Slot(Current, v) /\ slot[v] \in Objects \cup {NoModel}
                             /\ slot[v] # NoModel => slot[v].version = v
         /\ Models(Current) = {slot[v] : v \in Slots} \ {NoModel}
<1>1. Filed(Current)
  BY NoVersionsFiled DEF Current, RegistryInv, TypeOK
<1>2. PICK s : s = Current
  OBVIOUS
<1>3. Filed(s)
  BY <1>1, <1>2
<1>4. \A v \in Slots : slot[v] = Slot(s, v)
  BY <1>2 DEF slot
<1> QED  BY <1>2, <1>3, <1>4, ModelsInSlots

(* Another operation that runs is a load of another version. *)
LEMMA Others ==
  ASSUME Orderly, OrderlyInv, NEW o \in Ops, Busy(task[o]) \/ MayBegin(o),
         NEW p \in Ops, p # o, Running(p)
  PROVE  o \in Loads /\ p \in Loads /\ p.version # o.version
<1>1. {o, p} \subseteq Together
  BY DEF OrderlyInv, Alone, MayBegin, Busy, Running
<1> QED  BY <1>1 DEF Orderly

(* A load does as it finds: a version of a name that has versions, or the   *)
(* model of one that has none.                                              *)
LEMMA FindsSlot ==
  ASSUME Unmixed, RegistryInv, NEW o \in Loads
  PROVE  Find(Current, o.version) = slot[o.version] /\ o.version \in Slots
<1>1. o.version \in Slots
  BY OpsAssumption DEF Slots, Loads
<1>2. PICK s : s = Current
  OBVIOUS
<1>3. Filed(s) /\ slot[o.version] = Slot(s, o.version)
  BY <1>1, <1>2, SlotFacts
<1>4. CASE o.version # Unversioned
  BY <1>1, <1>2, <1>3, <1>4 DEF Find, Slot
<1>5. CASE o.version = Unversioned
  <2>1. \A m \in Objects : m.version = Unversioned
    BY <1>5, ObjectParts DEF Unmixed
  <2>2. Held(s) = {}
    <3>1. \A m \in Held(s) : m \in Objects /\ m.version \in Versions
      BY <1>3, LatestHeld
    <3> QED  BY <2>1, <3>1 DEF Versions, Unversioned
  <2>3. DefaultOf(s) = s.default
    BY <2>2 DEF DefaultOf, Latest
  <2>4. s.default \in Objects \cup {NoModel}
    BY <1>3 DEF Filed
  <2>5. s.default.version = Unversioned
    BY <2>1, <2>4, ObjectParts
  <2>6. Slot(s, o.version) = s.default
    BY <1>5, <2>5 DEF Slot
  <2>7. Find(s, o.version) = s.default
    BY <1>5, <2>3 DEF Find
  <2> QED  BY <1>1, <1>2, <1>3, <2>6, <2>7
<1> QED  BY <1>1, <1>4, <1>5

(* A step of operation o that leaves its task as t and slot v as x, and what  *)
(* o and the models of that slot owe the invariant.                         *)
SlotStep(o, t, v, x) ==
  /\ t \in TaskTypes /\ v \in Slots
  /\ task' = [task EXCEPT ![o] = t]
  /\ Busy(task[o]) \/ MayBegin(o)
  /\ slot' = [slot EXCEPT ![v] = x]
  /\ o \in Loads => v = o.version
  /\ \/ x = slot[v]
     \/ x = NoModel /\ slot[v] \in task[o].hooking
     \/ o \in Loads /\ x \in {Raw(o), Wrap(Raw(o))}
  /\ \A m \in Objects : m.version # v => (m \in ready <=> m \in ready')
  /\ o \in Loads => LoadOwn(o, t, x, Fit')
  /\ o \notin Loads => UnloadOwn(o, t, slot')
  /\ x # NoModel => x \in Fit' \/ (o \in Loads /\ FirstLoad(t))
  /\ Lasting' \subseteq {Wrap(Raw(p)) : p \in Loads}
  /\ \A m \in Lasting' : m.version = v => x = m \/ Leaving(t, m)
  /\ o \notin Loads => \A m \in task[o].stopping : m.version # v => m \in t.stopping
  /\ entry' = entry \/ (\A p \in Ops : Running(p) => p = o)
  /\ Busy(t) => entry' # NoRegistry /\ t.registry = entry'
  /\ DefaultFiled(Current')
Moved(o) == \E t, v, x : SlotStep(o, t, v, x)

(* What the others know of their slots stays true.                          *)
LEMMA OrderlyStep ==
  ASSUME Orderly, RegistryInv, RegistryInv', OrderlyInv,
         NEW o \in Ops, NEW t, NEW v, NEW x, SlotStep(o, t, v, x)
  PROVE  OrderlyInv'
<1> USE DEF SlotStep
<1>t. /\ task \in [Ops -> TaskTypes] /\ Fit \subseteq Objects /\ Lasting' \subseteq Objects
      /\ \A p \in Ops : Shape(p, task[p], made)
  BY UnreadyAssumption DEF RegistryInv, TypeOK, TaskTypes, TaskShape, Fit, Lasting, Objects, Of
<1>1. task'[o] = t /\ \A p \in Ops : p # o => task'[p] = task[p]
  BY <1>t
<1>2. \A p \in Ops : (Running(p) <=> Busy(task[p])) /\ (Running(p)' <=> Busy(task'[p]))
  BY DEF Running, Busy
<1>3. \A p \in Ops : p # o /\ Busy(task[p]) => o \in Loads /\ p \in Loads /\ p.version # o.version
  BY <1>2, Others
<1>s. /\ slot'[v] = x /\ \A w \in Slots : w # v => slot'[w] = slot[w]
      /\ \A w \in Slots : slot[w] \in Objects \cup {NoModel} /\ (slot[w] # NoModel => slot[w].version = w)
  BY SlotFacts DEF slot
<1>l. \A p \in Loads : p \in Ops /\ p.version \in Slots
  BY OpsAssumption DEF Loads, Slots
<1>4. Alone'
  <2>1. ASSUME NEW p \in Ops, p # o, Busy(task[p])
        PROVE  {o, p} \subseteq Together
    BY <1>2, <2>1 DEF OrderlyInv, Alone, MayBegin
  <2>2. \A p, q \in Ops : Busy(task[p]) /\ Busy(task[q]) /\ p # q => {p, q} \subseteq Together
    BY <1>2 DEF OrderlyInv, Alone
  <2>3. \A p, q \in Ops : Busy(task'[p]) /\ Busy(task'[q]) /\ p # q => {p, q} \subseteq Together
    BY <1>1, <2>1, <2>2
  <2> QED  BY <1>2, <2>3 DEF Alone
<1>5. Here'
  <2>1. \A p \in Ops : Busy(task[p]) => entry # NoRegistry /\ task[p].registry = entry
    BY <1>2 DEF OrderlyInv, Here
  <2>2. \A p \in Ops : Busy(task'[p]) => entry' # NoRegistry /\ task'[p].registry = entry'
    BY <1>1, <1>2, <2>1
  <2> QED  BY <1>2, <2>2 DEF Here
<1>6. LoadsOwn'
  <2>1. ASSUME NEW p \in Loads, p # o
        PROVE  LoadOwn(p, task'[p], slot'[p.version], Fit')
    <3>1. LoadOwn(p, task[p], slot[p.version], Fit) /\ task'[p] = task[p]
      BY <1>1, <1>l, <2>1 DEF OrderlyInv, LoadsOwn
    <3>2. CASE Busy(task[p])
      <4>1. p.version # v
        BY <1>3, <1>l, <2>1, <3>2
      <4>2. slot'[p.version] = slot[p.version]
        BY <1>s, <1>l, <4>1
      <4>3. slot[p.version] \in Fit => slot[p.version] \in Fit'
        <5>1. slot[p.version] \in Objects => slot[p.version] # NoModel
          BY ObjectParts
        <5>2. slot[p.version] \in Fit => slot[p.version] \in Objects /\ slot[p.version].version # v
          BY <1>t, <1>s, <1>l, <4>1, <5>1
        <5>3. slot[p.version] \in Fit => (slot[p.version] \in ready <=> slot[p.version] \in ready')
          BY <5>2
        <5> QED  BY <5>3, SameReadiness
      <4> QED  BY <3>1, <4>2, <4>3 DEF LoadOwn
    <3>3. CASE ~Busy(task[p])
      <4>1. task[p].stage \in {"idle", "done", "failed", "unretired"} /\ task[p].hooking = {} /\ task[p].stopping = {}
        BY <3>3 DEF Busy
      <4>2. p.id # "none" /\ p.id # o.id
        BY <1>l, <2>1, OpsAssumption
      <4>3. task[p].stage \in {"idle", "failed"} => slot'[p.version].id # p.id
        <5>1. CASE p.version = v
          <6>1. x = slot[v] => x = slot[p.version]
            BY <5>1
          <6>2. x = NoModel \/ (o \in Loads /\ x \in {Raw(o), Wrap(Raw(o))}) => x.id # p.id
            BY <4>2, ObjectParts
          <6> QED  BY <1>s, <3>1, <5>1, <6>1, <6>2 DEF LoadOwn
        <5>2. CASE p.version # v
          BY <1>s, <1>l, <3>1, <5>2 DEF LoadOwn
        <5> QED  BY <5>1, <5>2
      <4> QED  BY <3>1, <4>1, <4>3 DEF LoadOwn
    <3> QED  BY <3>2, <3>3
  <2>2. o \in Loads => LoadOwn(o, task'[o], slot'[o.version], Fit')
    BY <1>1, <1>s
  <2> QED  BY <2>1, <2>2 DEF LoadsOwn
<1>7. UnloadsOwn'
  <2>1. ASSUME NEW p \in Ops \ Loads, p # o
        PROVE  UnloadOwn(p, task'[p], slot')
    <3>1. UnloadOwn(p, task[p], slot) /\ task'[p] = task[p] /\ ~Busy(task[p])
      BY <1>1, <1>3, <2>1 DEF OrderlyInv, UnloadsOwn
    <3> QED  BY <3>1 DEF UnloadOwn, Busy
  <2> QED  BY <1>1, <2>1 DEF UnloadsOwn
<1>8. HeldReady'
  <2>1. ASSUME NEW w \in Slots, slot'[w] # NoModel
        PROVE  slot'[w] \in Fit' \/ \E p \in Loads : p.version = w /\ FirstLoad(task'[p])
    <3>1. CASE w = v
      BY <1>1, <1>s, <2>1, <3>1
    <3>2. CASE w # v
      <4>1. slot'[w] = slot[w] /\ slot[w] \in Objects /\ slot[w].version = w
        BY <1>s, <2>1, <3>2
      <4>2. slot[w] \in Fit \/ \E p \in Loads : p.version = w /\ FirstLoad(task[p])
        BY <2>1, <4>1 DEF OrderlyInv, HeldReady
      <4>3. slot[w] \in Fit => slot'[w] \in Fit'
        <5>1. slot[w] \in ready <=> slot[w] \in ready'
          BY <3>2, <4>1
        <5> QED  BY <4>1, <5>1, SameReadiness
      <4>4. \A p \in Loads : p.version = w => task'[p] = task[p]
        BY <1>1, <1>l, <3>2
      <4> QED  BY <4>2, <4>3, <4>4
    <3> QED  BY <3>1, <3>2
  <2> QED  BY <2>1 DEF HeldReady
<1>9. ReadyHeld'
  <2>1. ASSUME NEW m \in Lasting'
        PROVE  slot'[m.version] = m \/ \E p \in Ops : Leaving(task'[p], m)
    <3>0. m \in Objects /\ m.version \in Slots
      BY <1>t, <2>1, ObjectParts
    <3>1. CASE m.version = v
      BY <1>1, <1>s, <2>1, <3>1
    <3>2. CASE m.version # v
      <4>1. m \in Lasting /\ slot'[m.version] = slot[m.version]
        <5>1. m \in ready <=> m \in ready'
          BY <3>0, <3>2
        <5> QED  BY <1>s, <2>1, <3>0, <3>2, <5>1, SameReadiness
      <4>2. slot[m.version] = m \/ \E p \in Ops : Leaving(task[p], m)
        BY <4>1 DEF OrderlyInv, ReadyHeld
      <4>3. \A p \in Ops : p # o /\ Leaving(task[p], m) => Leaving(task'[p], m)
        BY <1>1
      <4>4. Leaving(task[o], m) => Leaving(task'[o], m)
        <5>1. CASE o \in Loads
          <6>1. LoadOwn(o, task[o], slot[o.version], Fit) /\ Shape(o, task[o], made)
            BY <1>t, <5>1 DEF OrderlyInv, LoadsOwn
          <6>2. Wrap(Raw(o)).version = o.version /\ Raw(o).version = o.version
            BY <5>1, ObjectParts
          <6>3. task[o].stage = "retire" => task[o].old.version = o.version
            BY <6>1 DEF LoadOwn, Shape
          <6>4. \A n \in task[o].stopping : n.version = o.version
            BY <6>1, <6>2 DEF LoadOwn
          <6> QED  BY <3>2, <5>1, <6>3, <6>4 DEF Leaving
        <5>2. CASE o \notin Loads
          <6>1. task[o].stage # "retire"
            BY <5>2 DEF OrderlyInv, UnloadsOwn, UnloadOwn
          <6> QED  BY <1>1, <3>2, <5>2, <6>1 DEF Leaving
        <5> QED  BY <5>1, <5>2
      <4> QED  BY <4>1, <4>2, <4>3, <4>4
    <3> QED  BY <3>1, <3>2
  <2> QED  BY <2>1 DEF ReadyHeld
<1> QED  BY <1>4, <1>5, <1>6, <1>7, <1>8, <1>9 DEF OrderlyInv

(* A lasting model, of the version of a load that runs or of any if an      *)
(* unload does: it is in its slot, or the operation takes it out.           *)
LEMMA ReadyHere ==
  ASSUME Orderly, RegistryInv, OrderlyInv, NEW o \in Ops, Busy(task[o]) \/ MayBegin(o),
         NEW n \in Lasting, o \in Loads => n.version = o.version
  PROVE  slot[n.version] = n \/ Leaving(task[o], n)
<1>1. slot[n.version] = n \/ \E p \in Ops : Leaving(task[p], n)
  BY DEF OrderlyInv, ReadyHeld
<1>2. ASSUME NEW p \in Ops, p # o, Leaving(task[p], n)
      PROVE  FALSE
  <2>1. Running(p)
    BY <1>2 DEF Leaving, Running
  <2>2. o \in Loads /\ p \in Loads /\ p.version # o.version
    BY <1>2, <2>1, Others
  <2>3. LoadOwn(p, task[p], slot[p.version], Fit) /\ Shape(p, task[p], made)
    BY <1>2, <2>2 DEF OrderlyInv, LoadsOwn, RegistryInv, TaskShape
  <2>4. Raw(p).version = p.version /\ Wrap(Raw(p)).version = p.version
    BY <2>2, ObjectParts
  <2>5. CASE task[p].stage = "retire" /\ task[p].old = n
    BY <2>2, <2>3, <2>5 DEF LoadOwn, Shape
  <2>6. CASE n \in task[p].stopping
    <3>1. task[p].stage = "unload"
      BY <2>3, <2>6 DEF LoadOwn
    <3>2. n = task[p].model /\ task[p].model \in {Raw(p), Wrap(Raw(p))}
      BY <2>3, <2>6, <3>1 DEF LoadOwn
    <3> QED  BY <2>2, <2>4, <3>2
  <2> QED  BY <1>2, <2>5, <2>6 DEF Leaving
<1> QED  BY <1>1, <1>2

(* What a change of the registry in use does to its slots. *)
Change(g, s, v, x) ==
  /\ g \in Registries /\ entry' = g /\ single' = [single EXCEPT ![g] = s]
  /\ v \in Slots /\ \A w \in Slots : Slot(s, w) = IF w = v THEN x ELSE slot[w]

(* Such a change is one of the slots of the registry in use.                *)
LEMMA SlotChanges ==
  ASSUME RegistryInv, NEW g, NEW s, NEW v, NEW x, Change(g, s, v, x)
  PROVE  Current' = s /\ slot' = [slot EXCEPT ![v] = x]
<1> USE DEF Change
<1>1. g # NoRegistry
  BY LoadsFinite DEF Registries, NoRegistry
<1>2. Current' = s
  BY <1>1 DEF Current, RegistryInv, TypeOK
<1>3. slot' = [w \in Slots |-> Slot(s, w)]
  BY <1>2 DEF slot
<1>4. slot = [w \in Slots |-> slot[w]]
  BY DEF slot
<1>5. \A w \in Slots : slot'[w] = [slot EXCEPT ![v] = x][w]
  BY <1>3, <1>4
<1>6. slot' = [w \in Slots |-> slot'[w]]
  BY <1>3
<1>7. [slot EXCEPT ![v] = x] = [w \in Slots |-> [slot EXCEPT ![v] = x][w]]
  BY <1>4
<1> QED  BY <1>2, <1>5, <1>6, <1>7

(* The steps of the loads. *)
LEMMA LoadsMove ==
  ASSUME Orderly, Unmixed, Settled, RegistryInv, RegistryInv', OrderlyInv, NEW o \in Ops,
         \/ FinishHook(o) \/ FinishLateHook(o) \/ FinishLoad(o)
         \/ FinishRetire(o) \/ FailLoad(o)
  PROVE  Moved(o)
<1>t. /\ single \in [Registries -> [versions : [Versions -> Objects \cup {NoModel}],
                                    default : Objects \cup {NoModel}]]
      /\ task[o] \in TaskTypes /\ task \in [Ops -> TaskTypes] /\ ready \subseteq Objects
      /\ Shape(o, task[o], made) /\ task[o].stage \in Stages
  BY DEF RegistryInv, TypeOK, TaskTypes, TaskShape
<1>1. /\ task[o].stage \in {"hook", "late_hook", "load", "retire"}
      /\ UNCHANGED <<made, entry>>
  BY <1>t, FailuresAssumption DEF FinishHook, FinishLateHook, FinishLoad, FinishRetire, FailLoad, Stages
<1>2. Busy(task[o]) /\ Running(o) /\ o \in Loads
  BY <1>t, <1>1 DEF Busy, Running, Shape
<1>3. o.version \in Slots
  BY OpsAssumption DEF Slots
<1>g. PICK g : g = entry
  OBVIOUS
<1>4. g = task[o].registry /\ g # NoRegistry /\ Current = single[g] /\ g \in Registries
  BY <1>2, <1>g DEF OrderlyInv, Here, Current, RegistryInv, TypeOK
<1>m. PICK m : m = slot[o.version]
  OBVIOUS
<1>5. LoadOwn(o, task[o], m, Fit)
  BY <1>2, <1>m DEF OrderlyInv, LoadsOwn
<1>6. PICK t0 : t0 = task[o]
  OBVIOUS
<1>7. /\ t0.stage \in {"hook", "late_hook", "load", "retire"} /\ t0 \in TaskTypes
      /\ t0.hooking = {} /\ t0.stopping = {} /\ LoadOwn(o, t0, m, Fit)
      /\ t0.model = IF t0.stage = "hook" THEN Raw(o) ELSE Wrap(Raw(o))
      /\ t0.registry = g
      /\ t0.reload => t0.old \in Objects /\ t0.old.id # o.id
      /\ t0.stage = "retire" => t0.reload
  <2>1. t0.hooking = {} /\ t0.stopping = {}
    BY <1>1, <1>5, <1>6 DEF LoadOwn
  <2>2. t0.old \in Objects \cup {NoModel}
    BY <1>t, <1>6 DEF TaskTypes
  <2> QED  BY <1>t, <1>1, <1>4, <1>5, <1>6, <2>1, <2>2 DEF Shape
<1>o. /\ Raw(o) \in Objects /\ Wrap(Raw(o)) \in Objects
      /\ Raw(o).id = o.id /\ Wrap(Raw(o)).id = o.id
      /\ Raw(o).version = o.version /\ Wrap(Raw(o)).version = o.version
  BY <1>2, ObjectParts
<1>s. /\ slot = [w \in Slots |-> slot[w]]
      /\ \A w \in Slots : slot[w] = Slot(single[g], w)
  BY <1>4 DEF slot
<1>f. Filed(single[g]) /\ DefaultFiled(single[g])
  BY <1>4 DEF RegistryInv, OrderlyInv
(* A lasting model of this version is the one in the slot, or the load's own  *)
(* old one.                                                                 *)
<1>8. ASSUME NEW n \in Lasting, n.version = o.version
      PROVE  n = m \/ (t0.stage = "retire" /\ n = t0.old)
  <2>1. slot[n.version] = n \/ Leaving(task[o], n)
    BY <1>2, <1>8, ReadyHere
  <2> QED  BY <1>m, <1>6, <1>7, <1>8, <2>1 DEF Leaving
<1>r. Lasting \subseteq {Wrap(Raw(p)) : p \in Loads}
  BY DEF OrderlyInv, ReadyHeld
(* What the step puts into the slot, and how the task and ready change.     *)
<1> DEFINE Moves(t, x) ==
             /\ t \in TaskTypes /\ task' = [task EXCEPT ![o] = t]
             /\ slot' = [slot EXCEPT ![o.version] = x]
             /\ x = m \/ x = Wrap(Raw(o))
             /\ DefaultFiled(Current')
             /\ t.registry = g
<1>9. ASSUME NEW t, NEW x, Moves(t, x),
             \A n \in Objects : n.version # o.version => (n \in ready <=> n \in ready'),
             LoadOwn(o, t, x, Fit'),
             x # NoModel => x \in Fit' \/ FirstLoad(t),
             Lasting' \subseteq Lasting \cup {Wrap(Raw(o))},
             \A n \in Lasting' : n.version = o.version => x = n \/ Leaving(t, n)
      PROVE  Moved(o)
  <2>1. Lasting' \subseteq {Wrap(Raw(p)) : p \in Loads}
    BY <1>2, <1>r, <1>9
  <2>2. PICK v \in Slots : v = o.version
    BY <1>3
  <2>3. SlotStep(o, t, v, x)
    BY <1>1, <1>2, <1>4, <1>g, <1>m, <1>9, <2>1, <2>2 DEF SlotStep
  <2> QED  BY <2>3 DEF Moved
(* Steps that leave the registry as it is. *)
<1>u. ASSUME single' = single
      PROVE  slot' = [slot EXCEPT ![o.version] = m] /\ DefaultFiled(Current')
  <2>1. Current' = Current
    BY <1>1, <1>u DEF Current
  <2>2. slot' = slot
    BY <2>1 DEF slot
  <2>3. DefaultFiled(Current')
    BY <2>1 DEF OrderlyInv
  <2> QED  BY <1>s, <1>m, <2>2, <2>3
<1>c. ASSUME NEW s, single' = [single EXCEPT ![g] = s], NEW x,
             \A w \in Slots : Slot(s, w) = IF w = o.version THEN x ELSE Slot(single[g], w)
      PROVE  Current' = s /\ slot' = [slot EXCEPT ![o.version] = x]
  <2>1. \A w \in Slots : Slot(s, w) = IF w = o.version THEN x ELSE slot[w]
    BY <1>s, <1>c
  <2>2. entry' = g
    BY <1>1, <1>g
  <2>3. Change(g, s, o.version, x)
    BY <1>3, <1>4, <1>c, <2>1, <2>2 DEF Change
  <2> QED  BY <2>3, SlotChanges
<1>10. ASSUME FinishHook(o)
       PROVE  Moved(o)
  <2>0. t0.stage = "hook" /\ UNCHANGED <<single, ready>>
    BY <1>6, <1>10 DEF FinishHook
  <2>1. t0.stage = "hook" /\ UNCHANGED <<single, ready>> /\ Fit' = Fit /\ Lasting' = Lasting
    BY <2>0, ReadyStays
  <2>2. PICK t : t = [t0 EXCEPT !.stage = "late_hook", !.model = Wrap(Raw(o))]
    OBVIOUS
  <2>3. task' = [task EXCEPT ![o] = t]
    BY <1>t, <1>6, <1>7, <1>10, <2>1, <2>2 DEF FinishHook, TaskTypes
  <2>4. /\ t \in TaskTypes /\ t.stage = "late_hook" /\ t.registry = g /\ t.reload = t0.reload
        /\ t.old = t0.old /\ t.hooking = {} /\ t.stopping = {}
    BY <1>7, <1>o, <2>2 DEF TaskTypes, Stages
  <2>5. Moves(t, m)
    BY <1>u, <2>1, <2>3, <2>4
  <2>6. LoadOwn(o, t, m, Fit)
    BY <1>7, <2>1, <2>4 DEF LoadOwn
  <2>7. m # NoModel => m \in Fit \/ FirstLoad(t)
    BY <1>7, <2>1, <2>4 DEF LoadOwn, FirstLoad
  <2>8. \A n \in Lasting : n.version = o.version => m = n
    BY <1>8, <2>1
  <2> HIDE DEF Moves
  <2> QED  BY <1>9, <2>1, <2>5, <2>6, <2>7, <2>8
<1>11. ASSUME FinishRetire(o)
       PROVE  Moved(o)
  <2>0. PICK st \in {"done", "unretired"} : Retired(o, st)
    BY <1>11, RetireEnds
  <2>1. t0.stage = "retire" /\ UNCHANGED single /\ Goes(t0.old)
    BY <1>6, <2>0 DEF Retired
  <2>2. PICK t : t = [t0 EXCEPT !.stage = st]
    OBVIOUS
  <2>3. task' = [task EXCEPT ![o] = t]
    BY <1>6, <2>0, <2>2 DEF Retired
  <2>4. /\ t \in TaskTypes /\ t.stage \in {"done", "unretired"} /\ t.registry = g
        /\ t.hooking = {} /\ t.stopping = {}
    BY <1>7, <2>2 DEF TaskTypes, Stages
  <2>5. Moves(t, m)
    BY <1>u, <2>1, <2>3, <2>4
  <2>6. LoadOwn(o, t, m, Fit')
    BY <2>4 DEF LoadOwn
  <2>7. m = Wrap(Raw(o)) /\ m \in Fit /\ t0.old.version = o.version /\ t0.old.id # o.id
    BY <1>7, <2>1 DEF LoadOwn
  <2>x. \A n \in Objects : n # t0.old => (n \in ready <=> n \in ready')
    BY <2>1 DEF Goes
  <2>y. ASSUME NEW n \in Objects, n # t0.old
        PROVE  (n \in Fit <=> n \in Fit') /\ (n \in Lasting <=> n \in Lasting')
    BY <2>x, <2>y, SameReadiness
  <2>8. m \in Fit'
    BY <1>o, <2>7, <2>y
  <2>z. ASSUME NEW n \in Lasting'
        PROVE  n \in Lasting /\ n # t0.old
    BY <2>1, <2>y, <2>z DEF Goes, Lasting
  <2>9. \A n \in Lasting' : n.version = o.version => m = n
    BY <1>8, <2>1, <2>z
  <2>10. \A n \in Objects : n.version # o.version => (n \in ready <=> n \in ready')
    BY <2>x, <2>7
  <2>11. Lasting' \subseteq Lasting
    BY <2>z
  <2> HIDE DEF Moves
  <2> QED  BY <1>9, <2>5, <2>6, <2>8, <2>9, <2>10, <2>11
<1>12. ASSUME FailLoad(o)
       PROVE  Moved(o)
  <2>1. /\ t0.stage \in {"hook", "late_hook", "load"} /\ t0.stage \in Failures
        /\ UNCHANGED <<single, ready>>
    BY <1>6, <1>7, <1>12, FailuresAssumption DEF FailLoad
  <2>f. Fit' = Fit /\ Lasting' = Lasting
    BY <2>1, ReadyStays
  <2>2. PICK t : t = IF t0.reload THEN [t0 EXCEPT !.stage = "failed"]
                     ELSE [t0 EXCEPT !.stage = "unload", !.hooking = {t0.model}]
    OBVIOUS
  <2>3. task' = [task EXCEPT ![o] = t]
    BY <1>t, <1>6, <1>12, <2>2 DEF FailLoad, TaskTypes
  <2>4. /\ t \in TaskTypes /\ t.registry = g /\ t.reload = t0.reload /\ t.stopping = {} /\ t.model = t0.model
        /\ t.reload => t.stage = "failed" /\ t.hooking = {}
        /\ ~t.reload => t.stage = "unload" /\ t.hooking = {t0.model}
    BY <1>7, <1>o, <2>1, <2>2 DEF TaskTypes, Stages
  <2>5. Moves(t, m)
    BY <1>u, <2>1, <2>3, <2>4
  <2>6. t.reload => m = t0.old /\ m \in Fit /\ t0.old.id # o.id
    BY <1>7, <2>1, <2>4 DEF LoadOwn
  <2>7. ~t.reload => m = t0.model
    <3>1. t0.stage = "late_hook" => Wrap(Raw(o)) = Raw(o)
      <4>1. t0.stage = "late_hook" => Wraps = FALSE
        BY <2>1, WrapsAssumption, Zenon DEF Settled
      <4>2. Wraps = FALSE => Wrap(Raw(o)) = [Raw(o) EXCEPT !.wrapped = FALSE]
        BY DEF Wrap
      <4>3. [Raw(o) EXCEPT !.wrapped = FALSE] = Raw(o)
        <5>1. Raw(o) = [Raw(o) EXCEPT !.wrapped = Raw(o).wrapped]
          BY Zenon DEF Raw
        <5>2. Raw(o).wrapped = FALSE
          BY Zenon DEF Raw
        <5> QED  BY Zenon, <5>1, <5>2
      <4> QED  BY <4>1, <4>2, <4>3
    <3> QED  BY <1>7, <2>1, <2>4, <3>1 DEF LoadOwn
  <2>8. LoadOwn(o, t, m, Fit)
    BY <1>7, <2>1, <2>4, <2>6, <2>7 DEF LoadOwn
  <2>9. m # NoModel => m \in Fit \/ FirstLoad(t)
    BY <2>4, <2>6 DEF FirstLoad
  <2>10. \A n \in Lasting : n.version = o.version => m = n
    BY <1>8, <2>1
  <2> HIDE DEF Moves
  <2> QED  BY <1>9, <2>1, <2>f, <2>5, <2>8, <2>9, <2>10
<1>13. ASSUME FinishLateHook(o)
       PROVE  Moved(o)
  <2>1. t0.stage = "late_hook" /\ UNCHANGED ready /\ t0.model = Wrap(Raw(o))
    BY <1>6, <1>7, <1>13 DEF FinishLateHook
  <2>f. Fit' = Fit /\ Lasting' = Lasting
    BY <2>1, ReadyStays
  <2>2. PICK t : t = [t0 EXCEPT !.stage = "load"]
    OBVIOUS
  <2>3. task' = [task EXCEPT ![o] = t]
    BY <1>t, <1>6, <1>13, <2>2 DEF FinishLateHook
  <2>4. /\ t \in TaskTypes /\ t.stage = "load" /\ t.registry = g /\ t.reload = t0.reload
        /\ t.old = t0.old /\ t.hooking = {} /\ t.stopping = {} /\ t.model = Wrap(Raw(o))
    BY <1>7, <2>1, <2>2 DEF TaskTypes, Stages
  <2>5. CASE t0.reload
    <3>1. single' = single
      BY <1>6, <1>13, <2>5 DEF FinishLateHook
    <3>2. Moves(t, m)
      BY <1>u, <2>3, <2>4, <3>1
    <3>3. LoadOwn(o, t, m, Fit) /\ m \in Fit
      BY <1>7, <2>1, <2>4, <2>5 DEF LoadOwn
    <3>4. \A n \in Lasting : n.version = o.version => m = n
      BY <1>8, <2>1
    <3> HIDE DEF Moves
    <3> QED  BY <1>9, <2>1, <2>f, <3>2, <3>3, <3>4
  <2>6. CASE ~t0.reload
    <3>1. PICK s : s = Register(single[g], Wrap(Raw(o)))
      OBVIOUS
    <3>2. single' = [single EXCEPT ![g] = s]
      BY <1>t, <1>4, <1>6, <1>13, <2>1, <2>6, <3>1 DEF FinishLateHook
    <3>3. /\ \A w \in Slots : Slot(s, w) = IF w = o.version THEN Wrap(Raw(o)) ELSE Slot(single[g], w)
          /\ DefaultFiled(s)
      BY <1>f, <1>o, <3>1, RegisterFiles
    <3>4. slot' = [slot EXCEPT ![o.version] = Wrap(Raw(o))] /\ Current' = s
      BY <1>c, <3>2, <3>3
    <3>d. DefaultFiled(Current')
      BY <3>3, <3>4
    <3>5. Moves(t, Wrap(Raw(o)))
      BY <2>3, <2>4, <3>4, <3>d
    <3>6. LoadOwn(o, t, Wrap(Raw(o)), Fit) /\ FirstLoad(t)
      BY <2>4, <2>6 DEF LoadOwn, FirstLoad
    <3>7. m = Raw(o)
      BY <1>7, <2>1, <2>6 DEF LoadOwn
    <3>8. ASSUME NEW n \in Lasting, n.version = o.version
          PROVE  Wrap(Raw(o)) = n
      <4>1. n = Raw(o)
        BY <1>8, <2>1, <3>7, <3>8
      <4>2. PICK p \in Loads : n = Wrap(Raw(p))
        BY <1>r
      <4>3. n.id = p.id
        BY <4>2, ObjectParts
      <4>4. p = o
        BY <1>o, <4>1, <4>3, OpsAssumption DEF Loads
      <4> QED  BY <4>2, <4>4
    <3> HIDE DEF Moves
    <3> QED  BY <1>9, <2>1, <2>f, <3>5, <3>6, <3>8
  <2> QED  BY <2>5, <2>6
<1>14. ASSUME FinishLoad(o)
       PROVE  Moved(o)
  <2>0. t0.stage = "load" /\ t0.model = Wrap(Raw(o))
    BY <1>6, <1>7, <1>14 DEF FinishLoad
  <2>1. t0.stage = "load" /\ Comes(Wrap(Raw(o))) /\ t0.model = Wrap(Raw(o))
    BY <1>2, <1>6, <1>14, <2>0, LoadEnds
  <2>f. Wrap(Raw(o)) \in Fit' /\ Lasting' \subseteq Lasting \cup {Wrap(Raw(o))}
    BY <2>1 DEF Comes, Lasting
  <2>2. PICK t : t = [t0 EXCEPT !.stage = IF t0.reload THEN "retire" ELSE "done"]
    OBVIOUS
  <2>3. task' = [task EXCEPT ![o] = t]
    BY <1>t, <1>6, <1>14, <2>2 DEF FinishLoad
  <2>4. /\ t \in TaskTypes /\ t.registry = g /\ t.reload = t0.reload
        /\ t.stage = IF t0.reload THEN "retire" ELSE "done"
        /\ t.old = t0.old /\ t.hooking = {} /\ t.stopping = {} /\ t.model = Wrap(Raw(o))
    BY <1>7, <2>1, <2>2 DEF TaskTypes, Stages
  <2>x. \A n \in Objects : n.version # o.version => (n \in ready <=> n \in ready')
    BY <1>o, <2>1 DEF Comes
  <2>5. CASE ~t0.reload
    <3>1. single' = single
      BY <1>6, <1>14, <2>5 DEF FinishLoad
    <3>2. Moves(t, m)
      BY <1>u, <2>3, <2>4, <3>1
    <3>3. m = Wrap(Raw(o))
      BY <1>7, <2>1, <2>5 DEF LoadOwn
    <3>4. LoadOwn(o, t, m, Fit') /\ m \in Fit'
      BY <2>f, <2>4, <2>5, <3>3 DEF LoadOwn
    <3>5. \A n \in Lasting' : n.version = o.version => m = n
      BY <1>8, <2>1, <2>f, <3>3
    <3> HIDE DEF Moves
    <3> QED  BY <1>9, <2>f, <2>x, <3>2, <3>4, <3>5
  <2>6. CASE t0.reload
    <3>0. m = t0.old /\ m \in Objects /\ m.id # o.id /\ m.version = o.version /\ m # NoModel
      BY <1>7, <2>1, <2>6, ObjectParts DEF LoadOwn
    <3>1. PICK c : c = Register(single[g], Wrap(Raw(o)))
      OBVIOUS
    <3>2. PICK s : s = ClearIfDefault(c, m)
      OBVIOUS
    <3>3. single' = [single EXCEPT ![g] = s]
      BY <1>t, <1>4, <1>6, <1>14, <2>1, <2>6, <3>0, <3>1, <3>2 DEF FinishLoad
    <3>4. /\ \A w \in Slots : Slot(c, w) = IF w = o.version THEN Wrap(Raw(o)) ELSE Slot(single[g], w)
          /\ DefaultFiled(c) /\ Filed(c)
      BY <1>f, <1>o, <3>1, RegisterFiles
    <3>5. /\ \A w \in Slots : Slot(s, w) = IF w = Unversioned /\ Slot(c, w) = m THEN NoModel ELSE Slot(c, w)
          /\ DefaultFiled(s)
      BY <3>0, <3>2, <3>4, ClearKeeps
    <3>6. ASSUME NEW w \in Slots, w = Unversioned, Slot(c, w) = m
          PROVE  FALSE
      <4>1. Slot(c, w) # NoModel => Slot(c, w).version = w
        BY <3>4, ModelsInSlots
      <4> QED  BY <1>o, <3>0, <3>4, <3>6, <4>1
    <3>7. \A w \in Slots : Slot(s, w) = IF w = o.version THEN Wrap(Raw(o)) ELSE Slot(single[g], w)
      BY <3>4, <3>5, <3>6
    <3>8. slot' = [slot EXCEPT ![o.version] = Wrap(Raw(o))] /\ Current' = s
      BY <1>c, <3>3, <3>7
    <3>d. DefaultFiled(Current')
      BY <3>5, <3>8
    <3>9. Moves(t, Wrap(Raw(o)))
      BY <2>3, <2>4, <3>8, <3>d
    <3>10. LoadOwn(o, t, Wrap(Raw(o)), Fit')
      BY <2>f, <2>4, <2>6, <3>0 DEF LoadOwn
    <3>11. \A n \in Lasting' : n.version = o.version => Wrap(Raw(o)) = n \/ Leaving(t, n)
      BY <1>8, <2>1, <2>f, <2>4, <2>6, <3>0 DEF Leaving
    <3> HIDE DEF Moves
    <3> QED  BY <1>9, <2>f, <2>x, <3>9, <3>10, <3>11
  <2> QED  BY <2>5, <2>6
<1> QED  BY <1>10, <1>11, <1>12, <1>13, <1>14

(* A load begins in the registry in use, or in one that is as empty.         *)
LEMMA RegistryUsed ==
  ASSUME RegistryInv, RegistryInv', NEW o \in Ops, BeginLoad(o)
  PROVE  /\ RegistryToUse # NoRegistry /\ RegistryToUse \in Registries
         /\ single[RegistryToUse] = Current
<1>t. made \in Nat /\ entry' = RegistryToUse /\ entry' \in Registries \cup {NoRegistry}
  BY DEF RegistryInv, TypeOK, BeginLoad
<1>1. PICK g : g = RegistryToUse
  OBVIOUS
<1>2. g # NoRegistry
  BY <1>t, <1>1 DEF RegistryToUse, NoRegistry
<1>3. g \in Registries
  BY <1>t, <1>1, <1>2
<1>4. CASE entry = NoRegistry
  <2>1. g > made
    BY <1>t, <1>1, <1>4 DEF RegistryToUse
  <2> QED  BY <1>1, <1>2, <1>3, <1>4, <2>1 DEF RegistryInv, Counted, Current
<1>5. CASE entry # NoRegistry
  BY <1>1, <1>2, <1>3, <1>5 DEF RegistryToUse, Current
<1> QED  BY <1>1, <1>2, <1>3, <1>4, <1>5

(* A load that begins, or fails to make its model. *)
LEMMA BeginMoves ==
  ASSUME Orderly, Unmixed, RegistryInv, RegistryInv', OrderlyInv, NEW o \in Ops, BeginLoad(o)
  PROVE  Moved(o)
<1>t. /\ single \in [Registries -> [versions : [Versions -> Objects \cup {NoModel}],
                                    default : Objects \cup {NoModel}]]
      /\ task[o] \in TaskTypes /\ task \in [Ops -> TaskTypes] /\ ready \subseteq Objects
      /\ entry \in Registries \cup {NoRegistry} /\ made \in Nat /\ entry =< made
      /\ Shape(o, task[o], made)
  BY DEF RegistryInv, TypeOK, TaskTypes, TaskShape
<1>1. /\ MayBegin(o) /\ o \in Loads /\ task[o] = Idle /\ task[o].stage = "idle" /\ UNCHANGED ready
      /\ entry' = RegistryToUse
  BY <1>t DEF BeginLoad, MayBegin, Loads, Shape
<1>g. PICK g : g = RegistryToUse
  OBVIOUS
<1>2. g # NoRegistry /\ g \in Registries /\ single[g] = Current
  BY <1>g, RegistryUsed
<1>3. single[g] = Current
  BY <1>2
<1>4. PICK c : c = Current
  OBVIOUS
<1>5. Filed(c) /\ DefaultFiled(c) /\ single[g] = c
  BY <1>3, <1>4, SlotFacts DEF OrderlyInv
<1>v. PICK v \in Slots : v = o.version
  BY <1>1, FindsSlot
<1>m. PICK m : m = slot[v]
  OBVIOUS
<1>s. /\ slot = [w \in Slots |-> slot[w]]
      /\ \A w \in Slots : slot[w] = Slot(c, w)
  BY <1>4 DEF slot
<1>6. Find(c, v) = m
  BY <1>1, <1>4, <1>v, <1>m, FindsSlot
<1>7. m \in Objects \cup {NoModel} /\ (m # NoModel => m.version = v) /\ m.id # o.id
  <2>1. m.id # o.id
    BY <1>1, <1>v, <1>m DEF OrderlyInv, LoadsOwn, LoadOwn
  <2> QED  BY <1>m, <2>1, SlotFacts
<1>o. /\ Raw(o) \in Objects /\ Raw(o).id = o.id /\ Raw(o).version = o.version
      /\ NoModel \notin Objects /\ NoModel.id # o.id
  BY <1>1, ObjectParts, OpsAssumption
<1>8. m # NoModel => m \in Fit
  <2>1. ASSUME NEW p \in Loads, p.version = v, FirstLoad(task[p])
        PROVE  FALSE
    <3>1. Running(p) /\ p # o /\ p \in Ops
      BY <1>1, <2>1 DEF FirstLoad, Running, Loads
    <3> QED  BY <1>1, <1>v, <2>1, <3>1, Others
  <2> QED  BY <1>m, <2>1 DEF OrderlyInv, HeldReady
<1>k. UNCHANGED ready /\ Fit' = Fit /\ Lasting' = Lasting
  BY <1>1, ReadyStays
<1>r. Lasting \subseteq {Wrap(Raw(p)) : p \in Loads}
  BY DEF OrderlyInv, ReadyHeld
<1>9. ASSUME NEW n \in Lasting, n.version = o.version
      PROVE  n = m
  <2>1. slot[n.version] = n \/ Leaving(task[o], n)
    BY <1>1, <1>9, ReadyHere
  <2>2. ~Leaving(task[o], n)
    BY <1>1 DEF Leaving, Idle
  <2> QED  BY <1>v, <1>m, <1>9, <2>1, <2>2
<1>f. PICK f : f = Found(c, v)
  OBVIOUS
<1>10. Filed(f) /\ DefaultFiled(f) /\ \A w \in Slots : Slot(f, w) = Slot(c, w)
  <2>1. f \in {c, Cached(c)}
    BY <1>5, <1>f, KnownKeeps
  <2> QED  BY <1>5, <2>1, CachedKeeps
<1>c. ASSUME NEW s, single' = [single EXCEPT ![g] = s], NEW x,
             \A w \in Slots : Slot(s, w) = IF w = v THEN x ELSE Slot(c, w)
      PROVE  Current' = s /\ slot' = [slot EXCEPT ![v] = x]
  <2>1. \A w \in Slots : Slot(s, w) = IF w = v THEN x ELSE slot[w]
    BY <1>s, <1>c
  <2>2. entry' = g
    BY <1>1, <1>g
  <2>3. Change(g, s, v, x)
    BY <1>2, <1>c, <2>1, <2>2 DEF Change
  <2> QED  BY <2>3, SlotChanges
<1>e. entry' = g /\ (entry' = entry \/ (\A p \in Ops : Running(p) => p = o))
  <2>1. entry = NoRegistry => \A p \in Ops : ~Running(p)
    BY DEF OrderlyInv, Here
  <2> QED  BY <1>1, <1>g, <2>1 DEF RegistryToUse
<1>11. ASSUME NEW t \in TaskTypes, task' = [task EXCEPT ![o] = t], NEW x, NEW s,
              single' = [single EXCEPT ![g] = s], DefaultFiled(s),
              \A w \in Slots : Slot(s, w) = IF w = v THEN x ELSE Slot(c, w),
              x = m \/ (m = NoModel /\ x = Raw(o) /\ FirstLoad(t)),
              LoadOwn(o, t, x, Fit), t.registry = g \/ ~Busy(t)
       PROVE  Moved(o)
  <2>1. Current' = s /\ slot' = [slot EXCEPT ![v] = x]
    BY <1>c, <1>11
  <2>2. DefaultFiled(Current')
    BY <1>11, <2>1
  <2>3. \A n \in Lasting : n.version = v => x = n
    <3>1. \A n \in Lasting : n \in Objects
      BY <1>t DEF Lasting
    <3> QED  BY <1>v, <1>o, <1>9, <1>11, <3>1
  <2>4. x # NoModel => x \in Fit \/ FirstLoad(t)
    BY <1>8, <1>11
  <2>5. SlotStep(o, t, v, x)
    BY <1>1, <1>2, <1>e, <1>k, <1>r, <1>v, <1>m, <1>11, <2>1, <2>2, <2>3, <2>4 DEF SlotStep
  <2> QED  BY <2>5 DEF Moved
<1>12. CASE /\ task' = [task EXCEPT ![o].stage = "failed"]
            /\ single' = [single EXCEPT ![g] = f]
  <2>1. PICK t : t = [Idle EXCEPT !.stage = "failed"]
    OBVIOUS
  <2>2. task' = [task EXCEPT ![o] = t]
    BY <1>t, <1>1, <1>12, <2>1
  <2>3. t \in TaskTypes /\ t.stage = "failed" /\ t.hooking = {} /\ t.stopping = {}
    BY <2>1 DEF Idle, TaskTypes, Stages
  <2>4. ~Busy(t) /\ LoadOwn(o, t, m, Fit)
    BY <1>7, <2>3 DEF Busy, LoadOwn
  <2>5. \A w \in Slots : Slot(f, w) = IF w = v THEN m ELSE Slot(c, w)
    BY <1>s, <1>m, <1>10
  <2> QED  BY <1>10, <1>11, <1>12, <2>2, <2>3, <2>4, <2>5
<1>13. PICK t : t = [Idle EXCEPT !.stage = "hook", !.registry = g, !.model = Raw(o),
                                 !.old = m, !.reload = (m # NoModel)]
  OBVIOUS
<1>14. /\ t \in TaskTypes /\ t.stage = "hook" /\ t.registry = g /\ t.old = m
       /\ (t.reload <=> m # NoModel) /\ t.hooking = {} /\ t.stopping = {}
  <2>1. (m # NoModel) \in BOOLEAN
    OBVIOUS
  <2>2. t \in TaskTypes
    BY <1>2, <1>7, <1>o, <1>13, <2>1 DEF Idle, TaskTypes, Stages
  <2> QED  BY <1>13, <2>2 DEF Idle
<1>15. CASE /\ task' = [task EXCEPT ![o] = t]
            /\ m # NoModel /\ single' = [single EXCEPT ![g] = f]
  <2>1. LoadOwn(o, t, m, Fit)
    BY <1>7, <1>8, <1>v, <1>14, <1>15 DEF LoadOwn
  <2>2. \A w \in Slots : Slot(f, w) = IF w = v THEN m ELSE Slot(c, w)
    BY <1>s, <1>m, <1>10
  <2> QED  BY <1>10, <1>11, <1>14, <1>15, <2>1, <2>2
<1>16. CASE /\ task' = [task EXCEPT ![o] = t]
            /\ m = NoModel /\ single' = [single EXCEPT ![g] = Register(f, Raw(o))]
  <2>1. PICK s : s = Register(f, Raw(o))
    OBVIOUS
  <2>2. /\ \A w \in Slots : Slot(s, w) = IF w = v THEN Raw(o) ELSE Slot(c, w)
        /\ DefaultFiled(s)
    BY <1>10, <1>o, <1>v, <2>1, RegisterFiles
  <2>3. LoadOwn(o, t, Raw(o), Fit) /\ FirstLoad(t)
    BY <1>14, <1>16 DEF LoadOwn, FirstLoad
  <2> QED  BY <1>11, <1>14, <1>16, <2>1, <2>2, <2>3
<1>17. \/ /\ task' = [task EXCEPT ![o] = t]
          /\ single' = [single EXCEPT ![g] = IF t.reload THEN f ELSE Register(f, Raw(o))]
       \/ /\ task' = [task EXCEPT ![o].stage = "failed"]
          /\ single' = [single EXCEPT ![g] = f]
  BY <1>5, <1>6, <1>13, <1>f, <1>g, <1>v DEF BeginLoad
<1> QED  BY <1>12, <1>14, <1>15, <1>16, <1>17

(* A model that is in its slot is taken out of it after the unload hooks. *)
LEMMA HooksEmptySlot ==
  ASSUME RegistryInv, OrderlyInv, NEW o \in Ops, NEW n \in task[o].hooking,
         FinishUnloadHooks(o, n), slot[n.version] = n
  PROVE  /\ slot' = [slot EXCEPT ![n.version] = NoModel] /\ DefaultFiled(Current')
         /\ task' = [task EXCEPT ![o] = [task[o] EXCEPT !.hooking = @ \ {n}, !.stopping = @ \cup {n}]]
         /\ UNCHANGED <<entry, ready>> /\ n \in Objects /\ n.version \in Slots
<1>t. /\ single \in [Registries -> [versions : [Versions -> Objects \cup {NoModel}],
                                    default : Objects \cup {NoModel}]]
      /\ task[o] \in TaskTypes /\ task \in [Ops -> TaskTypes]
  BY DEF RegistryInv, TypeOK, TaskTypes
<1>1. n \in Objects /\ n.version \in Slots /\ n # NoModel
  BY <1>t, ObjectParts DEF TaskTypes
<1>2. PICK g : g = task[o].registry
  OBVIOUS
<1>3. Running(o)
  BY DEF Running
<1>4. g = entry /\ g # NoRegistry /\ Current = single[g] /\ g \in Registries
  BY <1>2, <1>3 DEF OrderlyInv, Here, Current, RegistryInv, TypeOK
<1>5. Filed(single[g]) /\ DefaultFiled(single[g]) /\ \A w \in Slots : slot[w] = Slot(single[g], w)
  BY <1>4, SlotFacts DEF OrderlyInv
<1>6. ~(n.version # Unversioned /\ single[g].versions[n.version] = NoModel)
  <2>1. Slot(single[g], n.version) = n
    BY <1>1, <1>5
  <2> QED  BY <1>1, <2>1 DEF Slot
<1>7. PICK s : s = ClearIfDefault(Deleted(single[g], n), n)
  OBVIOUS
<1>8. /\ single' = [single EXCEPT ![g] = s] /\ UNCHANGED <<made, entry, ready>>
      /\ task' = [task EXCEPT ![o].hooking = @ \ {n}, ![o].stopping = @ \cup {n}]
  BY <1>2, <1>6, <1>7 DEF FinishUnloadHooks, Deleted
<1>9. task' = [task EXCEPT ![o] = [task[o] EXCEPT !.hooking = @ \ {n}, !.stopping = @ \cup {n}]]
  BY <1>t, <1>8 DEF TaskTypes
<1>10. /\ \A w \in Slots : Slot(s, w) = IF w = n.version THEN NoModel ELSE Slot(single[g], w)
       /\ DefaultFiled(s)
  BY <1>1, <1>5, <1>7, DeletedIsGone
<1>11. Change(g, s, n.version, NoModel)
  BY <1>1, <1>4, <1>5, <1>8, <1>10 DEF Change
<1>12. Current' = s /\ slot' = [slot EXCEPT ![n.version] = NoModel]
  BY <1>11, SlotChanges
<1>13. DefaultFiled(Current')
  BY <1>10, <1>12
<1> QED  BY <1>1, <1>8, <1>9, <1>12, <1>13

(* Steps that leave every slot as it is. *)
LEMMA SlotsStay ==
  ASSUME NEW v \in Slots, Current' = Current, DefaultFiled(Current)
  PROVE  slot' = slot /\ slot' = [slot EXCEPT ![v] = slot[v]] /\ DefaultFiled(Current')
<1>1. slot' = slot
  BY DEF slot
<1>2. slot = [slot EXCEPT ![v] = slot[v]]
  BY DEF slot
<1> QED  BY <1>1, <1>2

(* A first load that fails takes its model out again. *)
LEMMA FailedLoadsMove ==
  ASSUME Orderly, RegistryInv, RegistryInv', OrderlyInv, NEW o \in Ops, o \in Loads,
         \/ \E n \in task[o].hooking : FinishUnloadHooks(o, n)
         \/ \E n \in task[o].stopping : FinishModelUnload(o, n)
         \/ EndUnload(o)
  PROVE  Moved(o)
<1>t. task[o] \in TaskTypes /\ task \in [Ops -> TaskTypes] /\ ready \subseteq Objects
  BY DEF RegistryInv, TypeOK, TaskTypes
<1>v. PICK v \in Slots : v = o.version
  BY OpsAssumption DEF Slots
<1>m. PICK m : m = slot[v]
  OBVIOUS
<1>1. PICK t0 : t0 = task[o]
  OBVIOUS
<1>2. LoadOwn(o, t0, m, Fit) /\ t0 \in TaskTypes
  BY <1>t, <1>v, <1>m, <1>1 DEF OrderlyInv, LoadsOwn
<1>3. t0.stage = "unload"
  BY <1>1, <1>2 DEF LoadOwn, EndUnload
<1>4. /\ ~t0.reload /\ t0.stopping \subseteq {t0.model} /\ t0.model \in {Raw(o), Wrap(Raw(o))}
      /\ \/ t0.hooking = {} /\ m = NoModel
         \/ t0.hooking = {t0.model} /\ t0.stopping = {} /\ m = t0.model
  BY <1>2, <1>3 DEF LoadOwn
<1>5. Busy(task[o]) /\ Running(o)
  BY <1>1, <1>3 DEF Busy, Running
<1>6. t0.registry = entry /\ entry # NoRegistry
  BY <1>1, <1>5 DEF OrderlyInv, Here
<1>o. /\ t0.model \in Objects /\ t0.model.version = v /\ NoModel.id # o.id /\ NoModel \notin Objects
  BY <1>v, <1>4, ObjectParts, OpsAssumption
<1>r. Lasting \subseteq {Wrap(Raw(p)) : p \in Loads}
  BY DEF OrderlyInv, ReadyHeld
<1>8. ASSUME NEW n \in Lasting, n.version = v
      PROVE  n = m \/ n \in t0.stopping
  <2>1. slot[n.version] = n \/ Leaving(task[o], n)
    BY <1>v, <1>5, <1>8, ReadyHere
  <2> QED  BY <1>m, <1>1, <1>3, <1>8, <2>1 DEF Leaving
<1>9. ASSUME NEW n \in task[o].hooking, FinishUnloadHooks(o, n)
      PROVE  Moved(o)
  <2>1. n = m /\ m = t0.model /\ t0.stopping = {} /\ t0.hooking = {m} /\ n.version = v
    BY <1>1, <1>4, <1>9, <1>o
  <2>2. slot[n.version] = n
    BY <1>m, <2>1
  <2>3. /\ slot' = [slot EXCEPT ![v] = NoModel] /\ DefaultFiled(Current')
        /\ task' = [task EXCEPT ![o] = [task[o] EXCEPT !.hooking = @ \ {n}, !.stopping = @ \cup {n}]]
        /\ UNCHANGED <<entry, ready>>
    BY <1>9, <2>1, <2>2, HooksEmptySlot
  <2>k. Fit' = Fit /\ Lasting' = Lasting
    BY <2>3, ReadyStays
  <2>4. PICK t : t = [t0 EXCEPT !.hooking = @ \ {n}, !.stopping = @ \cup {n}]
    OBVIOUS
  <2>5. /\ t \in TaskTypes /\ t.stage = "unload" /\ ~t.reload /\ t.registry = entry
        /\ t.hooking = {} /\ t.stopping = {m} /\ t.model = m
    BY <1>2, <1>3, <1>4, <1>6, <1>o, <2>1, <2>4 DEF TaskTypes
  <2>6. task' = [task EXCEPT ![o] = t]
    BY <1>1, <2>3, <2>4
  <2>7. LoadOwn(o, t, NoModel, Fit)
    BY <1>4, <2>1, <2>5 DEF LoadOwn
  <2>8. \A k \in Lasting : k.version = v => Leaving(t, k)
    BY <1>8, <2>1, <2>5 DEF Leaving
  <2>9. SlotStep(o, t, v, NoModel)
    BY <1>v, <1>m, <1>5, <1>6, <1>r, <1>9, <2>1, <2>3, <2>k, <2>5, <2>6, <2>7, <2>8 DEF SlotStep
  <2> QED  BY <2>9 DEF Moved
<1>10. ASSUME NEW n \in task[o].stopping, FinishModelUnload(o, n)
       PROVE  Moved(o)
  <2>1. n = t0.model /\ m = NoModel /\ t0.stopping = {n} /\ t0.hooking = {} /\ n.version = v
    BY <1>1, <1>4, <1>10, <1>o
  <2>0. PICK st \in {task[o].stage, "failed"} : Stopped(o, n, st)
    BY <1>10, UnloadEnds
  <2>2. Goes(n) /\ UNCHANGED <<single, made, entry>>
    BY <2>0 DEF Stopped
  <2>3. PICK t : t = [t0 EXCEPT !.stopping = @ \ {n}, !.stage = st]
    OBVIOUS
  <2>4. task' = [task EXCEPT ![o] = t]
    BY <1>1, <2>0, <2>3 DEF Stopped
  <2>5. /\ t \in TaskTypes /\ t.stage \in {"unload", "failed"} /\ ~t.reload /\ t.registry = entry
        /\ t.hooking = {} /\ t.stopping = {} /\ t.model = t0.model
    BY <1>1, <1>2, <1>3, <1>4, <1>6, <2>1, <2>3 DEF TaskTypes, Stages
  <2>6. Current' = Current
    BY <2>2 DEF Current
  <2>7. slot' = [slot EXCEPT ![v] = m] /\ DefaultFiled(Current')
    BY <1>m, <2>6, SlotsStay DEF OrderlyInv
  <2>8. LoadOwn(o, t, m, Fit')
    BY <1>4, <1>o, <2>1, <2>5 DEF LoadOwn
  <2>x. \A k \in Objects : k # n => (k \in ready <=> k \in ready')
    BY <2>2 DEF Goes
  <2>z. ASSUME NEW k \in Lasting'
        PROVE  k \in Lasting /\ k # n /\ k \in Objects
    BY <2>2, <2>z DEF Goes, Lasting
  <2>9. ASSUME NEW k \in Lasting', k.version = v
        PROVE  FALSE
    BY <1>8, <1>o, <2>1, <2>9, <2>z
  <2>10. \A k \in Objects : k.version # v => (k \in ready <=> k \in ready')
    BY <2>1, <2>x
  <2>y. Lasting' \subseteq Lasting
    BY <2>z
  <2>11. SlotStep(o, t, v, m)
    BY <1>v, <1>m, <1>5, <1>6, <1>r, <2>1, <2>2, <2>4, <2>5, <2>7, <2>8, <2>9, <2>10, <2>y DEF SlotStep
  <2> QED  BY <2>11 DEF Moved
<1>11. ASSUME EndUnload(o)
       PROVE  Moved(o)
  <2>1. t0.hooking = {} /\ t0.stopping = {} /\ m = NoModel /\ o.kind = "load"
    BY <1>1, <1>4, <1>11 DEF EndUnload, Loads
  <2>2. UNCHANGED <<single, made, entry, ready>> /\ task' = [task EXCEPT ![o].stage = "failed"]
    BY <1>11, <2>1 DEF EndUnload
  <2>k. Fit' = Fit /\ Lasting' = Lasting
    BY <2>2, ReadyStays
  <2>3. PICK t : t = [t0 EXCEPT !.stage = "failed"]
    OBVIOUS
  <2>4. task' = [task EXCEPT ![o] = t]
    BY <1>t, <1>1, <2>2, <2>3
  <2>5. /\ t \in TaskTypes /\ t.stage = "failed" /\ t.registry = entry
        /\ t.hooking = {} /\ t.stopping = {}
    BY <1>2, <1>6, <2>1, <2>3 DEF TaskTypes, Stages
  <2>6. Current' = Current
    BY <2>2 DEF Current
  <2>7. slot' = [slot EXCEPT ![v] = m] /\ DefaultFiled(Current')
    BY <1>m, <2>6, SlotsStay DEF OrderlyInv
  <2>8. LoadOwn(o, t, m, Fit')
    BY <1>o, <2>1, <2>5 DEF LoadOwn
  <2>9. ASSUME NEW k \in Lasting', k.version = v
        PROVE  FALSE
    <3>1. k \in Lasting /\ k # NoModel
      BY <1>t, <1>o, <2>k, <2>9 DEF Lasting
    <3> QED  BY <1>8, <2>1, <2>9, <3>1
  <2>10. SlotStep(o, t, v, m)
    BY <1>v, <1>m, <1>5, <1>6, <1>r, <2>1, <2>2, <2>k, <2>4, <2>5, <2>7, <2>8, <2>9 DEF SlotStep
  <2> QED  BY <2>10 DEF Moved
<1> QED  BY <1>9, <1>10, <1>11

(* An unload of a version, or of all of them. *)
LEMMA UnloadsMove ==
  ASSUME Orderly, RegistryInv, RegistryInv', OrderlyInv, NEW o \in Ops, o \notin Loads,
         \/ BeginUnload(o)
         \/ \E n \in task[o].hooking : FinishUnloadHooks(o, n)
         \/ \E n \in task[o].stopping : FinishModelUnload(o, n)
         \/ EndUnload(o)
  PROVE  Moved(o)
<1>t. /\ single \in [Registries -> [versions : [Versions -> Objects \cup {NoModel}],
                                    default : Objects \cup {NoModel}]]
      /\ task[o] \in TaskTypes /\ task \in [Ops -> TaskTypes] /\ ready \subseteq Objects
      /\ entry \in Registries \cup {NoRegistry} /\ Shape(o, task[o], made)
  BY DEF RegistryInv, TypeOK, TaskTypes, TaskShape
<1>1. PICK t0 : t0 = task[o]
  OBVIOUS
<1>2. UnloadOwn(o, t0, slot) /\ t0 \in TaskTypes
  BY <1>t, <1>1 DEF OrderlyInv, UnloadsOwn
<1>3. /\ BeginUnload(o) => t0 = Idle /\ t0.stage = "idle" /\ MayBegin(o)
      /\ ~BeginUnload(o) => t0.stage \in {"unload", "failed"} /\ Running(o)
  <2>1. BeginUnload(o) => MayBegin(o) /\ t0.stage = "idle"
    BY <1>1 DEF BeginUnload, MayBegin
  <2>2. ~BeginUnload(o) => t0.stage \in {"unload", "failed"} /\ Busy(t0)
    BY <1>1, <1>2 DEF UnloadOwn, EndUnload, Busy
  <2> QED  BY <1>t, <1>1, <2>1, <2>2 DEF Shape, Running, Busy
<1>4. Busy(task[o]) \/ MayBegin(o)
  BY <1>1, <1>3 DEF Busy, Running
<1>5. \A p \in Ops : Running(p) => p = o
  BY <1>4, Others
<1>6. ~BeginUnload(o) => t0.registry = entry /\ entry # NoRegistry
  BY <1>1, <1>3 DEF OrderlyInv, Here
<1>7. \A w \in Slots : /\ slot[w] \in Objects \cup {NoModel}
                       /\ slot[w] # NoModel => slot[w].version = w
  BY SlotFacts
<1>o. NoModel \notin Objects /\ NoModel.version \in Slots /\ \A n \in Objects : n.version \in Slots
  BY ObjectParts DEF Slots
<1>r. Lasting \subseteq {Wrap(Raw(p)) : p \in Loads}
  BY DEF OrderlyInv, ReadyHeld
<1>8. ASSUME NEW n \in Lasting
      PROVE  slot[n.version] = n \/ n \in t0.stopping
  <2>1. slot[n.version] = n \/ Leaving(task[o], n)
    BY <1>4, <1>8, ReadyHere
  <2> QED  BY <1>1, <1>2, <2>1 DEF Leaving, UnloadOwn
<1>h. \A w \in Slots : slot[w] # NoModel => slot[w] \in Fit
  <2>1. ASSUME NEW p \in Loads, FirstLoad(task[p])
        PROVE  FALSE
    <3>1. Running(p) /\ p \in Ops
      BY <2>1 DEF FirstLoad, Running, Loads
    <3> QED  BY <1>5, <3>1
  <2> QED  BY <2>1 DEF OrderlyInv, HeldReady
<1>e. entry' = entry \/ (\A p \in Ops : Running(p) => p = o)
  BY <1>5
<1>9. ASSUME BeginUnload(o)
      PROVE  Moved(o)
  <2>1. PICK g \in Registries : g = entry
    BY <1>t, <1>9 DEF BeginUnload
  <2>2. PICK c : c = single[g]
    OBVIOUS
  <2>3. Current = c /\ g # NoRegistry
    BY <1>9, <2>1, <2>2 DEF Current, BeginUnload
  <2>4. Filed(c) /\ DefaultFiled(c) /\ \A w \in Slots : slot[w] = Slot(c, w)
    BY <2>3, SlotFacts DEF OrderlyInv
  <2>5. PICK targets : targets = IF o.kind = "purge" THEN Models(c) ELSE {Find(c, o.version)} \ {NoModel}
    OBVIOUS
  <2>6. PICK s : s = IF o.kind = "purge" THEN Cached(c) ELSE Found(c, o.version)
    OBVIOUS
  <2>7. PICK t : t = [Idle EXCEPT !.stage = "unload", !.registry = g, !.hooking = targets]
    OBVIOUS
  <2>8. /\ task' = [task EXCEPT ![o] = t] /\ single' = [single EXCEPT ![g] = s]
        /\ UNCHANGED <<made, entry, ready>>
    BY <1>t, <1>9, <2>1, <2>2, <2>5, <2>6, <2>7 DEF BeginUnload
  <2>k. Fit' = Fit /\ Lasting' = Lasting
    BY <2>8, ReadyStays
  <2>9. o.version \in Slots
    BY OpsAssumption DEF Slots
  <2>10. s \in {c, Cached(c)}
    BY <2>4, <2>6, <2>9, KnownKeeps
  <2>11. DefaultFiled(s) /\ \A w \in Slots : Slot(s, w) = Slot(c, w)
    BY <2>4, <2>10, CachedKeeps
  <2>12. PICK v \in Slots : v = Unversioned
    BY DEF Slots
  <2>13. Change(g, s, v, slot[v])
    BY <2>1, <2>4, <2>8, <2>11 DEF Change
  <2>14. Current' = s /\ slot' = [slot EXCEPT ![v] = slot[v]]
    BY <2>13, SlotChanges
  <2>15. DefaultFiled(Current')
    BY <2>11, <2>14
  <2>16. slot' = slot
    BY <2>14 DEF slot
  <2>17. targets \subseteq {slot[w] : w \in Slots} \ {NoModel}
    <3>1. Models(c) = {slot[w] : w \in Slots} \ {NoModel}
      BY <2>3, SlotFacts
    <3>2. o.version # Unversioned => Find(c, o.version) = slot[o.version]
      BY <2>4, <2>9 DEF Find, Slot
    <3>3. o.version = Unversioned /\ Find(c, o.version) # NoModel => Find(c, o.version) \in Models(c)
      BY <2>4, ModelsInSlots DEF Find
    <3> QED  BY <2>5, <2>9, <3>1, <3>2, <3>3
  <2>18. o.kind = "purge" => targets = {slot[w] : w \in Slots} \ {NoModel}
    BY <2>3, <2>5, SlotFacts
  <2>19. targets \in SUBSET Objects /\ \A n \in targets : slot[n.version] = n
    BY <1>7, <2>17
  <2>20. /\ t \in TaskTypes /\ t.stage = "unload" /\ ~t.reload /\ t.registry = g
         /\ t.hooking = targets /\ t.stopping = {}
    BY <2>1, <2>7, <2>19 DEF Idle, TaskTypes, Stages
  <2>x. o.kind = "unload" =>
          /\ slot[o.version] \in targets \cup {NoModel}
          /\ o.version # Unversioned => \A n \in targets : n.version = o.version
    <3>1. o.version # Unversioned => Find(c, o.version) = slot[o.version]
      BY <2>4, <2>9 DEF Find, Slot
    <3>2. o.version = Unversioned => slot[o.version] \in {Find(c, o.version), NoModel}
      BY <2>4, <2>9 DEF Find, Slot, DefaultOf
    <3> QED  BY <1>7, <2>5, <2>9, <3>1, <3>2
  <2>21. UnloadOwn(o, t, slot')
    BY <2>16, <2>18, <2>19, <2>20, <2>x DEF UnloadOwn, Busy
  <2>22. task[o].stopping = {} /\ t0.stopping = {}
    BY <1>1, <1>3, <1>9 DEF Idle
  <2>23. \A n \in Lasting' : n.version = v => slot[v] = n
    BY <1>8, <2>k, <2>22
  <2>24. SlotStep(o, t, v, slot[v])
    BY <1>4, <1>h, <1>r, <2>1, <2>3, <2>8, <2>k, <2>14, <2>15, <2>20, <2>21, <2>22, <2>23 DEF SlotStep
  <2> QED  BY <2>24 DEF Moved
<1>10. ASSUME NEW n \in task[o].hooking, FinishUnloadHooks(o, n)
       PROVE  Moved(o)
  <2>1. slot[n.version] = n /\ t0.stage \in {"unload", "failed"} /\ n \in t0.hooking /\ Busy(t0)
    BY <1>1, <1>2, <1>10 DEF UnloadOwn, Busy
  <2>2. /\ slot' = [slot EXCEPT ![n.version] = NoModel] /\ DefaultFiled(Current')
        /\ task' = [task EXCEPT ![o] = [task[o] EXCEPT !.hooking = @ \ {n}, !.stopping = @ \cup {n}]]
        /\ UNCHANGED <<entry, ready>> /\ n \in Objects /\ n.version \in Slots
    BY <1>10, <2>1, HooksEmptySlot
  <2>k. Fit' = Fit /\ Lasting' = Lasting
    BY <2>2, ReadyStays
  <2>3. PICK v \in Slots : v = n.version
    BY <2>2
  <2>4. PICK t : t = [t0 EXCEPT !.hooking = @ \ {n}, !.stopping = @ \cup {n}]
    OBVIOUS
  <2>5. /\ t \in TaskTypes /\ t.stage = t0.stage /\ t.reload = t0.reload /\ t.registry = t0.registry
        /\ t.hooking = t0.hooking \ {n} /\ t.stopping = t0.stopping \cup {n}
    BY <1>2, <2>1, <2>2, <2>4 DEF TaskTypes
  <2>6. task' = [task EXCEPT ![o] = t]
    BY <1>1, <2>2, <2>4
  <2>7. slot'[v] = NoModel /\ \A w \in Slots : w # v => slot'[w] = slot[w]
    BY <2>2, <2>3 DEF slot
  <2>8. t0.registry = entry /\ entry # NoRegistry
    BY <1>3, <1>6, <2>1
  <2>9. UnloadOwn(o, t, slot')
    <3>1. \A k \in t.hooking : k \in Objects /\ k.version \in Slots /\ slot[k.version] = k /\ k # n
      BY <1>2, <1>o, <2>5 DEF UnloadOwn, TaskTypes
    <3>2. \A k \in t.hooking : k.version # v /\ slot'[k.version] = k
      BY <2>1, <2>3, <2>7, <3>1
    <3>3. \A k \in t.stopping : k \in Objects /\ k.version \in Slots /\ (k = n \/ slot[k.version] = NoModel)
      BY <1>2, <1>o, <2>2, <2>5 DEF UnloadOwn, TaskTypes
    <3>4. \A k \in t.stopping : slot'[k.version] = NoModel
      BY <2>3, <2>7, <3>3
    <3>5. ASSUME o.kind = "purge", NEW w \in Slots
          PROVE  slot'[w] \in t.hooking \cup {NoModel}
      <4>1. slot[w] \in t0.hooking \cup {NoModel}
        BY <1>2, <2>1, <3>5 DEF UnloadOwn
      <4>2. w # v => slot[w] # n
        BY <1>7, <1>o, <2>2, <2>3
      <4> QED  BY <2>5, <2>7, <4>1, <4>2
    <3>6. ASSUME o.kind = "unload"
          PROVE  /\ slot'[o.version] \in t.hooking \cup {NoModel}
                 /\ o.version # Unversioned => \A k \in t.hooking : k.version = o.version
      <4>1. o.version \in Slots
        BY OpsAssumption DEF Slots
      <4>2. /\ slot[o.version] \in t0.hooking \cup {NoModel}
            /\ o.version # Unversioned => \A k \in t0.hooking : k.version = o.version
        BY <1>2, <2>1, <3>6 DEF UnloadOwn
      <4>3. o.version # v => slot[o.version] # n
        BY <1>7, <1>o, <2>2, <2>3, <4>1
      <4> QED  BY <2>5, <2>7, <4>1, <4>2, <4>3
    <3> QED  BY <1>2, <2>1, <2>5, <3>2, <3>4, <3>5, <3>6 DEF UnloadOwn
  <2>10. \A k \in Lasting : k.version = v => Leaving(t, k)
    BY <1>8, <2>1, <2>3, <2>5 DEF Leaving
  <2>11. SlotStep(o, t, v, NoModel)
    BY <1>1, <1>4, <1>r, <2>1, <2>2, <2>k, <2>3, <2>5, <2>6, <2>8, <2>9, <2>10 DEF SlotStep
  <2> QED  BY <2>11 DEF Moved
<1>11. ASSUME NEW n \in task[o].stopping, FinishModelUnload(o, n)
       PROVE  Moved(o)
  <2>1. /\ t0.stage \in {"unload", "failed"} /\ Busy(t0) /\ n \in t0.stopping
        /\ slot[n.version] = NoModel /\ n \in Objects /\ n.version \in Slots
    BY <1>1, <1>2, <1>o, <1>11 DEF UnloadOwn, TaskTypes, Busy
  <2>0. PICK st \in {task[o].stage, "failed"} : Stopped(o, n, st)
    BY <1>11, UnloadEnds
  <2>2. Goes(n) /\ UNCHANGED <<single, made, entry>>
    BY <2>0 DEF Stopped
  <2>3. PICK t : t = [t0 EXCEPT !.stopping = @ \ {n}, !.stage = st]
    OBVIOUS
  <2>4. task' = [task EXCEPT ![o] = t]
    BY <1>1, <2>0, <2>3 DEF Stopped
  <2>5. /\ t \in TaskTypes /\ t.stage \in {"unload", "failed"} /\ t.reload = t0.reload /\ t.registry = t0.registry
        /\ t.hooking = t0.hooking /\ t.stopping = t0.stopping \ {n}
    BY <1>1, <1>2, <2>1, <2>3 DEF TaskTypes, Stages
  <2>6. PICK v \in Slots : v = n.version
    BY <2>1
  <2>7. Current' = Current
    BY <2>2 DEF Current
  <2>8. slot' = slot /\ slot' = [slot EXCEPT ![v] = slot[v]] /\ DefaultFiled(Current')
    BY <2>7, SlotsStay DEF OrderlyInv
  <2>9. UnloadOwn(o, t, slot')
    BY <1>2, <2>1, <2>5, <2>8 DEF UnloadOwn
  <2>x. \A k \in Objects : k # n => (k \in ready <=> k \in ready')
    BY <2>2 DEF Goes
  <2>z. ASSUME NEW k \in Lasting'
        PROVE  k \in Lasting /\ k # n /\ k \in Objects
    BY <2>2, <2>z DEF Goes, Lasting
  <2>10. ASSUME NEW k \in Lasting', k.version = v
         PROVE  Leaving(t, k)
    <3>1. k \in Lasting /\ k # n /\ k # NoModel
      BY <1>o, <2>z, <2>10
    <3> QED  BY <1>8, <2>1, <2>5, <2>6, <2>10, <3>1 DEF Leaving
  <2>y. Lasting' \subseteq Lasting
    BY <2>z
  <2>11. t0.registry = entry /\ entry # NoRegistry
    BY <1>3, <1>6, <2>1
  <2>12. \A k \in Objects : k.version # v => (k \in ready <=> k \in ready')
    BY <2>x, <2>6
  <2>13. SlotStep(o, t, v, slot[v])
    BY <1>1, <1>4, <1>r, <2>1, <2>2, <2>4, <2>5, <2>6, <2>8, <2>9, <2>10, <2>11, <2>12, <2>y DEF SlotStep
  <2> QED  BY <2>13 DEF Moved
<1>12. ASSUME EndUnload(o)
       PROVE  Moved(o)
  <2>1. t0.stage = "unload" /\ t0.hooking = {} /\ t0.stopping = {} /\ UNCHANGED <<made, ready>>
    BY <1>1, <1>12 DEF EndUnload
  <2>k. Fit' = Fit /\ Lasting' = Lasting /\ Busy(t0)
    BY <2>1, ReadyStays DEF Busy
  <2>2. PICK g : g = task[o].registry
    OBVIOUS
  <2>3. g = entry /\ g # NoRegistry /\ g \in Registries /\ Current = single[g]
    BY <1>t, <1>1, <1>3, <1>6, <2>1, <2>2 DEF Current
  <2>4. PICK st \in {"done", "failed"} : task' = [task EXCEPT ![o].stage = st]
    BY <1>12, Zenon DEF EndUnload
  <2>5. PICK t : t = [t0 EXCEPT !.stage = st]
    OBVIOUS
  <2>6. task' = [task EXCEPT ![o] = t]
    BY <1>t, <1>1, <2>4, <2>5
  <2>7. /\ t \in TaskTypes /\ t.stage \in {"done", "failed"} /\ ~t.reload
        /\ t.hooking = {} /\ t.stopping = {}
    BY <1>2, <2>1, <2>4, <2>5 DEF TaskTypes, Stages, UnloadOwn
  <2>8. ~Busy(t)
    BY <2>7 DEF Busy
  <2>9. PICK drops \in BOOLEAN : drops = (o.kind = "purge" \/ (o.kind = "unload" /\ Empty(single[g])))
    OBVIOUS
  <2>10. drops => \A w \in Slots : slot[w] = NoModel
    <3>1. o.kind = "purge" => \A w \in Slots : slot[w] = NoModel
      BY <1>2, <2>1, <2>k DEF UnloadOwn
    <3>2. Empty(single[g]) => \A w \in Slots : Slot(single[g], w) = NoModel
      BY <2>3, SlotFacts, ModelsInSlots
    <3>3. \A w \in Slots : slot[w] = Slot(single[g], w)
      BY <2>3 DEF slot
    <3> QED  BY <2>9, <3>1, <3>2, <3>3
  <2>11. /\ drops => entry' = NoRegistry
         /\ ~drops => entry' = entry /\ single' = single
    BY <1>12, <2>2, <2>9 DEF EndUnload
  <2>12. slot' = slot /\ DefaultFiled(Current')
    <3>1. CASE drops
      <4>1. Current' = NoVersions
        BY <2>11, <3>1 DEF Current
      <4>2. slot' = [w \in Slots |-> NoModel]
        BY <4>1, NoVersionsFiled DEF slot
      <4>3. slot = [w \in Slots |-> NoModel]
        BY <2>10, <3>1 DEF slot
      <4>4. DefaultFiled(Current')
        BY <4>1, NoVersionsFiled
      <4> QED  BY <4>2, <4>3, <4>4
    <3>2. CASE ~drops
      <4>1. Current' = Current
        BY <2>11, <3>2 DEF Current
      <4> QED  BY <1>o, <4>1, SlotsStay DEF OrderlyInv
    <3> QED  BY <3>1, <3>2
  <2>13. PICK v \in Slots : v = Unversioned
    BY DEF Slots
  <2>14. slot' = [slot EXCEPT ![v] = slot[v]]
    BY <2>12 DEF slot
  <2>15. UnloadOwn(o, t, slot')
    BY <2>7, <2>8 DEF UnloadOwn
  <2>16. \A n \in Lasting' : n.version = v => slot[v] = n
    BY <1>8, <2>1, <2>k
  <2>17. task[o].stopping = {}
    BY <1>1, <2>1
  <2>18. SlotStep(o, t, v, slot[v])
    BY <1>4, <1>e, <1>h, <1>r, <2>1, <2>k, <2>6, <2>7, <2>8, <2>12, <2>14, <2>15, <2>16, <2>17 DEF SlotStep
  <2> QED  BY <2>18 DEF Moved
<1> QED  BY <1>9, <1>10, <1>11, <1>12

(* The steps of an operation. *)
Operates(o) ==
  \/ BeginLoad(o) \/ FinishHook(o) \/ FinishLateHook(o) \/ FinishLoad(o)
  \/ FinishRetire(o) \/ FailLoad(o) \/ BeginUnload(o)
  \/ \E m \in task[o].hooking : FinishUnloadHooks(o, m)
  \/ \E m \in task[o].stopping : FinishModelUnload(o, m)
  \/ EndUnload(o)
LEMMA OperationsMove ==
  ASSUME Orderly, Unmixed, Settled, RegistryInv, RegistryInv', OrderlyInv, NEW o \in Ops, Operates(o)
  PROVE  Moved(o)
<1>1. CASE BeginLoad(o)
  BY <1>1, BeginMoves
<1>2. CASE FinishHook(o) \/ FinishLateHook(o) \/ FinishLoad(o) \/ FinishRetire(o) \/ FailLoad(o)
  BY <1>2, LoadsMove
<1>3. CASE BeginUnload(o)
  <2>1. o \notin Loads
    BY <1>3 DEF BeginUnload, Loads
  <2> QED  BY <1>3, <2>1, UnloadsMove
<1>4. CASE \/ \E m \in task[o].hooking : FinishUnloadHooks(o, m)
           \/ \E m \in task[o].stopping : FinishModelUnload(o, m)
           \/ EndUnload(o)
  <2>1. CASE o \in Loads
    BY <1>4, <2>1, FailedLoadsMove
  <2>2. CASE o \notin Loads
    BY <1>4, <2>2, UnloadsMove
  <2> QED  BY <2>1, <2>2
<1> QED  BY <1>1, <1>2, <1>3, <1>4 DEF Operates

-----------------------------------------------------------------------------
(* Reading the default, which stores it, moves nothing. *)
LEMMA ReadsMoveNothing ==
  ASSUME RegistryInv, OrderlyInv, ReadDefault \/ UNCHANGED vars
  PROVE  UNCHANGED <<made, entry, ready, task>> /\ slot' = slot /\ DefaultFiled(Current')
<1>1. CASE ReadDefault
  <2>1. PICK g \in Registries : g = entry
    BY <1>1 DEF ReadDefault, RegistryInv, TypeOK
  <2>2. PICK s : s = Cached(single[g])
    OBVIOUS
  <2>3. UNCHANGED <<made, entry, ready, task>> /\ single' = [single EXCEPT ![g] = s] /\ Current = single[g]
    BY <1>1, <2>1, <2>2 DEF ReadDefault, Current
  <2>4. DefaultFiled(s) /\ \A w \in Slots : Slot(s, w) = slot[w]
    BY <2>2, <2>3, SlotFacts, CachedKeeps DEF OrderlyInv
  <2>5. PICK v \in Slots : v = Unversioned
    BY DEF Slots
  <2>6. Change(g, s, v, slot[v])
    BY <2>1, <2>3, <2>4 DEF Change
  <2>7. Current' = s /\ slot' = [slot EXCEPT ![v] = slot[v]]
    BY <2>6, SlotChanges
  <2>8. slot' = slot
    BY <2>7 DEF slot
  <2>9. DefaultFiled(Current')
    BY <2>4, <2>7
  <2> QED  BY <2>3, <2>8, <2>9
<1>2. CASE UNCHANGED vars
  <2>1. UNCHANGED <<single, made, entry, ready, task>>
    BY <1>2 DEF vars
  <2>2. Current' = Current
    BY <2>1 DEF Current
  <2>3. slot' = slot /\ DefaultFiled(Current')
    BY <2>2 DEF slot, OrderlyInv
  <2> QED  BY <2>1, <2>3
<1> QED  BY <1>1, <1>2

(* The invariant of a registry whose operations do not overlap.              *)
LEMMA OrderlyNext ==
  ASSUME Orderly, Unmixed, Settled, RegistryInv, OrderlyInv, [Next]_vars
  PROVE  OrderlyInv'
<1>0. RegistryInv'
  BY RegistryStep
<1>1. ASSUME NEW o \in Ops, Operates(o)
      PROVE  OrderlyInv'
  <2>1. PICK t, v, x : SlotStep(o, t, v, x)
    BY <1>0, <1>1, OperationsMove DEF Moved
  <2> QED  BY <1>0, <2>1, OrderlyStep
<1>2. CASE ReadDefault \/ UNCHANGED vars
  <2>1. UNCHANGED <<made, entry, ready, task>> /\ slot' = slot /\ DefaultFiled(Current')
    BY <1>2, ReadsMoveNothing
  <2>2. Alone' /\ Here'
    BY <2>1 DEF OrderlyInv, Alone, Here, Running
  <2>k. Fit' = Fit /\ Lasting' = Lasting
    BY <2>1, ReadyStays
  <2>3. LoadsOwn' /\ UnloadsOwn' /\ HeldReady' /\ ReadyHeld'
    BY <2>1, <2>k DEF OrderlyInv, LoadsOwn, UnloadsOwn, HeldReady, ReadyHeld
  <2> QED  BY <2>1, <2>2, <2>3 DEF OrderlyInv
<1> QED  BY <1>1, <1>2 DEF Next, Operates

(* Nothing is registered, and nothing runs.                                 *)
LEMMA OrderlyInit == Init => OrderlyInv
<1> SUFFICES ASSUME Init  PROVE OrderlyInv
  OBVIOUS
<1>1. entry = NoRegistry /\ ready = {} /\ task = [o \in Ops |-> Idle] /\ Current = NoVersions
  BY DEF Init, Current
<1>2. \A o \in Ops : task[o] = Idle /\ ~Running(o)
  BY <1>1 DEF Running, Idle
<1>3. \A v \in Slots : slot[v] = NoModel
  BY <1>1, NoVersionsFiled DEF slot
<1>4. Alone /\ Here
  BY <1>2 DEF Alone, Here
<1>5. LoadsOwn
  <2>1. ASSUME NEW o \in Loads
        PROVE  LoadOwn(o, task[o], slot[o.version], Fit)
    <3>1. o \in Ops /\ o.version \in Slots /\ o.id # "none"
      BY OpsAssumption DEF Loads, Slots
    <3>2. slot[o.version].id # o.id
      BY <1>3, <3>1, ObjectParts
    <3> QED  BY <1>2, <3>1, <3>2 DEF LoadOwn, Idle
  <2> QED  BY <2>1 DEF LoadsOwn
<1>6. UnloadsOwn
  BY <1>2 DEF UnloadsOwn, UnloadOwn, Idle, Busy
<1>7. HeldReady /\ ReadyHeld
  BY <1>1, <1>3 DEF HeldReady, ReadyHeld, Lasting
<1>8. DefaultFiled(Current)
  BY <1>1, NoVersionsFiled
<1> QED  BY <1>4, <1>5, <1>6, <1>7, <1>8 DEF OrderlyInv

(* OrderlyInv is inductive, with the types.                                 *)
LEMMA OrderlyAlways == Orderly /\ Unmixed /\ Settled => (Spec => []RegistryInv /\ []OrderlyInv)
<1> SUFFICES ASSUME Orderly, Unmixed, Settled  PROVE Spec => []RegistryInv /\ []OrderlyInv
  OBVIOUS
<1>1. RegistryInv /\ OrderlyInv /\ [Next]_vars => OrderlyInv'
  BY OrderlyNext
<1> QED  BY <1>1, RegistryInit, RegistryStep, OrderlyInit, PTL DEF Spec

(* Of a registry whose operations do not overlap, whose names have versions  *)
(* or a model without one, and whose later hooks do not raise: a model it     *)
(* offers once nothing is going on is ready, whichever load or unload failed *)
(* before, or it has a load() that returns False (registry.py:177, :195).    *)
THEOREM OfferedIsReady == Orderly /\ Unmixed /\ Settled => (Spec => []QuietReady)
<1> SUFFICES ASSUME Orderly, Unmixed, Settled  PROVE Spec => []QuietReady
  OBVIOUS
<1>1. ASSUME RegistryInv, OrderlyInv
      PROVE  QuietReady
  <2>1. ASSUME Quiet, NEW v \in Slots, slot[v] # NoModel
        PROVE  slot[v] \in Fit
    <3>1. ASSUME NEW o \in Loads, FirstLoad(task[o])
          PROVE  FALSE
      BY <2>1, <3>1 DEF Quiet, Running, FirstLoad, Loads
    <3> QED  BY <1>1, <2>1, <3>1 DEF OrderlyInv, HeldReady
  <2> QED  BY <1>1, <2>1, SlotFacts DEF QuietReady
<1>2. Spec => []RegistryInv /\ []OrderlyInv
  BY OrderlyAlways
<1> QED  BY <1>1, <1>2, PTL

(* ... and no other model is left ready: what a reload replaces, or an unload *)
(* or a failed load takes out, is unloaded (registry.py:201, :232), but for  *)
(* the models whose unload() raises or returns False.                       *)
THEOREM ReadyIsOffered == Orderly /\ Unmixed /\ Settled => (Spec => []QuietNoLeak)
<1> SUFFICES ASSUME Orderly, Unmixed, Settled  PROVE Spec => []QuietNoLeak
  OBVIOUS
<1>1. ASSUME RegistryInv, OrderlyInv
      PROVE  QuietNoLeak
  <2>1. ASSUME Quiet, NEW m \in Lasting
        PROVE  m \in Models(Current)
    <3>1. m \in Objects /\ m # NoModel /\ m.version \in Slots
      BY <1>1, ObjectParts DEF RegistryInv, TypeOK, Lasting
    <3>2. \A o \in Ops : ~Leaving(task[o], m)
      BY <2>1 DEF Quiet, Running, Leaving
    <3>3. slot[m.version] = m
      BY <1>1, <3>2 DEF OrderlyInv, ReadyHeld
    <3> QED  BY <1>1, <3>1, <3>3, SlotFacts
  <2> QED  BY <2>1 DEF QuietNoLeak, Lasting
<1>2. Spec => []RegistryInv /\ []OrderlyInv
  BY OrderlyAlways
<1> QED  BY <1>1, <1>2, PTL

(* ... while a reload runs its version has a model that is ready, the old    *)
(* one and then the new one (registry.py:192, tests/test_registry.py:284),   *)
(* or one with a load() that returns False.                                 *)
THEOREM RollingUpdate == Orderly /\ Unmixed /\ Settled => (Spec => []RollingReload)
<1> SUFFICES ASSUME Orderly, Unmixed, Settled  PROVE Spec => []RollingReload
  OBVIOUS
<1>1. ASSUME RegistryInv, OrderlyInv
      PROVE  RollingReload
  <2>1. ASSUME NEW o \in Ops, Running(o), task[o].reload
        PROVE  Find(single[task[o].registry], o.version) \in Fit
    <3>1. o \in Loads
      BY <1>1, <2>1 DEF OrderlyInv, UnloadsOwn, UnloadOwn
    <3>2. single[task[o].registry] = Current
      BY <1>1, <2>1 DEF OrderlyInv, Here, Current
    <3>3. Find(Current, o.version) = slot[o.version]
      BY <1>1, <3>1, FindsSlot
    <3>4. LoadOwn(o, task[o], slot[o.version], Fit)
      BY <1>1, <3>1 DEF OrderlyInv, LoadsOwn
    <3>5. task[o].stage \in Stages
      BY <1>1 DEF RegistryInv, TypeOK
    <3>6. task[o].stage \in {"hook", "late_hook", "load", "retire"}
      BY <2>1, <3>4, <3>5 DEF LoadOwn, Running, Stages
    <3>7. slot[o.version] \in Fit
      BY <2>1, <3>4, <3>6 DEF LoadOwn
    <3> QED  BY <3>2, <3>3, <3>7
  <2> QED  BY <2>1 DEF RollingReload
<1>2. Spec => []RegistryInv /\ []OrderlyInv
  BY OrderlyAlways
<1> QED  BY <1>1, <1>2, PTL

(* ... and the default, unless it has no version, is the model that is       *)
(* registered under its version (registry.py:90, :229).                      *)
THEOREM DefaultIsRegistered == Orderly /\ Unmixed /\ Settled => (Spec => []DefaultServed)
<1> SUFFICES ASSUME Orderly, Unmixed, Settled  PROVE Spec => []DefaultServed
  OBVIOUS
<1>1. ASSUME RegistryInv, OrderlyInv
      PROVE  DefaultServed
  <2>1. PICK c : c = Current
    OBVIOUS
  <2>2. Filed(c) /\ DefaultFiled(c)
    BY <1>1, <2>1, SlotFacts DEF OrderlyInv
  <2>3. DefaultFiled(Cached(c)) /\ Cached(c).versions = c.versions /\ Cached(c).default = DefaultOf(c)
    BY <2>2, CachedKeeps
  <2> QED  BY <2>1, <2>3 DEF DefaultFiled, DefaultServed
<1>2. Spec => []RegistryInv /\ []OrderlyInv
  BY OrderlyAlways
<1> QED  BY <1>1, <1>2, PTL

-----------------------------------------------------------------------------
(* Loads that overlap, of versions and none of which fails.                 *)
OnlyVersions ==
  OnlyLoads /\ \A o \in Loads : task[o].stage # "idle" => o.version # Unversioned

(* The model of a load is not where it goes yet, or where it was put first. *)
Unplaced(t) == t.stage \in {"hook", "late_hook"} \/ (t.stage = "load" /\ t.reload)
FirstOwn(o, t, m) ==
  /\ ~t.reload
  /\ \/ t.stage \in {"hook", "late_hook"} /\ m = Raw(o)
     \/ t.stage = "load" /\ m = Wrap(Raw(o))

(* A slot has a model as soon as a load of its version begins.  The model is *)
(* fit, or the load that put it there goes on; no load unloads it.        *)
OverlapInv ==
  /\ Here
  /\ \A o \in Loads : task[o].stage # "idle" => slot[o.version] # NoModel
  /\ \A v \in Slots : slot[v] # NoModel =>
       slot[v] \in Fit \/ \E o \in Loads : o.version = v /\ FirstOwn(o, task[o], slot[v])
  /\ \A o \in Loads : task[o].stage = "retire" => \A v \in Slots : slot[v] # task[o].old
  /\ \A o, p \in Loads : task[o].stage = "idle" => task[p].old.id # o.id
  /\ \A o, p \in Loads : Unplaced(task[o]) =>
       task[p].old # Wrap(Raw(o)) /\ slot[o.version] # Wrap(Raw(o))

(* A step of load o that leaves its task as t and its slot as x. *)
OverlapStep(o, t, x) ==
  /\ t \in TaskTypes /\ task' = [task EXCEPT ![o] = t] /\ t.stage # "idle"
  /\ slot' = [slot EXCEPT ![o.version] = x] /\ x # NoModel
  /\ entry' = entry \/ (\A p \in Ops : ~Running(p))
  /\ entry' # NoRegistry /\ t.registry = entry'
  /\ \/ x = slot[o.version]
     \/ x = Raw(o) /\ task[o].stage = "idle"
     \/ x = Wrap(Raw(o)) /\ Unplaced(task[o]) /\ ~Unplaced(t)
  /\ t.old = task[o].old \/ (task[o].stage = "idle" /\ t.old = slot[o.version])
  /\ Unplaced(t) => task[o].stage = "idle" \/ Unplaced(task[o])
  /\ \A n \in Fit : n \in Fit' \/ (task[o].stage = "retire" /\ n = task[o].old)
  /\ x \in Fit' \/ FirstOwn(o, t, x) \/ (x = slot[o.version] /\ ~FirstOwn(o, task[o], x))
  /\ t.stage = "retire" => \A v \in Slots : slot'[v] # t.old

(* A load that has not begun has no model in a slot. *)
LEMMA SlotsBegun ==
  ASSUME RegistryInv, NEW o \in Loads, task[o].stage = "idle", NEW v \in Slots
  PROVE  slot[v].id # o.id
<1>1. PICK c : c = Current
  OBVIOUS
<1>2. Filed(c) /\ slot[v] = Slot(c, v)
  BY <1>1, SlotFacts
<1>3. slot[v] \in Known(c)
  BY <1>2 DEF Slot, Known, Slots
<1>4. CASE entry = NoRegistry
  <2>1. c = NoVersions
    BY <1>1, <1>4 DEF Current
  <2>2. slot[v] = NoModel
    BY <1>2, <2>1, NoVersionsFiled
  <2> QED  BY <2>2, ObjectParts, OpsAssumption DEF Loads
<1>5. CASE entry # NoRegistry
  <2>1. entry \in Registries /\ c = single[entry]
    BY <1>1, <1>5 DEF Current, RegistryInv, TypeOK
  <2> QED  BY <1>3, <2>1 DEF RegistryInv, Unseen
<1> QED  BY <1>4, <1>5

(* What the other loads know of the slots stays true: no model comes back    *)
(* once it is out of its slot, if the first hook replaces models.           *)
LEMMA OverlapMoves ==
  ASSUME Wraps, RegistryInv, OverlapInv, NEW o \in Loads, NEW t, NEW x, OverlapStep(o, t, x)
  PROVE  OverlapInv'
<1>t. task \in [Ops -> TaskTypes] /\ o \in Ops /\ o.version \in Slots
  BY OpsAssumption DEF RegistryInv, TypeOK, TaskTypes, Loads, Slots
<1>1. /\ t \in TaskTypes /\ t.stage # "idle" /\ x # NoModel
      /\ task'[o] = t /\ \A p \in Ops : p # o => task'[p] = task[p]
      /\ \A v \in Slots : slot'[v] = IF v = o.version THEN x ELSE slot[v]
  BY <1>t DEF OverlapStep, slot
<1>2. /\ entry' = entry \/ (\A p \in Ops : ~Running(p))
      /\ entry' # NoRegistry /\ t.registry = entry'
  BY DEF OverlapStep
<1>3. \/ x = slot[o.version]
      \/ x = Raw(o) /\ task[o].stage = "idle"
      \/ x = Wrap(Raw(o)) /\ Unplaced(task[o]) /\ ~Unplaced(t)
  BY DEF OverlapStep
<1>4. t.old = task[o].old \/ (task[o].stage = "idle" /\ t.old = slot[o.version])
  BY DEF OverlapStep
<1>5. /\ Unplaced(t) => task[o].stage = "idle" \/ Unplaced(task[o])
      /\ \A n \in Fit : n \in Fit' \/ (task[o].stage = "retire" /\ n = task[o].old)
      /\ x \in Fit' \/ FirstOwn(o, t, x) \/ (x = slot[o.version] /\ ~FirstOwn(o, task[o], x))
      /\ t.stage = "retire" => \A v \in Slots : slot'[v] # t.old
  BY DEF OverlapStep
<1>p. \A p \in Loads : p \in Ops /\ p.version \in Slots
  BY OpsAssumption DEF Loads, Slots
<1>i. \A p, q \in Loads : /\ Raw(p).id = p.id /\ Wrap(Raw(p)).id = p.id
                          /\ p # q => p.id # q.id
                          /\ Wrap(Raw(p)).version = p.version /\ Wrap(Raw(p)) # NoModel
  <2>1. \A p \in Loads : Wrap(Raw(p)) \in Objects
    BY ObjectParts
  <2> QED  BY <2>1, ObjectParts, OpsAssumption DEF Loads
<1>w. Raw(o) # Wrap(Raw(o))
  <2>1. Wraps = TRUE
    BY WrapsAssumption
  <2>2. Raw(o).wrapped = FALSE /\ Wrap(Raw(o)).wrapped = Wraps
    BY DEF Raw, Wrap
  <2> QED  BY <2>1, <2>2
<1>s. \A v \in Slots : /\ slot[v] \in Objects \cup {NoModel}
                       /\ slot[v] # NoModel => slot[v].version = v
  BY SlotFacts
<1>o. \A p, q \in Loads : task[p].stage = "idle" => task[q].old.id # p.id
  BY DEF OverlapInv
<1>u. \A p, q \in Loads : Unplaced(task[p]) =>
        task[q].old # Wrap(Raw(p)) /\ slot[p.version] # Wrap(Raw(p))
  BY DEF OverlapInv
<1>6. Here'
  <2>1. ASSUME NEW p \in Ops, Running(p)', p # o
        PROVE  entry' # NoRegistry /\ task'[p].registry = entry'
    <3>1. Running(p)
      BY <1>1, <2>1 DEF Running
    <3> QED  BY <1>1, <1>2, <2>1, <3>1 DEF OverlapInv, Here
  <2> QED  BY <1>1, <1>2, <2>1 DEF Here
<1>7. \A p \in Loads : task'[p].stage # "idle" => slot'[p.version] # NoModel
  BY <1>1, <1>p DEF OverlapInv
<1>8. ASSUME NEW v \in Slots, slot'[v] # NoModel
      PROVE  slot'[v] \in Fit' \/ \E p \in Loads : p.version = v /\ FirstOwn(p, task'[p], slot'[v])
  <2>1. ASSUME slot'[v] = slot[v], ~(v = o.version /\ FirstOwn(o, task[o], slot[v]))
        PROVE  slot'[v] \in Fit' \/ \E p \in Loads : p.version = v /\ FirstOwn(p, task'[p], slot'[v])
    <3>1. CASE slot[v] \in Fit
      <4>1. task[o].stage = "retire" => slot[v] # task[o].old
        BY DEF OverlapInv
      <4> QED  BY <1>5, <2>1, <3>1, <4>1
    <3>2. CASE slot[v] \notin Fit
      <4>1. PICK p \in Loads : p.version = v /\ FirstOwn(p, task[p], slot[v])
        BY <1>8, <2>1, <3>2 DEF OverlapInv
      <4>2. p # o
        BY <2>1, <4>1
      <4> QED  BY <1>1, <1>p, <2>1, <4>1, <4>2
    <3> QED  BY <3>1, <3>2
  <2>2. CASE v # o.version
    BY <1>1, <2>1, <2>2
  <2>3. CASE v = o.version
    <3>1. slot'[v] = x
      BY <1>1, <2>3
    <3>2. CASE x \in Fit'
      BY <3>1, <3>2
    <3>3. CASE FirstOwn(o, t, x)
      BY <1>1, <2>3, <3>1, <3>3
    <3>4. CASE x = slot[o.version] /\ ~FirstOwn(o, task[o], x)
      BY <2>1, <2>3, <3>1, <3>4
    <3> QED  BY <1>5, <3>2, <3>3, <3>4
  <2> QED  BY <2>2, <2>3
<1>9. ASSUME NEW p \in Loads, task'[p].stage = "retire", NEW v \in Slots
      PROVE  slot'[v] # task'[p].old
  <2>1. CASE p = o
    BY <1>1, <1>5, <1>9, <2>1
  <2>2. CASE p # o
    <3>1. task'[p] = task[p] /\ slot[v] # task[p].old
      BY <1>1, <1>p, <1>9, <2>2 DEF OverlapInv
    <3>2. x = Raw(o) /\ task[o].stage = "idle" => x # task[p].old
      BY <1>i, <1>o
    <3>3. x = Wrap(Raw(o)) /\ Unplaced(task[o]) => x # task[p].old
      BY <1>u
    <3> QED  BY <1>1, <1>3, <3>1, <3>2, <3>3
  <2> QED  BY <2>1, <2>2
<1>10. ASSUME NEW p \in Loads, NEW q \in Loads, task'[p].stage = "idle"
       PROVE  task'[q].old.id # p.id
  <2>1. task[p].stage = "idle" /\ p # o
    BY <1>1, <1>p, <1>10
  <2>2. slot[o.version].id # p.id
    BY <1>t, <2>1, SlotsBegun
  <2>3. t.old.id # p.id
    BY <1>4, <1>o, <2>1, <2>2
  <2> QED  BY <1>1, <1>o, <1>p, <2>1, <2>3
<1>11. ASSUME NEW p \in Loads, NEW q \in Loads, Unplaced(task'[p])
       PROVE  task'[q].old # Wrap(Raw(p)) /\ slot'[p.version] # Wrap(Raw(p))
  <2>1. CASE p # o
    <3>1. Unplaced(task[p])
      BY <1>1, <1>p, <1>11, <2>1
    <3>2. slot[p.version] # Wrap(Raw(p)) /\ task[q].old # Wrap(Raw(p)) /\ task[o].old # Wrap(Raw(p))
      BY <1>u, <3>1
    <3>3. slot[o.version] # Wrap(Raw(p))
      BY <1>i, <1>s, <1>t, <3>2
    <3>4. x # Wrap(Raw(p))
      BY <1>3, <1>i, <2>1, <3>3
    <3> QED  BY <1>1, <1>4, <1>p, <3>2, <3>3, <3>4
  <2>2. CASE p = o
    <3>1. Unplaced(t)
      BY <1>1, <1>11, <2>2
    <3>2. CASE task[o].stage = "idle"
      <4>1. slot[o.version] # Wrap(Raw(o))
        BY <1>i, <1>t, <3>2, SlotsBegun
      <4>2. \A r \in Loads : task[r].old # Wrap(Raw(o))
        BY <1>i, <1>o, <3>2
      <4>3. x # Wrap(Raw(o))
        BY <1>3, <1>w, <3>1, <4>1
      <4> QED  BY <1>1, <1>4, <1>p, <2>2, <4>1, <4>2, <4>3
    <3>3. CASE task[o].stage # "idle"
      <4>1. Unplaced(task[o])
        BY <1>5, <3>1, <3>3
      <4>2. slot[o.version] # Wrap(Raw(o)) /\ \A r \in Loads : task[r].old # Wrap(Raw(o))
        BY <1>u, <4>1
      <4>3. x = slot[o.version] /\ t.old = task[o].old
        BY <1>3, <1>4, <3>1, <3>3
      <4> QED  BY <1>1, <1>p, <2>2, <4>2, <4>3
    <3> QED  BY <3>2, <3>3
  <2> QED  BY <2>1, <2>2
<1> QED  BY <1>6, <1>7, <1>8, <1>9, <1>10, <1>11 DEF OverlapInv

(* A load begins in a slot that has a model already, or puts its own there. *)
LEMMA OverlapBegins ==
  ASSUME RegistryInv, RegistryInv', OverlapInv, NEW o \in Loads, o.version # Unversioned,
         BeginLoad(o), task'[o].stage # "failed"
  PROVE  \E t, x : OverlapStep(o, t, x)
<1>t. /\ single \in [Registries -> [versions : [Versions -> Objects \cup {NoModel}],
                                    default : Objects \cup {NoModel}]]
      /\ task[o] \in TaskTypes /\ task \in [Ops -> TaskTypes] /\ o \in Ops
      /\ entry \in Registries \cup {NoRegistry} /\ made \in Nat /\ entry =< made
      /\ Shape(o, task[o], made)
  BY DEF RegistryInv, TypeOK, TaskTypes, TaskShape, Loads
<1>1. task[o] = Idle /\ task[o].stage = "idle" /\ UNCHANGED ready /\ entry' = RegistryToUse
  BY <1>t DEF BeginLoad, MayBegin, Shape
<1>k. Fit' = Fit
  BY <1>1, ReadyStays
<1>g. PICK g : g = RegistryToUse
  OBVIOUS
<1>2. g # NoRegistry /\ g \in Registries /\ single[g] = Current
  BY <1>t, <1>g, RegistryUsed
<1>3. single[g] = Current
  BY <1>2
<1>4. PICK c : c = Current
  OBVIOUS
<1>5. Filed(c) /\ single[g] = c
  BY <1>3, <1>4, SlotFacts
<1>v. PICK v \in Slots : v = o.version /\ v # Unversioned
  BY <1>t, OpsAssumption DEF Slots
<1>m. PICK m : m = slot[v]
  OBVIOUS
<1>s. /\ slot = [w \in Slots |-> slot[w]]
      /\ \A w \in Slots : slot[w] = Slot(c, w)
  BY <1>4 DEF slot
<1>6. Find(c, v) = m /\ Found(c, v) = c
  BY <1>s, <1>v, <1>m DEF Find, Found, Slot
<1>o. Raw(o) \in Objects /\ Raw(o).id = o.id /\ Raw(o).version = o.version /\ Raw(o) # NoModel
  BY ObjectParts
<1>7. m \in Objects \cup {NoModel}
  BY <1>m, SlotFacts
<1>c. ASSUME NEW s, single' = [single EXCEPT ![g] = s], NEW x,
             \A w \in Slots : Slot(s, w) = IF w = v THEN x ELSE Slot(c, w)
      PROVE  slot' = [slot EXCEPT ![v] = x]
  <2>1. \A w \in Slots : Slot(s, w) = IF w = v THEN x ELSE slot[w]
    BY <1>s, <1>c
  <2>2. entry' = g
    BY <1>1, <1>g
  <2>3. Change(g, s, v, x)
    BY <1>2, <1>c, <2>1, <2>2 DEF Change
  <2> QED  BY <2>3, SlotChanges
<1>e. entry' = g /\ (entry' = entry \/ (\A p \in Ops : ~Running(p)))
  <2>1. entry = NoRegistry => \A p \in Ops : ~Running(p)
    BY DEF OverlapInv, Here
  <2> QED  BY <1>1, <1>g, <2>1 DEF RegistryToUse
<1>13. PICK t : t = [Idle EXCEPT !.stage = "hook", !.registry = g, !.model = Raw(o),
                                 !.old = m, !.reload = (m # NoModel)]
  OBVIOUS
<1>14. /\ t \in TaskTypes /\ t.stage = "hook" /\ t.registry = g /\ t.old = m
       /\ (t.reload <=> m # NoModel)
  <2>1. (m # NoModel) \in BOOLEAN
    OBVIOUS
  <2>2. t \in TaskTypes
    BY <1>2, <1>7, <1>o, <1>13, <2>1 DEF Idle, TaskTypes, Stages
  <2> QED  BY <1>13, <2>2 DEF Idle
<1>15. /\ task' = [task EXCEPT ![o] = t]
       /\ single' = [single EXCEPT ![g] = IF t.reload THEN c ELSE Register(c, Raw(o))]
  <2>1. \/ /\ task' = [task EXCEPT ![o] = t]
           /\ single' = [single EXCEPT ![g] = IF t.reload THEN c ELSE Register(c, Raw(o))]
        \/ task' = [task EXCEPT ![o].stage = "failed"]
    BY <1>5, <1>6, <1>13, <1>g, <1>v DEF BeginLoad
  <2>2. task' = [task EXCEPT ![o].stage = "failed"] => task'[o].stage = "failed"
    BY <1>t DEF TaskTypes
  <2> QED  BY <2>1, <2>2
<1>16. PICK x : x = IF t.reload THEN m ELSE Raw(o)
  OBVIOUS
<1>17. slot' = [slot EXCEPT ![v] = x]
  <2>1. PICK s : s = IF t.reload THEN c ELSE Register(c, Raw(o))
    OBVIOUS
  <2>2. \A w \in Slots : Slot(s, w) = IF w = v THEN x ELSE Slot(c, w)
    BY <1>5, <1>m, <1>o, <1>s, <1>v, <1>16, <2>1, RegisterFiles
  <2> QED  BY <1>c, <1>15, <2>1, <2>2
<1>18. x # NoModel /\ (x = slot[v] \/ x = Raw(o))
  BY <1>m, <1>o, <1>14, <1>16
<1>19. FirstOwn(o, t, x) \/ (x = slot[v] /\ ~FirstOwn(o, task[o], x))
  BY <1>1, <1>m, <1>14, <1>16 DEF FirstOwn
<1>20. OverlapStep(o, t, x)
  BY <1>1, <1>2, <1>e, <1>k, <1>m, <1>v, <1>14, <1>15, <1>17, <1>18, <1>19 DEF OverlapStep
<1> QED  BY <1>20

(* The other steps of a load. *)
LEMMA OverlapGoesOn ==
  ASSUME RegistryInv, RegistryInv', OverlapInv, NEW o \in Loads, o.version # Unversioned,
         FinishHook(o) \/ FinishLateHook(o) \/ FinishLoad(o) \/ FinishRetire(o)
  PROVE  \E t, x : OverlapStep(o, t, x)
<1>t. /\ single \in [Registries -> [versions : [Versions -> Objects \cup {NoModel}],
                                    default : Objects \cup {NoModel}]]
      /\ task[o] \in TaskTypes /\ task \in [Ops -> TaskTypes] /\ o \in Ops
      /\ Shape(o, task[o], made)
  BY DEF RegistryInv, TypeOK, TaskTypes, TaskShape, Loads
<1>1. /\ task[o].stage \in {"hook", "late_hook", "load", "retire"}
      /\ UNCHANGED <<made, entry>>
  BY DEF FinishHook, FinishLateHook, FinishLoad, FinishRetire
<1>2. Running(o)
  BY <1>1 DEF Running
<1>3. o.version \in Slots
  BY OpsAssumption DEF Slots, Loads
<1>g. PICK g : g = entry
  OBVIOUS
<1>4. g = task[o].registry /\ g # NoRegistry /\ Current = single[g] /\ g \in Registries
  BY <1>2, <1>g, <1>t DEF OverlapInv, Here, Current, RegistryInv, TypeOK
<1>f. Filed(single[g])
  BY <1>4 DEF RegistryInv
<1>m. PICK m : m = slot[o.version]
  OBVIOUS
<1>5. m # NoModel
  BY <1>1, <1>m DEF OverlapInv
<1>6. PICK t0 : t0 = task[o]
  OBVIOUS
<1>7. /\ t0 \in TaskTypes /\ t0.registry = g
      /\ t0.stage \in {"hook", "late_hook", "load", "retire"}
      /\ t0.model = IF t0.stage = "hook" THEN Raw(o) ELSE Wrap(Raw(o))
      /\ t0.reload => t0.old \in Objects /\ t0.old.id # o.id /\ t0.old.version = o.version
      /\ t0.stage = "retire" => t0.reload
  <2>1. t0.old \in Objects \cup {NoModel}
    BY <1>t, <1>6 DEF TaskTypes
  <2> QED  BY <1>t, <1>1, <1>4, <1>6, <2>1 DEF Shape
<1>o. /\ Raw(o) \in Objects /\ Wrap(Raw(o)) \in Objects /\ Wrap(Raw(o)) # NoModel
      /\ Wrap(Raw(o)).id = o.id /\ Wrap(Raw(o)).version = o.version
  BY ObjectParts
<1>s. /\ slot = [w \in Slots |-> slot[w]]
      /\ \A w \in Slots : slot[w] = Slot(single[g], w)
  BY <1>4 DEF slot
<1>u. ASSUME single' = single
      PROVE  slot' = [slot EXCEPT ![o.version] = m]
  <2>1. Current' = Current
    BY <1>1, <1>u DEF Current
  <2>2. slot' = slot
    BY <2>1 DEF slot
  <2> QED  BY <1>s, <1>m, <2>2
<1>c. ASSUME NEW s, single' = [single EXCEPT ![g] = s], NEW x,
             \A w \in Slots : Slot(s, w) = IF w = o.version THEN x ELSE Slot(single[g], w)
      PROVE  slot' = [slot EXCEPT ![o.version] = x]
  <2>1. \A w \in Slots : Slot(s, w) = IF w = o.version THEN x ELSE slot[w]
    BY <1>s, <1>c
  <2>2. entry' = g
    BY <1>1, <1>g
  <2>3. Change(g, s, o.version, x)
    BY <1>3, <1>4, <1>c, <2>1, <2>2 DEF Change
  <2> QED  BY <2>3, SlotChanges
<1>e. entry' = entry /\ entry' # NoRegistry /\ entry' = g
  BY <1>1, <1>4, <1>g
(* A step that leaves the slot of the load as it is. *)
<1>8. ASSUME NEW t \in TaskTypes, task' = [task EXCEPT ![o] = t], t.stage # "idle",
             single' = single, t.registry = g, t.old = t0.old,
             Unplaced(t) => Unplaced(t0), t.stage # "retire",
             \A n \in Fit : n \in Fit' \/ (t0.stage = "retire" /\ n = t0.old),
             m \in Fit' \/ FirstOwn(o, t, m) \/ ~FirstOwn(o, t0, m)
      PROVE  OverlapStep(o, t, m)
  BY <1>5, <1>6, <1>e, <1>m, <1>u, <1>8 DEF OverlapStep
<1>9. CASE FinishHook(o)
  <2>1. t0.stage = "hook" /\ UNCHANGED <<single, ready>>
    BY <1>6, <1>9 DEF FinishHook
  <2>k. Fit' = Fit
    BY <2>1, ReadyStays
  <2>2. PICK t : t = [t0 EXCEPT !.stage = "late_hook", !.model = Wrap(Raw(o))]
    OBVIOUS
  <2>3. task' = [task EXCEPT ![o] = t]
    BY <1>t, <1>6, <1>7, <1>9, <2>1, <2>2 DEF FinishHook, TaskTypes
  <2>4. /\ t \in TaskTypes /\ t.stage = "late_hook" /\ t.registry = g /\ t.reload = t0.reload
        /\ t.old = t0.old
    BY <1>7, <1>o, <2>2 DEF TaskTypes, Stages
  <2>5. FirstOwn(o, t, m) \/ ~FirstOwn(o, t0, m)
    BY <2>1, <2>4 DEF FirstOwn
  <2>6. OverlapStep(o, t, m)
    BY <1>8, <2>1, <2>k, <2>3, <2>4, <2>5 DEF Unplaced
  <2> QED  BY <2>6
<1>10. CASE FinishRetire(o)
  <2>0. PICK st \in {"done", "unretired"} : Retired(o, st)
    BY <1>t, <1>10, RetireEnds
  <2>1. t0.stage = "retire" /\ UNCHANGED single /\ Goes(t0.old)
    BY <1>6, <2>0 DEF Retired
  <2>k. \A n \in Fit : n \in Fit' \/ n = t0.old
    <3>1. \A n \in Objects : n # t0.old => (n \in ready <=> n \in ready')
      BY <2>1 DEF Goes
    <3>2. Fit \subseteq Objects
      BY UnreadyAssumption DEF RegistryInv, TypeOK, Fit, Objects, Of
    <3> QED  BY <3>1, <3>2, SameReadiness
  <2>2. PICK t : t = [t0 EXCEPT !.stage = st]
    OBVIOUS
  <2>3. task' = [task EXCEPT ![o] = t]
    BY <1>6, <2>0, <2>2 DEF Retired
  <2>4. t \in TaskTypes /\ t.stage \in {"done", "unretired"} /\ t.registry = g /\ t.old = t0.old
    BY <1>7, <2>2 DEF TaskTypes, Stages
  <2>5. OverlapStep(o, t, m)
    BY <1>7, <1>8, <2>1, <2>k, <2>3, <2>4 DEF Unplaced, FirstOwn
  <2> QED  BY <2>5
<1>11. CASE FinishLateHook(o)
  <2>1. t0.stage = "late_hook" /\ UNCHANGED ready /\ t0.model = Wrap(Raw(o))
    BY <1>6, <1>7, <1>11 DEF FinishLateHook
  <2>k. Fit' = Fit
    BY <2>1, ReadyStays
  <2>2. PICK t : t = [t0 EXCEPT !.stage = "load"]
    OBVIOUS
  <2>3. task' = [task EXCEPT ![o] = t]
    BY <1>t, <1>6, <1>11, <2>2 DEF FinishLateHook
  <2>4. /\ t \in TaskTypes /\ t.stage = "load" /\ t.registry = g /\ t.reload = t0.reload
        /\ t.old = t0.old
    BY <1>7, <2>1, <2>2 DEF TaskTypes, Stages
  <2>5. CASE t0.reload
    <3>1. single' = single
      BY <1>6, <1>11, <2>5 DEF FinishLateHook
    <3>2. OverlapStep(o, t, m)
      BY <1>8, <2>1, <2>k, <2>3, <2>4, <2>5, <3>1 DEF Unplaced, FirstOwn
    <3> QED  BY <3>2
  <2>6. CASE ~t0.reload
    <3>1. PICK s : s = Register(single[g], Wrap(Raw(o)))
      OBVIOUS
    <3>2. single' = [single EXCEPT ![g] = s]
      BY <1>t, <1>4, <1>6, <1>11, <2>1, <2>6, <3>1 DEF FinishLateHook
    <3>3. \A w \in Slots : Slot(s, w) = IF w = o.version THEN Wrap(Raw(o)) ELSE Slot(single[g], w)
      BY <1>f, <1>o, <3>1, RegisterFiles
    <3>4. PICK x : x = Wrap(Raw(o))
      OBVIOUS
    <3>5. slot' = [slot EXCEPT ![o.version] = x]
      BY <1>c, <3>2, <3>3, <3>4
    <3>6. FirstOwn(o, t, x) /\ ~Unplaced(t) /\ Unplaced(t0)
      BY <2>1, <2>4, <2>6, <3>4 DEF FirstOwn, Unplaced
    <3>7. OverlapStep(o, t, x)
      BY <1>6, <1>e, <1>o, <2>1, <2>k, <2>3, <2>4, <3>4, <3>5, <3>6 DEF OverlapStep
    <3> QED  BY <3>7
  <2> QED  BY <2>5, <2>6
<1>12. CASE FinishLoad(o)
  <2>1. t0.stage = "load" /\ t0.model = Wrap(Raw(o))
    BY <1>6, <1>7, <1>12 DEF FinishLoad
  <2>f. Comes(Wrap(Raw(o)))
    BY <1>6, <1>12, <2>1, LoadEnds
  <2>k. Wrap(Raw(o)) \in Fit' /\ \A n \in Fit : n \in Fit'
    <3>1. \A n \in Objects : n # Wrap(Raw(o)) => (n \in ready <=> n \in ready')
      BY <2>f DEF Comes
    <3>2. Fit \subseteq Objects
      BY UnreadyAssumption DEF RegistryInv, TypeOK, Fit, Objects, Of
    <3> QED  BY <2>f, <3>1, <3>2, SameReadiness DEF Comes
  <2>2. PICK t : t = [t0 EXCEPT !.stage = IF t0.reload THEN "retire" ELSE "done"]
    OBVIOUS
  <2>3. task' = [task EXCEPT ![o] = t]
    BY <1>t, <1>6, <1>12, <2>2 DEF FinishLoad
  <2>4. /\ t \in TaskTypes /\ t.registry = g /\ t.reload = t0.reload
        /\ t.stage = IF t0.reload THEN "retire" ELSE "done"
        /\ t.old = t0.old
    BY <1>7, <2>1, <2>2 DEF TaskTypes, Stages
  <2>5. CASE ~t0.reload
    <3>1. single' = single
      BY <1>6, <1>12, <2>5 DEF FinishLoad
    <3>2. m \in Fit' \/ ~FirstOwn(o, t0, m)
      BY <2>1, <2>k DEF FirstOwn
    <3>3. OverlapStep(o, t, m)
      BY <1>8, <2>1, <2>k, <2>3, <2>4, <2>5, <3>1, <3>2 DEF Unplaced
    <3> QED  BY <3>3
  <2>6. CASE t0.reload
    <3>0. PICK old \in Objects : old = t0.old
      BY <1>7, <2>6
    <3>1. PICK c : c = Register(single[g], Wrap(Raw(o)))
      OBVIOUS
    <3>2. PICK s : s = ClearIfDefault(c, old)
      OBVIOUS
    <3>a. old.id # o.id /\ old.version = o.version /\ old # NoModel
      BY <1>7, <2>6, <3>0, ObjectParts
    <3>3. single' = [single EXCEPT ![g] = s]
      BY <1>t, <1>4, <1>6, <1>12, <2>1, <2>6, <3>0, <3>1, <3>2 DEF FinishLoad
    <3>4. /\ \A w \in Slots : Slot(c, w) = IF w = o.version THEN Wrap(Raw(o)) ELSE Slot(single[g], w)
          /\ Filed(c)
      BY <1>f, <1>o, <3>1, RegisterFiles
    <3>5. \A w \in Slots : Slot(s, w) = IF w = Unversioned /\ Slot(c, w) = old THEN NoModel ELSE Slot(c, w)
      BY <3>a, <3>2, <3>4, ClearKeeps
    <3>6. ASSUME NEW w \in Slots, w = Unversioned, Slot(c, w) = old
          PROVE  FALSE
      <4>1. Slot(c, w) # NoModel => Slot(c, w).version = w
        BY <3>4, ModelsInSlots
      <4> QED  BY <3>6, <3>a, <4>1
    <3>7. PICK x : x = Wrap(Raw(o))
      OBVIOUS
    <3>8. \A w \in Slots : Slot(s, w) = IF w = o.version THEN x ELSE Slot(single[g], w)
      BY <3>4, <3>5, <3>6, <3>7
    <3>9. slot' = [slot EXCEPT ![o.version] = x]
      BY <1>c, <3>3, <3>8
    <3>10. \A w \in Slots : slot'[w] # t.old
      <4>1. \A w \in Slots : slot'[w] = IF w = o.version THEN x ELSE slot[w]
        BY <1>s, <3>9
      <4>2. \A w \in Slots : slot[w] # NoModel => slot[w].version = w
        BY SlotFacts
      <4> QED  BY <1>o, <2>4, <3>0, <3>7, <3>a, <4>1, <4>2
    <3>11. x \in Fit' /\ ~Unplaced(t) /\ Unplaced(t0)
      BY <2>1, <2>k, <2>4, <2>6, <3>7 DEF Unplaced
    <3>12. OverlapStep(o, t, x)
      BY <1>6, <1>e, <1>o, <2>1, <2>k, <2>3, <2>4, <2>6, <3>7, <3>9, <3>10, <3>11 DEF OverlapStep
    <3> QED  BY <3>12
  <2> QED  BY <2>5, <2>6
<1> QED  BY <1>9, <1>10, <1>11, <1>12

(* An operation of a registry that has only seen loads of versions is one,   *)
(* and so were those before it.                                             *)
LEMMA OnlyVersionsStep ==
  ASSUME RegistryInv, NEW o \in Ops, NEW t, task' = [task EXCEPT ![o] = t], OnlyVersions',
         task[o].stage \notin {"unload", "failed"},
         task[o].stage # "idle" => o \in Loads /\ t.stage # "idle"
  PROVE  OnlyVersions
<1>t. task \in [Ops -> TaskTypes]
  BY DEF RegistryInv, TypeOK, TaskTypes
<1>1. task'[o] = t /\ \A p \in Ops : p # o => task'[p] = task[p]
  BY <1>t
<1>2. /\ \A p \in Ops : task'[p].stage \notin {"unload", "failed"} /\ (task'[p].stage = "done" => p \in Loads)
      /\ \A p \in Loads : task'[p].stage # "idle" => p.version # Unversioned
  BY DEF OnlyVersions, OnlyLoads
<1>3. \A p \in Loads : p \in Ops
  BY DEF Loads
<1> QED  BY <1>1, <1>2, <1>3 DEF OnlyVersions, OnlyLoads

(* As long as only loads of versions run, every step keeps OverlapInv.      *)
LEMMA OverlapNext ==
  ASSUME Wraps, RegistryInv, RegistryInv', OnlyVersions => OverlapInv, [Next]_vars, OnlyVersions'
  PROVE  OverlapInv'
<1>t. /\ task \in [Ops -> TaskTypes] /\ \A o \in Ops : Shape(o, task[o], made)
      /\ \A o \in Ops : task[o].stage \in Stages
  BY DEF RegistryInv, TypeOK, TaskTypes, TaskShape
<1>o. /\ \A p \in Ops : task'[p].stage \notin {"unload", "failed"} /\ (task'[p].stage = "done" => p \in Loads)
      /\ \A p \in Loads : task'[p].stage # "idle" => p.version # Unversioned
      /\ \A p \in Loads : p \in Ops
  BY DEF OnlyVersions, OnlyLoads, Loads
(* A load that moves, and is neither unloading nor failed then. *)
<1>1. ASSUME NEW o \in Ops, BeginLoad(o)
      PROVE  OverlapInv'
  <2>1. PICK t : task' = [task EXCEPT ![o] = t]
    BY <1>1 DEF BeginLoad
  <2>2. o \in Loads /\ task[o].stage = "idle"
    BY <1>1 DEF BeginLoad, MayBegin, Loads
  <2>3. OnlyVersions
    BY <2>1, <2>2, OnlyVersionsStep
  <2>4. task'[o].stage \notin {"idle", "failed"}
    <3>1. task'[o].stage # "failed"
      BY <1>o
    <3>2. t.stage \in {"hook", "failed"}
      <4>1. PICK u : u = [task[o] EXCEPT !.stage = "failed"]
        OBVIOUS
      <4>2. PICK old : old = Find(single[RegistryToUse], o.version)
        OBVIOUS
      <4>3. PICK w : w = [Idle EXCEPT !.stage = "hook", !.registry = RegistryToUse, !.model = Raw(o),
                                      !.old = old, !.reload = (old # NoModel)]
        OBVIOUS
      <4>4. task' = [task EXCEPT ![o] = w] \/ task' = [task EXCEPT ![o] = u]
        BY <1>1, <4>1, <4>2, <4>3 DEF BeginLoad
      <4>5. w.stage = "hook"
        BY <4>3 DEF Idle
      <4>6. task[o] \in TaskTypes
        BY <1>t
      <4>7. u.stage = "failed"
        BY <4>1, <4>6 DEF TaskTypes
      <4> QED  BY <1>t, <2>1, <4>4, <4>5, <4>7
    <3> QED  BY <1>t, <2>1, <3>1, <3>2
  <2>5. o.version # Unversioned
    BY <1>o, <2>2, <2>4
  <2>6. PICK t1, x : OverlapStep(o, t1, x)
    BY <1>1, <2>2, <2>3, <2>4, <2>5, OverlapBegins
  <2> QED  BY <2>2, <2>3, <2>6, OverlapMoves
<1>2. ASSUME NEW o \in Ops, FinishHook(o) \/ FinishLateHook(o) \/ FinishLoad(o) \/ FinishRetire(o)
      PROVE  OverlapInv'
  <2>0. FinishRetire(o) => \E st \in {"done", "unretired"} : Retired(o, st)
    BY RetireEnds
  <2>1. PICK t : task' = [task EXCEPT ![o] = t]
    BY <1>2, <2>0 DEF FinishHook, FinishLateHook, FinishLoad, Retired
  <2>2. task[o].stage \in {"hook", "late_hook", "load", "retire"} /\ o \in Loads
    BY <1>2, <1>t DEF FinishHook, FinishLateHook, FinishLoad, FinishRetire, Shape
  <2>3. task'[o].stage # "idle"
    BY <1>2, <1>t, <2>0 DEF FinishHook, FinishLateHook, FinishLoad, Retired, TaskTypes
  <2>4. t.stage # "idle"
    BY <1>t, <2>1, <2>3
  <2>5. OnlyVersions /\ o.version # Unversioned
    BY <1>o, <2>1, <2>2, <2>3, <2>4, OnlyVersionsStep
  <2>6. PICK t1, x : OverlapStep(o, t1, x)
    BY <1>2, <2>2, <2>5, OverlapGoesOn
  <2> QED  BY <2>2, <2>5, <2>6, OverlapMoves
<1>3. ASSUME NEW o \in Ops, FailLoad(o) \/ BeginUnload(o)
      PROVE  FALSE
  <2>1. task[o] \in TaskTypes
    BY <1>t
  <2>2. FailLoad(o) => task'[o].stage \in {"failed", "unload"}
    BY <1>t, <2>1 DEF FailLoad, TaskTypes
  <2>3. BeginUnload(o) => task'[o].stage = "unload"
    <3>1. PICK T : T = IF o.kind = "purge" THEN Models(single[entry])
                       ELSE {Find(single[entry], o.version)} \ {NoModel}
      OBVIOUS
    <3>2. PICK u : u = [Idle EXCEPT !.stage = "unload", !.registry = entry, !.hooking = T]
      OBVIOUS
    <3>3. BeginUnload(o) => task' = [task EXCEPT ![o] = u]
      BY <3>1, <3>2 DEF BeginUnload
    <3>4. u.stage = "unload"
      BY <3>2 DEF Idle
    <3> QED  BY <1>t, <3>3, <3>4
  <2> QED  BY <1>3, <1>o, <2>2, <2>3
<1>4. ASSUME NEW o \in Ops, NEW m,
             \/ m \in task[o].hooking /\ FinishUnloadHooks(o, m)
             \/ m \in task[o].stopping /\ FinishModelUnload(o, m)
      PROVE  FALSE
  <2>1. task[o] \in TaskTypes /\ task[o].stage \in {"unload", "failed"}
    BY <1>t, <1>4 DEF Shape
  <2>2. task'[o].stage \in {"unload", "failed"}
    <3>1. FinishUnloadHooks(o, m) => task'[o].stage \in {"failed", task[o].stage}
      BY <1>t, <2>1 DEF FinishUnloadHooks, TaskTypes
    <3>2. FinishModelUnload(o, m) => task'[o].stage \in {"failed", task[o].stage}
      <4>1. ASSUME NEW st \in {task[o].stage, "failed"}, Stopped(o, m, st)
            PROVE  task'[o].stage = st
        BY <1>t, <2>1, <4>1 DEF Stopped, TaskTypes
      <4> QED  BY <4>1, UnloadEnds DEF FinishModelUnload
    <3> QED  BY <1>4, <2>1, <3>1, <3>2
  <2> QED  BY <1>o, <2>2
<1>5. ASSUME NEW o \in Ops, EndUnload(o)
      PROVE  FALSE
  <2>1. task'[o].stage = IF o.kind = "load" \/ ((o.kind = "purge" \/ (o.kind = "unload" /\ Empty(single[task[o].registry]))) /\ entry = NoRegistry)
                         THEN "failed" ELSE "done"
    BY <1>5, <1>t DEF EndUnload, TaskTypes
  <2> QED  BY <1>o, <2>1 DEF Loads
<1>6. ASSUME UNCHANGED <<entry, ready, task>>, slot' = slot
      PROVE  OverlapInv'
  <2>1. OnlyVersions
    BY <1>o, <1>6 DEF OnlyVersions, OnlyLoads
  <2>2. Here' = Here /\ Fit' = Fit
    BY <1>6, ReadyStays DEF Here, Running
  <2> QED  BY <1>6, <2>1, <2>2 DEF OverlapInv
<1>7. CASE ReadDefault
  <2>1. PICK g : g = entry
    OBVIOUS
  <2>2. g \in Registries /\ g # NoRegistry /\ Current = single[g] /\ Filed(single[g])
    BY <1>7, <2>1 DEF ReadDefault, RegistryInv, TypeOK, Current
  <2>3. single' = [single EXCEPT ![g] = Cached(single[g])] /\ UNCHANGED <<entry, ready, task>>
    BY <1>7, <2>1 DEF ReadDefault
  <2>4. \A w \in Slots : Slot(Cached(single[g]), w) = Slot(single[g], w)
    BY <2>2, CachedKeeps
  <2>5. PICK s : s = Cached(single[g])
    OBVIOUS
  <2>6. Current' = s
    BY <2>1, <2>2, <2>3, <2>5 DEF Current, RegistryInv, TypeOK
  <2>7. \A w \in Slots : slot'[w] = slot[w]
    <3>1. slot' = [w \in Slots |-> Slot(s, w)]
      BY <2>6 DEF slot
    <3>2. slot = [w \in Slots |-> Slot(single[g], w)]
      BY <2>2 DEF slot
    <3> QED  BY <2>4, <2>5, <3>1, <3>2
  <2>8. slot' = slot
    BY <2>7 DEF slot
  <2> QED  BY <1>6, <2>3, <2>8
<1>8. CASE UNCHANGED vars
  <2>1. Current' = Current /\ UNCHANGED <<entry, ready, task>>
    BY <1>8 DEF vars, Current
  <2>2. slot' = slot
    BY <2>1 DEF slot
  <2> QED  BY <1>6, <2>1, <2>2
<1> QED
  BY <1>1, <1>2, <1>3, <1>4, <1>5, <1>7, <1>8 DEF Next

(* Nothing is registered, and no load holds a model.                        *)
LEMMA OverlapInit == Init => OverlapInv
<1> SUFFICES ASSUME Init  PROVE OverlapInv
  OBVIOUS
<1>1. Current = NoVersions /\ \A o \in Ops : task[o] = Idle
  BY DEF Init, Current
<1>2. \A v \in Slots : slot[v] = NoModel
  BY <1>1, NoVersionsFiled DEF slot
<1>3. Idle.stage = "idle" /\ Idle.old = NoModel /\ Idle.hooking \cup Idle.stopping = {}
  BY DEF Idle
<1>4. \A o \in Loads : task[o] = Idle /\ o.id # "none"
  BY <1>1, OpsAssumption DEF Loads
<1>5. \A o \in Ops : ~Running(o)
  BY <1>1, <1>3 DEF Running
<1> QED  BY <1>2, <1>3, <1>4, <1>5, ObjectParts DEF OverlapInv, Here, Unplaced

(* OverlapInv is inductive while only loads of versions run, with the       *)
(* types.                                                                   *)
LEMMA OverlapAlways == Wraps => (Spec => []RegistryInv /\ [](OnlyVersions => OverlapInv))
<1> SUFFICES ASSUME Wraps  PROVE Spec => []RegistryInv /\ [](OnlyVersions => OverlapInv)
  OBVIOUS
<1>1. RegistryInv /\ (OnlyVersions => OverlapInv) /\ [Next]_vars /\ RegistryInv'
        => (OnlyVersions => OverlapInv)'
  BY OverlapNext
<1> QED  BY <1>1, RegistryInit, RegistryStep, OverlapInit, PTL DEF Spec

(* Where the first hook replaces the model, loads of versions may overlap    *)
(* however they like: unless one fails, every model that the registry offers *)
(* once they are done is ready (registry.py:145), or has a load() that may   *)
(* return False.                                                             *)
THEOREM OverlappingLoadsReady == Wraps => (Spec => [](OnlyVersions => QuietReady))
<1> SUFFICES ASSUME Wraps  PROVE Spec => [](OnlyVersions => QuietReady)
  OBVIOUS
<1>1. ASSUME RegistryInv, OverlapInv
      PROVE  QuietReady
  <2>1. ASSUME Quiet, NEW v \in Slots, slot[v] # NoModel
        PROVE  slot[v] \in Fit
    <3>1. ASSUME NEW o \in Loads, FirstOwn(o, task[o], slot[v])
          PROVE  FALSE
      BY <2>1, <3>1 DEF Quiet, Running, FirstOwn, Loads
    <3> QED  BY <1>1, <2>1, <3>1 DEF OverlapInv
  <2> QED  BY <1>1, <2>1, SlotFacts DEF QuietReady
<1> QED  BY <1>1, OverlapAlways, PTL

-----------------------------------------------------------------------------
(* The promise of RegistryService.                                          *)

(* The loads whose models are in their slots, and ready. *)
ServedIn(held, R) == {o \in Loads : held[o.version] = Wrap(Raw(o)) /\ Wrap(Raw(o)) \in R}
LEMMA ServedBySlots ==
  ASSUME NEW c, Filed(c), NEW R
  PROVE  {o \in Loads : Wrap(Raw(o)) \in Models(c) \cap R} = ServedIn([v \in Slots |-> Slot(c, v)], R)
<1>1. ASSUME NEW o \in Loads
      PROVE  Wrap(Raw(o)) \in Models(c) <=> [v \in Slots |-> Slot(c, v)][o.version] = Wrap(Raw(o))
  <2>1. Wrap(Raw(o)) # NoModel /\ Wrap(Raw(o)).version = o.version /\ o.version \in Slots
    BY ObjectParts
  <2> QED  BY <2>1, ModelsInSlots
<1> QED  BY <1>1 DEF ServedIn

LEMMA ServedAre ==
  ASSUME RegistryInv, RegistryInv'
  PROVE  Served = ServedIn(slot, ready) /\ Served' = ServedIn(slot', ready')
<1>1. PICK c : c = Current
  OBVIOUS
<1>2. PICK d : d = Current'
  OBVIOUS
<1>3. Filed(c) /\ slot = [v \in Slots |-> Slot(c, v)]
  BY <1>1, SlotFacts DEF slot
<1>4. Filed(d) /\ slot' = [v \in Slots |-> Slot(d, v)]
  <2>1. Filed(Current')
    BY NoVersionsFiled DEF Current, RegistryInv, TypeOK
  <2> QED  BY <1>2, <2>1 DEF slot
<1>5. Served = {o \in Loads : Wrap(Raw(o)) \in Models(c) \cap ready}
  BY <1>1 DEF Served
<1>6. Served' = {o \in Loads : Wrap(Raw(o)) \in Models(d) \cap ready'}
  BY <1>2 DEF Served
<1> QED  BY <1>3, <1>4, <1>5, <1>6, ServedBySlots

(* A load whose model has not been in use: its load() has not ended, and it   *)
(* has not taken the model out again.                                       *)
Early(t) == t.stage \in {"idle", "hook", "late_hook", "load"} \/ (t.stage = "unload" /\ t.hooking # {})
NotEarly(n) == \A p \in Loads : Early(task[p]) => n # Wrap(Raw(p))
Later(n) == \A p \in Loads : Early(task'[p]) => n # Wrap(Raw(p))

(* Such a model is neither ready nor about to be unloaded.                  *)
EarlyUnseen ==
  /\ \A n \in ready : NotEarly(n)
  /\ \A o \in Ops : /\ \A n \in task[o].stopping : NotEarly(n)
                    /\ task[o].reload => NotEarly(task[o].old)

LEMMA WrappedApart ==
  ASSUME NEW o \in Loads, NEW p \in Loads, Wrap(Raw(p)) \in {Raw(o), Wrap(Raw(o))}
  PROVE  o = p
BY ObjectParts, OpsAssumption DEF Loads

LEMMA BegunUnload ==
  ASSUME NEW o \in Ops, BeginUnload(o)
  PROVE  \E t : task' = [task EXCEPT ![o] = t] /\ t.stopping = {} /\ ~t.reload
<1>1. PICK T : T = IF o.kind = "purge" THEN Models(single[entry])
                   ELSE {Find(single[entry], o.version)} \ {NoModel}
  OBVIOUS
<1>2. PICK t : t = [Idle EXCEPT !.stage = "unload", !.registry = entry, !.hooking = T]
  OBVIOUS
<1>3. task' = [task EXCEPT ![o] = t]
  BY <1>1, <1>2 DEF BeginUnload
<1>4. t.stopping = {} /\ ~t.reload
  BY <1>2 DEF Idle
<1> QED  BY <1>3, <1>4

LEMMA EarlyStays ==
  ASSUME RegistryInv, NEW o \in Ops, Operates(o), NEW p \in Loads, Early(task'[p])
  PROVE  Early(task[p])
<1>t. /\ task \in [Ops -> TaskTypes] /\ p \in Ops /\ task[o] \in TaskTypes /\ Shape(o, task[o], made)
  BY DEF RegistryInv, TypeOK, TaskTypes, TaskShape, Loads
<1>1. CASE BeginLoad(o) \/ BeginUnload(o)
  <2>1. task[o].stage = "idle" /\ \A q \in Ops : q # o => task'[q] = task[q]
    BY <1>t, <1>1 DEF BeginLoad, BeginUnload, MayBegin
  <2> QED  BY <1>t, <2>1 DEF Early
<1>2. CASE FinishHook(o) \/ FinishLateHook(o) \/ FinishLoad(o)
  <2>1. task[o].stage \in {"hook", "late_hook", "load"} /\ \A q \in Ops : q # o => task'[q] = task[q]
    BY <1>t, <1>2 DEF FinishHook, FinishLateHook, FinishLoad
  <2> QED  BY <1>t, <2>1 DEF Early
<1>3. CASE FailLoad(o)
  <2>1. task[o].stage \in {"hook", "late_hook", "load"} /\ \A q \in Ops : q # o => task'[q] = task[q]
    BY <1>t, <1>3, FailuresAssumption DEF FailLoad, TaskTypes, Stages
  <2> QED  BY <1>t, <2>1 DEF Early
<1>4. CASE FinishRetire(o)
  <2>1. PICK st \in {"done", "unretired"} : Retired(o, st)
    BY <1>4, RetireEnds
  <2>2. task'[o].stage = st /\ \A q \in Ops : q # o => task'[q] = task[q]
    BY <1>t, <2>1 DEF Retired, TaskTypes
  <2> QED  BY <1>t, <2>2 DEF Early
<1>5. ASSUME NEW m \in task[o].hooking, FinishUnloadHooks(o, m)
      PROVE  Early(task[p])
  <2>1. /\ task'[o].stage \in {task[o].stage, "failed"}
        /\ \A q \in Ops : q # o => task'[q] = task[q]
    BY <1>t, <1>5 DEF FinishUnloadHooks, TaskTypes
  <2>2. task[o].stage \in {"unload", "failed"}
    BY <1>t, <1>5 DEF Shape
  <2> QED  BY <1>t, <1>5, <2>1, <2>2 DEF Early
<1>6. ASSUME NEW m \in task[o].stopping, FinishModelUnload(o, m)
      PROVE  Early(task[p])
  <2>1. PICK st \in {task[o].stage, "failed"} : Stopped(o, m, st)
    BY <1>6, UnloadEnds
  <2>2. /\ task'[o].stage = st /\ task'[o].hooking = task[o].hooking
        /\ \A q \in Ops : q # o => task'[q] = task[q]
    BY <1>t, <2>1 DEF Stopped, TaskTypes
  <2> QED  BY <1>t, <2>2 DEF Early
<1>7. CASE EndUnload(o)
  <2>1. task'[o].stage \in {"done", "failed"} /\ \A q \in Ops : q # o => task'[q] = task[q]
    BY <1>t, <1>7 DEF EndUnload, TaskTypes
  <2> QED  BY <1>t, <2>1 DEF Early
<1> QED  BY <1>1, <1>2, <1>3, <1>4, <1>5, <1>6, <1>7 DEF Operates

(* What is in its slot when a load of its version or an unload begins, or   *)
(* while the unload runs, has been in use.                                  *)
LEMMA HeldNotEarly ==
  ASSUME Orderly, RegistryInv, OrderlyInv, NEW o \in Ops, Busy(task[o]) \/ MayBegin(o),
         NEW v \in Slots, slot[v] # NoModel,
         o \in Loads => v = o.version /\ task[o].stage = "idle"
  PROVE  NotEarly(slot[v])
<1> SUFFICES ASSUME NEW p \in Loads, Early(task[p]), slot[v] = Wrap(Raw(p))
             PROVE  FALSE
  BY DEF NotEarly
<1>1. p \in Ops /\ p.version = v /\ Wrap(Raw(p)).id = p.id
  BY ObjectParts, SlotFacts DEF Loads
<1>2. task[p].stage # "idle"
  BY <1>1 DEF OrderlyInv, LoadsOwn, LoadOwn
<1>3. Running(p)
  BY <1>2 DEF Early, Running
<1>4. p # o
  BY <1>2
<1> QED  BY <1>1, <1>3, <1>4, Others

LEMMA EarlyUnseenStep ==
  ASSUME Orderly, Unmixed, RegistryInv, RegistryInv', OrderlyInv, EarlyUnseen,
         NEW o \in Ops, Operates(o)
  PROVE  EarlyUnseen'
<1>t. /\ task \in [Ops -> TaskTypes] /\ task[o] \in TaskTypes /\ Shape(o, task[o], made)
      /\ ready \subseteq Objects
  BY DEF RegistryInv, TypeOK, TaskTypes, TaskShape
<1>1. \A n : NotEarly(n) => Later(n)
  BY EarlyStays DEF NotEarly, Later
<1>2. ASSUME NEW n \in ready'
      PROVE  Later(n)
  <2>1. CASE n \in ready
    BY <1>1, <2>1 DEF EarlyUnseen
  <2>2. CASE n \notin ready /\ FinishLoad(o)
    <3>1. o \in Loads /\ task[o].model = Wrap(Raw(o)) /\ task[o].stage = "load"
      BY <1>t, <2>2 DEF FinishLoad, Shape
    <3>2. n = Wrap(Raw(o))
      BY <1>2, <2>2, <3>1 DEF FinishLoad
    <3>3. task'[o].stage \in {"retire", "done"}
      BY <1>t, <2>2 DEF FinishLoad, TaskTypes
    <3>4. ASSUME NEW p \in Loads, Early(task'[p])
          PROVE  n # Wrap(Raw(p))
      <4>1. p # o
        BY <3>3, <3>4 DEF Early
      <4> QED  BY <3>1, <3>2, <4>1, WrappedApart
    <3> QED  BY <3>4 DEF Later
  <2>3. CASE n \notin ready /\ FinishRetire(o)
    <3>1. task[o].stage = "retire" /\ Goes(task[o].old)
      BY <2>3, RetireEnds DEF Retired
    <3>2. n = task[o].old
      BY <1>2, <2>3, <3>1 DEF Goes
    <3> QED  BY <1>t, <1>1, <3>1, <3>2 DEF Shape, EarlyUnseen
  <2>4. ASSUME n \notin ready, NEW m \in task[o].stopping, FinishModelUnload(o, m)
        PROVE  Later(n)
    <3>1. Goes(m)
      BY <2>4, UnloadEnds DEF Stopped
    <3>2. n = m
      BY <1>2, <2>4, <3>1 DEF Goes
    <3> QED  BY <1>1, <2>4, <3>2 DEF EarlyUnseen
  <2>5. ASSUME n \notin ready
        PROVE  \/ FinishLoad(o) \/ FinishRetire(o)
               \/ \E m \in task[o].stopping : FinishModelUnload(o, m)
    BY <1>2, <2>5 DEF Operates, BeginLoad, FinishHook, FinishLateHook, FailLoad, BeginUnload,
                      FinishUnloadHooks, EndUnload
  <2> QED  BY <2>1, <2>2, <2>3, <2>4, <2>5
<1>3. ASSUME NEW m \in task[o].hooking, FinishUnloadHooks(o, m), m \in task'[o].stopping
      PROVE  Later(m) \/ m \in task[o].stopping
  <2>1. CASE task' = [task EXCEPT ![o].stage = "failed", ![o].hooking = @ \ {m}]
    BY <1>t, <1>3, <2>1 DEF TaskTypes
  <2>2. CASE task' = [task EXCEPT ![o].hooking = @ \ {m}, ![o].stopping = @ \cup {m}]
    <3>1. CASE o \in Loads
      <4>1. LoadOwn(o, task[o], slot[o.version], Fit) /\ task[o].stage = "unload"
        BY <1>3, <3>1 DEF OrderlyInv, LoadsOwn, LoadOwn
      <4>2. task[o].hooking = {m} /\ m \in {Raw(o), Wrap(Raw(o))}
        BY <1>3, <4>1 DEF LoadOwn
      <4>3. task'[o].hooking = {} /\ task'[o].stage = "unload"
        BY <1>t, <2>2, <4>1, <4>2 DEF TaskTypes
      <4>4. ASSUME NEW p \in Loads, Early(task'[p])
            PROVE  m # Wrap(Raw(p))
        <5>1. p # o
          BY <4>3, <4>4 DEF Early
        <5> QED  BY <3>1, <4>2, <5>1, WrappedApart
      <4> QED  BY <4>4 DEF Later
    <3>2. CASE o \notin Loads
      <4>1. slot[m.version] = m /\ Busy(task[o]) /\ m \in Objects
        BY <1>t, <1>3, <3>2 DEF OrderlyInv, UnloadsOwn, UnloadOwn, Busy, TaskTypes
      <4>2. m.version \in Slots /\ m # NoModel
        BY <4>1, ObjectParts
      <4> QED  BY <1>1, <3>2, <4>1, <4>2, HeldNotEarly
    <3> QED  BY <3>1, <3>2
  <2> QED  BY <1>3, <2>1, <2>2 DEF FinishUnloadHooks
<1>4. ASSUME NEW q \in Ops, NEW n \in task'[q].stopping
      PROVE  Later(n)
  <2>1. CASE n \in task[q].stopping
    BY <1>1, <2>1 DEF EarlyUnseen
  <2>2. CASE n \notin task[q].stopping
    <3>1. ASSUME ~\E m \in task[o].hooking : FinishUnloadHooks(o, m)
          PROVE  FALSE
      <4>1. CASE BeginLoad(o)
        <5>1. task[o] = Idle
          BY <1>t, <4>1 DEF BeginLoad, MayBegin, Shape
        <5>2. task'[o].stopping = {} /\ \A r \in Ops : r # o => task'[r] = task[r]
          <6> DEFINE old == Find(single[RegistryToUse], o.version)
                     begun == [Idle EXCEPT !.stage = "hook", !.registry = RegistryToUse, !.model = Raw(o),
                                           !.old = old, !.reload = (old # NoModel)]
          <6>1. begun.stopping = {}
            BY DEF Idle
          <6>2. \/ task' = [task EXCEPT ![o] = begun]
                \/ task' = [task EXCEPT ![o].stage = "failed"]
            BY <4>1 DEF BeginLoad
          <6> HIDE DEF begun
          <6> QED  BY <1>t, <5>1, <6>1, <6>2 DEF TaskTypes, Idle
        <5> QED  BY <1>4, <2>2, <5>2
      <4>2. CASE BeginUnload(o)
        <5>1. PICK t : task' = [task EXCEPT ![o] = t] /\ t.stopping = {}
          BY <4>2, BegunUnload
        <5> QED  BY <1>t, <1>4, <2>2, <5>1
      <4>3. CASE \/ FinishHook(o) \/ FinishLateHook(o) \/ FinishLoad(o)
                 \/ FinishRetire(o) \/ FailLoad(o) \/ EndUnload(o)
        <5>1. task'[q].stopping = task[q].stopping
          BY <1>t, <4>3 DEF FinishHook, FinishLateHook, FinishLoad, FinishRetire, FailLoad, EndUnload, TaskTypes
        <5> QED  BY <1>4, <2>2, <5>1
      <4>4. ASSUME NEW m \in task[o].stopping, FinishModelUnload(o, m)
            PROVE  FALSE
        <5>1. PICK st \in {task[o].stage, "failed"} : Stopped(o, m, st)
          BY <4>4, UnloadEnds
        <5>2. task'[q].stopping \subseteq task[q].stopping
          BY <1>t, <5>1 DEF Stopped, TaskTypes
        <5> QED  BY <1>4, <2>2, <5>2
      <4> QED  BY <3>1, <4>1, <4>2, <4>3, <4>4 DEF Operates
    <3>2. PICK m \in task[o].hooking : FinishUnloadHooks(o, m)
      BY <3>1
    <3>3. q = o /\ n = m
      BY <1>t, <1>4, <2>2, <3>2 DEF FinishUnloadHooks, TaskTypes
    <3> QED  BY <1>3, <1>4, <2>2, <3>2, <3>3
  <2> QED  BY <2>1, <2>2
<1>5. ASSUME NEW q \in Ops, task'[q].reload
      PROVE  Later(task'[q].old)
  <2>1. CASE BeginLoad(o) /\ q = o
    <3>1. MayBegin(o) /\ o \in Loads /\ task[o] = Idle /\ task[o].stage = "idle"
      BY <1>t, <2>1 DEF BeginLoad, MayBegin, Loads, Shape
    <3>2. single[RegistryToUse] = Current
      BY <2>1, RegistryUsed
    <3>3. Find(single[RegistryToUse], o.version) = slot[o.version] /\ o.version \in Slots
      BY <3>1, <3>2, FindsSlot
    <3>4. task'[o].old = slot[o.version] /\ slot[o.version] # NoModel
      <4> DEFINE old == Find(single[RegistryToUse], o.version)
                 begun == [Idle EXCEPT !.stage = "hook", !.registry = RegistryToUse, !.model = Raw(o),
                                       !.old = old, !.reload = (old # NoModel)]
      <4>1. begun.old = old /\ (begun.reload <=> old # NoModel)
        BY DEF Idle
      <4>2. \/ task' = [task EXCEPT ![o] = begun]
            \/ task' = [task EXCEPT ![o].stage = "failed"]
        BY <2>1 DEF BeginLoad
      <4>3. ~Idle.reload
        BY DEF Idle
      <4> HIDE DEF begun
      <4>4. CASE task' = [task EXCEPT ![o] = begun]
        BY <1>t, <1>5, <2>1, <3>3, <4>1, <4>4
      <4>5. CASE task' = [task EXCEPT ![o].stage = "failed"]
        <5>1. task'[o].reload = task[o].reload
          BY <1>t, <4>5 DEF TaskTypes
        <5> QED  BY <1>5, <2>1, <3>1, <4>3, <5>1
      <4> QED  BY <4>2, <4>4, <4>5
    <3> QED  BY <1>1, <2>1, <3>1, <3>3, <3>4, HeldNotEarly
  <2>2. CASE ~(BeginLoad(o) /\ q = o)
    <3>1. task[q].reload /\ task'[q].old = task[q].old
      <4>1. CASE BeginLoad(o)
        BY <1>t, <1>5, <2>2, <4>1 DEF BeginLoad
      <4>2. CASE BeginUnload(o)
        <5>1. PICK t : task' = [task EXCEPT ![o] = t] /\ ~t.reload
          BY <4>2, BegunUnload
        <5> QED  BY <1>t, <1>5, <5>1
      <4>3. CASE \/ FinishHook(o) \/ FinishLateHook(o) \/ FinishLoad(o)
                 \/ FinishRetire(o) \/ FailLoad(o) \/ EndUnload(o)
        BY <1>t, <1>5, <4>3
        DEF FinishHook, FinishLateHook, FinishLoad, FinishRetire, FailLoad, EndUnload, TaskTypes
      <4>4. ASSUME NEW m \in task[o].stopping, FinishModelUnload(o, m)
            PROVE  task[q].reload /\ task'[q].old = task[q].old
        BY <1>t, <1>5, <4>4 DEF FinishModelUnload, TaskTypes
      <4>5. ASSUME NEW m \in task[o].hooking, FinishUnloadHooks(o, m)
            PROVE  task[q].reload /\ task'[q].old = task[q].old
        BY <1>t, <1>5, <4>5 DEF FinishUnloadHooks, TaskTypes
      <4> QED  BY <4>1, <4>2, <4>3, <4>4, <4>5 DEF Operates
    <3> QED  BY <1>1, <3>1 DEF EarlyUnseen
  <2> QED  BY <2>1, <2>2
<1>6. \A n : NotEarly(n)' <=> Later(n)
  BY DEF NotEarly, Later
<1> QED  BY <1>2, <1>4, <1>5 DEF EarlyUnseen, NotEarly, Later

(* A step that makes and unmakes nothing ready, and changes a slot only for  *)
(* a load whose model has not been in use, serves what was served.          *)
LEMMA ServedStays ==
  ASSUME RegistryInv, RegistryInv', EarlyUnseen, ready' = ready,
         NEW o \in Ops, NEW v \in Slots, NEW x, slot' = [slot EXCEPT ![v] = x],
         \/ x = slot[v]
         \/ o \in Loads /\ Early(task[o]) /\ {slot[v], x} \subseteq {NoModel, Raw(o), Wrap(Raw(o))}
  PROVE  Served' = Served
<1>1. slot'[v] = x /\ \A w \in Slots : w # v => slot'[w] = slot[w]
  BY DEF slot
<1>2. ASSUME NEW p \in Loads, Wrap(Raw(p)) \in ready
      PROVE  slot'[p.version] = Wrap(Raw(p)) <=> slot[p.version] = Wrap(Raw(p))
  <2>1. p.version \in Slots /\ Wrap(Raw(p)) # NoModel
    BY ObjectParts
  <2>2. ~Early(task[p])
    BY <1>2 DEF EarlyUnseen, NotEarly
  <2>3. CASE x = slot[v] \/ p.version # v
    BY <1>1, <2>1, <2>3
  <2>4. CASE x # slot[v] /\ p.version = v
    <3>1. Wrap(Raw(p)) \notin {NoModel, Raw(o), Wrap(Raw(o))}
      BY <2>1, <2>2, <2>4, WrappedApart
    <3> QED  BY <1>1, <2>4, <3>1
  <2> QED  BY <2>3, <2>4
<1>3. ServedIn(slot', ready') = ServedIn(slot, ready)
  BY <1>2 DEF ServedIn
<1> QED  BY <1>3, ServedAre

(* Nor does one that leaves the slots alone and unloads what is in none.    *)
LEMMA ServedUntouched ==
  ASSUME RegistryInv, RegistryInv', slot' = slot, NEW n,
         \A m \in Objects : m # n => (m \in ready <=> m \in ready'),
         \A v \in Slots : slot[v] # n
  PROVE  Served' = Served
<1>1. ServedIn(slot', ready') = ServedIn(slot, ready)
  BY ObjectParts DEF ServedIn
<1> QED  BY <1>1, ServedAre

(* A step of an operation is seen in what it makes of itself only. *)
LEMMA SeenOfTask ==
  ASSUME RegistryInv, NEW o \in Ops, NEW t, task' = [task EXCEPT ![o] = t]
  PROVE  /\ task'[o] = t
         /\ (t.stage \in {"retire", "done", "unretired"} <=> task[o].stage \in {"retire", "done", "unretired"})
              \/ o \notin Loads
              => Loaded' = Loaded
         /\ (Busy(t) <=> Busy(task[o])) \/ o \in Loads => Unloading' = Unloading
         /\ o \in Loads /\ t.stage \in {"retire", "done", "unretired"} => Loaded' = Loaded \cup {o}
         /\ o \notin Loads /\ Busy(t) => Unloading' = Unloading \cup {o}
         /\ o \notin Loads /\ ~Busy(t) => Unloading' = Unloading \ {o}
<1>1. task \in [Ops -> TaskTypes]
  BY DEF RegistryInv, TypeOK, TaskTypes
<1>2. task'[o] = t /\ \A p \in Ops : p # o => task'[p] = task[p]
  BY <1>1
<1>3. Loaded = {p \in Loads : task[p].stage \in {"retire", "done", "unretired"}}
  BY DEF Loaded
<1>4. Loaded' = {p \in Loads : task'[p].stage \in {"retire", "done", "unretired"}}
  BY DEF Loaded
<1>5. Unloading = {p \in Ops \ Loads : Busy(task[p])}
  BY DEF Unloading, Running, Busy
<1>6. Unloading' = {p \in Ops \ Loads : Busy(task'[p])}
  BY DEF Unloading, Running, Busy
<1>7. Loads \subseteq Ops
  BY DEF Loads
<1> QED  BY <1>2, <1>3, <1>4, <1>5, <1>6, <1>7

(* A load that succeeds is the one step of it that is seen.                 *)
LEMMA LoadsAreSeen ==
  ASSUME Orderly, Unmixed, Settled, RegistryInv, RegistryInv', OrderlyInv, EarlyUnseen,
         NEW o \in Ops,
         \/ BeginLoad(o) \/ FinishHook(o) \/ FinishLateHook(o) \/ FinishLoad(o)
         \/ FinishRetire(o) \/ FailLoad(o)
  PROVE  Service!Load(o) \/ Service!LoadUnready(o) \/ UNCHANGED <<Served, Loaded, Unloading>>
<1>t. /\ task \in [Ops -> TaskTypes] /\ task[o] \in TaskTypes /\ Shape(o, task[o], made)
      /\ ready \subseteq Objects
  BY DEF RegistryInv, TypeOK, TaskTypes, TaskShape
<1>1. PICK t, v, x : SlotStep(o, t, v, x)
  BY OperationsMove DEF Operates, Moved
<1>2. task' = [task EXCEPT ![o] = t] /\ task'[o] = t
  BY <1>t, <1>1 DEF SlotStep
<1>3. o \in Loads /\ v = o.version /\ v \in Slots
  <2>1. o \in Loads
    <3>1. BeginLoad(o) => o \in Loads
      BY DEF BeginLoad, Loads
    <3>2. ~BeginLoad(o) => task[o].stage \in {"hook", "late_hook", "load", "retire"}
      BY <1>t, FailuresAssumption
      DEF FinishHook, FinishLateHook, FinishLoad, FinishRetire, FailLoad, TaskTypes, Stages
    <3> QED  BY <1>t, <3>1, <3>2 DEF Shape
  <2> QED  BY <1>1, <2>1 DEF SlotStep
<1>o. /\ Wrap(Raw(o)) \in Objects /\ Wrap(Raw(o)) # NoModel
      /\ Wrap(Raw(o)).version = o.version /\ Wrap(Raw(o)).id = o.id
      /\ Raw(o).id = o.id
  BY <1>3, ObjectParts
<1>w. LoadOwn(o, task[o], slot[v], Fit) /\ LoadOwn(o, t, x, Fit')
  BY <1>1, <1>3 DEF OrderlyInv, LoadsOwn, SlotStep
<1>4. CASE BeginLoad(o) \/ FinishHook(o) \/ FinishLateHook(o) \/ FailLoad(o)
  <2>1. ready' = ready
    BY <1>4 DEF BeginLoad, FinishHook, FinishLateHook, FailLoad
  <2>2. task[o].stage \in {"idle", "hook", "late_hook", "load"} /\ task[o].hooking = {}
    <3>1. task[o].stage \in {"idle", "hook", "late_hook", "load"}
      BY <1>4, FailuresAssumption, <1>t DEF BeginLoad, MayBegin, FinishHook, FinishLateHook, FailLoad, TaskTypes, Stages
    <3> QED  BY <1>t, <3>1 DEF Shape, Idle
  <2>3. /\ t.stage \notin {"retire", "done", "unretired"}
        /\ x = slot[v] \/ {slot[v], x} \subseteq {NoModel, Raw(o), Wrap(Raw(o))}
    <3>0. x = slot[v] \/ x \in {Raw(o), Wrap(Raw(o))}
      BY <1>1, <2>2 DEF SlotStep
    <3>1. CASE BeginLoad(o)
      <4> DEFINE old == Find(single[RegistryToUse], o.version)
                 begun == [Idle EXCEPT !.stage = "hook", !.registry = RegistryToUse, !.model = Raw(o),
                                       !.old = old, !.reload = (old # NoModel)]
      <4>1. begun.stage = "hook" /\ begun.old = old /\ (begun.reload <=> old # NoModel)
        BY DEF Idle
      <4>2. \/ task' = [task EXCEPT ![o] = begun]
            \/ task' = [task EXCEPT ![o].stage = "failed"]
        BY <3>1 DEF BeginLoad
      <4>3. old = slot[v]
        <5>1. single[RegistryToUse] = Current
          BY <3>1, RegistryUsed
        <5> QED  BY <1>3, <5>1, FindsSlot
      <4> HIDE DEF begun, old
      <4>4. CASE task' = [task EXCEPT ![o] = begun]
        <5>1. t.stage = "hook" /\ t.old = slot[v] /\ (t.reload <=> slot[v] # NoModel)
          BY <1>t, <1>2, <4>1, <4>3, <4>4
        <5>2. slot[v] # NoModel => x = slot[v]
          BY <1>w, <5>1 DEF LoadOwn
        <5> QED  BY <3>0, <5>1, <5>2
      <4>5. CASE task' = [task EXCEPT ![o].stage = "failed"]
        <5>1. t.stage = "failed"
          BY <1>t, <1>2, <4>5 DEF TaskTypes
        <5>2. x.id # o.id
          BY <1>w, <5>1 DEF LoadOwn
        <5> QED  BY <1>o, <3>0, <5>1, <5>2
      <4> QED  BY <4>2, <4>4, <4>5
    <3>2. CASE FinishHook(o) \/ FinishLateHook(o)
      <4>1. /\ t.stage \in {"late_hook", "load"} /\ t.reload = task[o].reload /\ t.old = task[o].old
            /\ task[o].stage \in {"hook", "late_hook"}
        BY <1>t, <1>2, <3>2 DEF FinishHook, FinishLateHook, TaskTypes
      <4>2. CASE t.reload
        BY <1>w, <4>1, <4>2 DEF LoadOwn
      <4>3. CASE ~t.reload
        BY <1>w, <3>0, <4>1, <4>3 DEF LoadOwn
      <4> QED  BY <4>2, <4>3
    <3>3. CASE FailLoad(o)
      <4>1. CASE task[o].reload
        <5>1. t.stage = "failed"
          BY <1>t, <1>2, <3>3, <4>1 DEF FailLoad, TaskTypes
        <5>2. x.id # o.id
          BY <1>w, <5>1 DEF LoadOwn
        <5> QED  BY <1>o, <3>0, <5>1, <5>2
      <4>2. CASE ~task[o].reload
        <5>1. t.stage = "unload"
          BY <1>t, <1>2, <3>3, <4>2 DEF FailLoad, TaskTypes
        <5>2. task[o].stage \in {"hook", "late_hook", "load"}
          BY <1>t, <3>3, FailuresAssumption DEF FailLoad, TaskTypes, Stages
        <5>3. slot[v] \in {Raw(o), Wrap(Raw(o))}
          BY <1>t, <1>w, <4>2, <5>2 DEF LoadOwn, Shape
        <5> QED  BY <3>0, <5>1, <5>3
      <4> QED  BY <4>1, <4>2
    <3> QED  BY <1>4, <3>1, <3>2, <3>3
  <2>4. Early(task[o])
    BY <2>2 DEF Early
  <2>5. slot' = [slot EXCEPT ![v] = x]
    BY <1>1 DEF SlotStep
  <2>6. Served' = Served
    BY <1>3, <2>1, <2>3, <2>4, <2>5, ServedStays
  <2>7. Loaded' = Loaded /\ Unloading' = Unloading
    BY <1>2, <1>3, <2>2, <2>3, SeenOfTask
  <2> QED  BY <2>6, <2>7
<1>5. CASE FinishRetire(o)
  <2>0. PICK st \in {"done", "unretired"} : Retired(o, st)
    BY <1>5, RetireEnds
  <2>1. /\ task[o].stage = "retire" /\ t.stage = st /\ Goes(task[o].old)
        /\ UNCHANGED <<single, entry>>
    BY <1>t, <1>2, <2>0 DEF Retired, TaskTypes
  <2>2. Current' = Current
    BY <2>1 DEF Current
  <2>3. slot' = slot
    BY <2>2 DEF slot
  <2>4. LoadOwn(o, task[o], slot[o.version], Fit) /\ task[o].reload /\ task[o].old \in Objects
    BY <1>t, <1>3, <2>1 DEF OrderlyInv, LoadsOwn, Shape, TaskTypes
  <2>5. slot[o.version] # task[o].old /\ task[o].old.version = o.version
    BY <1>t, <1>o, <2>1, <2>4 DEF LoadOwn, Shape
  <2>6. \A w \in Slots : slot[w] # task[o].old
    BY <2>4, <2>5, SlotFacts, ObjectParts
  <2>7. Served' = Served
    BY <2>1, <2>3, <2>6, ServedUntouched DEF Goes
  <2>8. Loaded' = Loaded /\ Unloading' = Unloading
    BY <1>2, <1>3, <2>1, SeenOfTask
  <2> QED  BY <2>7, <2>8
<1>6. CASE FinishLoad(o)
  <2>1. /\ task[o].stage = "load" /\ task[o].model = Wrap(Raw(o))
        /\ t.stage = IF task[o].reload THEN "retire" ELSE "done"
        /\ t.model = Wrap(Raw(o))
    BY <1>t, <1>2, <1>6 DEF FinishLoad, TaskTypes, Shape
  <2>r. /\ Comes(Wrap(Raw(o)))
        /\ Wrap(Raw(o)) \in ready' \/ (o \in Unready /\ Wrap(Raw(o)) \notin ready')
    BY <1>3, <1>6, <2>1, LoadEnds
  <2>2. x = Wrap(Raw(o))
    <3>1. CASE task[o].reload
      BY <1>w, <2>1, <3>1 DEF LoadOwn
    <3>2. CASE ~task[o].reload
      <4>1. UNCHANGED <<single, entry>>
        BY <1>6, <3>2 DEF FinishLoad
      <4>2. Current' = Current
        BY <4>1 DEF Current
      <4>3. slot' = slot
        BY <4>2 DEF slot
      <4>4. slot'[v] = x
        BY <1>1 DEF slot, SlotStep
      <4>5. slot[o.version] = task[o].model
        BY <1>3, <2>1, <3>2 DEF OrderlyInv, LoadsOwn, LoadOwn
      <4> QED  BY <1>3, <2>1, <4>3, <4>4, <4>5
    <3> QED  BY <3>1, <3>2
  <2>3. o.version \in Slots /\ slot'[o.version] = Wrap(Raw(o)) /\ \A w \in Slots : w # o.version => slot'[w] = slot[w]
    BY <1>1, <1>3, <2>2 DEF SlotStep, slot
  <2>4. ASSUME NEW p \in Loads
        PROVE  p \in ServedIn(slot', ready') <=>
                 \/ p = o /\ Wrap(Raw(o)) \in ready'
                 \/ p \in ServedIn(slot, ready) /\ p.version # o.version
    <3>1. p.version \in Slots /\ (Wrap(Raw(p)) = Wrap(Raw(o)) => p = o) /\ Wrap(Raw(p)) \in Objects
      BY <1>3, ObjectParts, WrappedApart
    <3>2. p # o => (Wrap(Raw(p)) \in ready <=> Wrap(Raw(p)) \in ready')
      BY <2>r, <3>1 DEF Comes
    <3>3. CASE p.version = o.version
      BY <2>3, <3>1, <3>3 DEF ServedIn
    <3>4. CASE p.version # o.version
      BY <2>3, <3>1, <3>2, <3>4 DEF ServedIn
    <3> QED  BY <3>3, <3>4
  <2>5. Loaded' = Loaded \cup {o} /\ Unloading' = Unloading /\ o \notin Loaded
    BY <1>2, <1>3, <2>1, SeenOfTask DEF Loaded
  <2>6. CASE Wrap(Raw(o)) \in ready'
    <3>1. Served' = {p \in Served : p.version # o.version} \cup {o}
      BY <1>3, <2>4, <2>6, ServedAre DEF ServedIn
    <3> QED  BY <2>5, <3>1 DEF Service!Load
  <2>7. CASE Wrap(Raw(o)) \notin ready'
    <3>1. Served' = {p \in Served : p.version # o.version}
      BY <2>4, <2>7, ServedAre DEF ServedIn
    <3> QED  BY <2>r, <2>5, <2>7, <3>1 DEF Service!LoadUnready
  <2> QED  BY <2>6, <2>7
<1> QED  BY <1>4, <1>5, <1>6

(* A load that fails is not seen to take its model out again. *)
LEMMA FailuresUnseen ==
  ASSUME Orderly, Unmixed, Settled, RegistryInv, RegistryInv', OrderlyInv, EarlyUnseen,
         NEW o \in Loads,
         \/ \E n \in task[o].hooking : FinishUnloadHooks(o, n)
         \/ \E n \in task[o].stopping : FinishModelUnload(o, n)
         \/ EndUnload(o)
  PROVE  UNCHANGED <<Served, Loaded, Unloading>>
<1>t. /\ task \in [Ops -> TaskTypes] /\ task[o] \in TaskTypes /\ o \in Ops
  BY DEF RegistryInv, TypeOK, TaskTypes, Loads
<1>1. PICK v \in Slots : v = o.version
  BY OpsAssumption DEF Slots, Loads
<1>2. LoadOwn(o, task[o], slot[v], Fit)
  BY <1>1 DEF OrderlyInv, LoadsOwn
<1>3. task[o].stage = "unload"
  BY <1>2 DEF LoadOwn, EndUnload
<1>4. /\ task[o].hooking \cup task[o].stopping \subseteq {Raw(o), Wrap(Raw(o))}
      /\ task[o].stopping # {} => slot[v] = NoModel
      /\ task[o].hooking # {} => slot[v] \in task[o].hooking
  BY <1>2, <1>3 DEF LoadOwn
<1>5. ASSUME NEW n \in task[o].stopping, FinishModelUnload(o, n)
      PROVE  Served' = Served /\ \E t : task' = [task EXCEPT ![o] = t] /\ t.stage \in {"unload", "failed"}
  <2>1. PICK st \in {task[o].stage, "failed"} : Stopped(o, n, st)
    BY <1>t, <1>5, UnloadEnds
  <2>2. Goes(n) /\ UNCHANGED <<single, entry>>
    BY <2>1 DEF Stopped
  <2>3. Current' = Current
    BY <2>2 DEF Current
  <2>4. slot' = slot
    BY <2>3 DEF slot
  <2>5. n.version = v /\ n # NoModel /\ slot[v] = NoModel
    BY <1>1, <1>4, <1>5, ObjectParts
  <2>6. \A w \in Slots : slot[w] # n
    BY <2>5, SlotFacts
  <2>7. Served' = Served
    BY <2>2, <2>4, <2>6, ServedUntouched DEF Goes
  <2>8. PICK t : t = [task[o] EXCEPT !.stopping = @ \ {n}, !.stage = st]
    OBVIOUS
  <2>9. task' = [task EXCEPT ![o] = t] /\ t.stage = st
    BY <1>t, <2>1, <2>8 DEF Stopped, TaskTypes
  <2> QED  BY <1>3, <2>7, <2>9
<1>6. ASSUME NEW n \in task[o].hooking, FinishUnloadHooks(o, n)
      PROVE  Served' = Served /\ \E t : task' = [task EXCEPT ![o] = t] /\ t.stage \in {"unload", "failed"}
  <2>1. slot[v] = n /\ n.version = v
    BY <1>1, <1>2, <1>3, <1>4, <1>6, ObjectParts DEF LoadOwn
  <2>2. /\ slot' = [slot EXCEPT ![v] = NoModel] /\ ready' = ready
        /\ task' = [task EXCEPT ![o] = [task[o] EXCEPT !.hooking = @ \ {n}, !.stopping = @ \cup {n}]]
    BY <1>t, <1>6, <2>1, HooksEmptySlot
  <2>3. Early(task[o]) /\ {slot[v], NoModel} \subseteq {NoModel, Raw(o), Wrap(Raw(o))}
    BY <1>3, <1>4, <1>6 DEF Early
  <2>4. Served' = Served
    BY <1>t, <2>2, <2>3, ServedStays
  <2>5. PICK t : t = [task[o] EXCEPT !.hooking = @ \ {n}, !.stopping = @ \cup {n}]
    OBVIOUS
  <2>6. task' = [task EXCEPT ![o] = t] /\ t.stage = "unload"
    BY <1>t, <1>3, <2>2, <2>5 DEF TaskTypes
  <2> QED  BY <2>4, <2>6
<1>7. ASSUME EndUnload(o)
      PROVE  Served' = Served /\ \E t : task' = [task EXCEPT ![o] = t] /\ t.stage \in {"unload", "failed"}
  <2>1. task' = [task EXCEPT ![o].stage = "failed"] /\ UNCHANGED <<single, entry, ready>>
    BY <1>7 DEF EndUnload, Loads
  <2>2. Current' = Current
    BY <2>1 DEF Current
  <2>3. slot' = slot
    BY <2>2 DEF slot
  <2>4. Served' = Served
    BY <2>1, <2>3, ServedAre
  <2>5. PICK t : t = [task[o] EXCEPT !.stage = "failed"]
    OBVIOUS
  <2>6. task' = [task EXCEPT ![o] = t] /\ t.stage = "failed"
    BY <1>t, <2>1, <2>5 DEF TaskTypes
  <2> QED  BY <2>4, <2>6
<1>8. PICK t : Served' = Served /\ task' = [task EXCEPT ![o] = t] /\ t.stage \in {"unload", "failed"}
  BY <1>5, <1>6, <1>7
<1>9. Loaded' = Loaded /\ Unloading' = Unloading
  BY <1>t, <1>3, <1>8, SeenOfTask
<1> QED  BY <1>8, <1>9

(* An unload whose hooks have all ended has nothing left to take out.       *)
LEMMA NothingCovered ==
  ASSUME RegistryInv, RegistryInv', NEW o \in Ops \ Loads,
         UnloadOwn(o, task[o], slot), Busy(task[o]), task[o].hooking = {}
  PROVE  \A p \in Served : ~Service!Covers(o, p)
<1> SUFFICES ASSUME NEW p \in Served, o.kind = "purge" \/ o.version = p.version
             PROVE  FALSE
  BY DEF Service!Covers
<1>k. o.kind \in {"unload", "purge"} /\ o.version \in Slots
  BY OpsAssumption DEF Loads, Slots
<1>1. p \in Loads /\ slot[p.version] = Wrap(Raw(p))
  BY ServedAre DEF ServedIn
<1>2. slot[p.version] # NoModel /\ p.version \in Slots
  BY <1>1, ObjectParts
<1> QED  BY <1>k, <1>2 DEF UnloadOwn

(* An unload is seen to begin, to take each model out, and to end.          *)
LEMMA UnloadsAreSeen ==
  ASSUME Orderly, Unmixed, Settled, RegistryInv, RegistryInv', OrderlyInv, EarlyUnseen,
         NEW o \in Ops \ Loads,
         \/ BeginUnload(o)
         \/ \E n \in task[o].hooking : FinishUnloadHooks(o, n)
         \/ \E n \in task[o].stopping : FinishModelUnload(o, n)
         \/ EndUnload(o)
  PROVE  Service!Next \/ UNCHANGED <<Served, Loaded, Unloading>>
<1>t. /\ task \in [Ops -> TaskTypes] /\ task[o] \in TaskTypes /\ o \notin Loads /\ o \notin Loaded
      /\ ready \subseteq Objects /\ Shape(o, task[o], made)
  BY DEF RegistryInv, TypeOK, TaskTypes, Loaded, TaskShape
<1>k. o.kind \in {"unload", "purge"} /\ o.version \in Slots
  BY OpsAssumption DEF Loads, Slots
<1>1. PICK t, v, x : SlotStep(o, t, v, x)
  BY OperationsMove DEF Operates, Moved
<1>2. task' = [task EXCEPT ![o] = t] /\ task'[o] = t
  BY <1>t, <1>1 DEF SlotStep
<1>3. UnloadOwn(o, task[o], slot)
  BY DEF OrderlyInv, UnloadsOwn
<1>4. o \in Unloading <=> Busy(task[o])
  BY DEF Unloading, Running, Busy
<1>5. CASE BeginUnload(o)
  <2>1. task[o].stage = "idle" /\ task[o] = Idle
    BY <1>t, <1>5 DEF BeginUnload, MayBegin, Shape
  <2>2. t.stage = "unload" /\ ready' = ready
    <3> DEFINE targets == IF o.kind = "purge" THEN Models(single[entry])
                          ELSE {Find(single[entry], o.version)} \ {NoModel}
               begun == [Idle EXCEPT !.stage = "unload", !.registry = entry, !.hooking = targets]
    <3>1. begun.stage = "unload"
      BY DEF Idle
    <3>2. task' = [task EXCEPT ![o] = begun] /\ ready' = ready
      BY <1>5 DEF BeginUnload
    <3> HIDE DEF begun
    <3> QED  BY <1>t, <1>2, <3>1, <3>2
  <2>3. ~Busy(task[o]) /\ Busy(t)
    BY <2>1, <2>2 DEF Busy, Idle
  <2>4. x = slot[v] /\ v \in Slots /\ slot' = [slot EXCEPT ![v] = x]
    BY <1>t, <1>1, <2>1 DEF SlotStep, Idle
  <2>5. Served' = Served
    BY <2>2, <2>4, ServedStays
  <2>6. Loaded' = Loaded /\ Unloading' = Unloading \cup {o} /\ o \notin Unloading
    BY <1>2, <1>4, <2>3, SeenOfTask
  <2> QED  BY <2>5, <2>6 DEF Service!Next, Service!BeginUnload
<1>6. ASSUME NEW n \in task[o].hooking, FinishUnloadHooks(o, n)
      PROVE  Service!Next \/ UNCHANGED <<Served, Loaded, Unloading>>
  <2>1. slot[n.version] = n /\ Busy(task[o])
    BY <1>3, <1>6 DEF UnloadOwn, Busy
  <2>2. /\ slot' = [slot EXCEPT ![n.version] = NoModel]
        /\ task' = [task EXCEPT ![o] = [task[o] EXCEPT !.hooking = @ \ {n}, !.stopping = @ \cup {n}]]
        /\ ready' = ready /\ n \in Objects /\ n.version \in Slots /\ n # NoModel
    BY <1>6, <2>1, HooksEmptySlot, ObjectParts
  <2>3. slot'[n.version] = NoModel /\ \A w \in Slots : w # n.version => slot'[w] = slot[w]
    BY <2>2 DEF slot
  <2>4. Busy(t)
    <3>1. t = [task[o] EXCEPT !.hooking = @ \ {n}, !.stopping = @ \cup {n}]
      BY <1>t, <1>2, <2>2
    <3>2. n \in t.stopping
      BY <1>t, <3>1 DEF TaskTypes
    <3> QED  BY <3>2 DEF Busy
  <2>5. Loaded' = Loaded /\ Unloading' = Unloading /\ o \in Unloading
    BY <1>t, <1>2, <1>4, <2>1, <2>4, SeenOfTask
  <2>6. ASSUME NEW q \in Loads
        PROVE  q \in ServedIn(slot', ready') <=> q \in ServedIn(slot, ready) /\ n # Wrap(Raw(q))
    <3>1. q.version \in Slots /\ Wrap(Raw(q)) # NoModel /\ Wrap(Raw(q)).version = q.version
      BY ObjectParts
    <3> QED  BY <2>1, <2>2, <2>3, <3>1 DEF ServedIn
  <2>7. CASE \E p \in ServedIn(slot, ready) : n = Wrap(Raw(p))
    <3>1. PICK p \in Loads : n = Wrap(Raw(p)) /\ p \in ServedIn(slot, ready)
      BY <2>7 DEF ServedIn
    <3>2. n.version = p.version /\ \A q \in Loads : n = Wrap(Raw(q)) => q = p
      BY <3>1, ObjectParts, WrappedApart
    <3>3. p \in Served /\ Served' = Served \ {p}
      BY <2>6, <3>1, <3>2, ServedAre DEF ServedIn
    <3>4. o.kind = "purge" \/ o.version = p.version \/ o.version = 0
      BY <1>k, <1>3, <1>6, <2>1, <3>2 DEF UnloadOwn, Unversioned
    <3>5. Service!Unload(o, p)
      BY <2>5, <3>3, <3>4 DEF Service!Unload, Service!Covers
    <3> QED  BY <3>1, <3>5 DEF Service!Next
  <2>8. CASE ~\E p \in ServedIn(slot, ready) : n = Wrap(Raw(p))
    <3>1. Served' = Served
      BY <2>6, <2>8, ServedAre DEF ServedIn
    <3> QED  BY <2>5, <3>1
  <2> QED  BY <2>7, <2>8
<1>7. ASSUME NEW n \in task[o].stopping, FinishModelUnload(o, n)
      PROVE  Service!Next \/ UNCHANGED <<Served, Loaded, Unloading>>
  <2>1. slot[n.version] = NoModel /\ n \in Objects /\ Busy(task[o])
    BY <1>t, <1>3, <1>7 DEF UnloadOwn, TaskTypes, Busy
  <2>0. PICK st \in {task[o].stage, "failed"} : Stopped(o, n, st)
    BY <1>7, UnloadEnds
  <2>9. PICK u : u = [task[o] EXCEPT !.stopping = @ \ {n}, !.stage = st]
    OBVIOUS
  <2>10. u.hooking = task[o].hooking
    BY <1>t, <2>9 DEF TaskTypes
  <2>11. Goes(n) /\ UNCHANGED <<single, entry>> /\ task' = [task EXCEPT ![o] = u]
    BY <2>0, <2>9 DEF Stopped
  <2>12. t = u
    BY <1>t, <1>2, <2>11
  <2>2. Goes(n) /\ UNCHANGED <<single, entry>> /\ t.hooking = task[o].hooking
    BY <2>10, <2>11, <2>12
  <2>3. Current' = Current
    BY <2>2 DEF Current
  <2>4. slot' = slot
    BY <2>3 DEF slot
  <2>5. \A w \in Slots : slot[w] # n
    BY <2>1, SlotFacts, ObjectParts
  <2>6. Served' = Served
    BY <2>2, <2>4, <2>5, ServedUntouched DEF Goes
  <2>7. CASE Busy(t)
    <3>1. Loaded' = Loaded /\ Unloading' = Unloading
      BY <1>t, <1>2, <2>1, <2>7, SeenOfTask
    <3> QED  BY <2>6, <3>1
  <2>8. CASE ~Busy(t)
    <3>1. Loaded' = Loaded /\ Unloading' = Unloading \ {o} /\ o \in Unloading
      BY <1>t, <1>2, <1>4, <2>1, <2>8, SeenOfTask
    <3>2. task[o].hooking = {}
      BY <2>2, <2>8 DEF Busy
    <3>3. \A p \in Served : ~Service!Covers(o, p)
      BY <1>3, <2>1, <3>2, NothingCovered
    <3>4. Service!EndUnload(o)
      BY <2>6, <3>1, <3>3 DEF Service!EndUnload
    <3> QED  BY <3>4 DEF Service!Next
  <2> QED  BY <2>7, <2>8
<1>8. CASE EndUnload(o)
  <2>1. /\ task[o].stage = "unload" /\ task[o].hooking = {} /\ task[o].stopping = {}
        /\ ready' = ready
    BY <1>8 DEF EndUnload
  <2>2. PICK st \in {"done", "failed"} : task' = [task EXCEPT ![o].stage = st]
    BY <1>8, Zenon DEF EndUnload
  <2>3. t.stage \in {"done", "failed"} /\ t.hooking = {} /\ t.stopping = {}
    BY <1>t, <1>2, <2>1, <2>2 DEF TaskTypes
  <2>4. Busy(task[o]) /\ ~Busy(t)
    BY <2>1, <2>3 DEF Busy
  <2>5. Served' = Served
    <3>1. x = slot[v] /\ v \in Slots /\ slot' = [slot EXCEPT ![v] = x]
      BY <1>t, <1>1, <2>1 DEF SlotStep
    <3> QED  BY <2>1, <3>1, ServedStays
  <2>6. Loaded' = Loaded /\ Unloading' = Unloading \ {o} /\ o \in Unloading
    BY <1>t, <1>2, <1>4, <2>4, SeenOfTask
  <2>7. \A p \in Served : ~Service!Covers(o, p)
    BY <1>3, <2>1, <2>4, NothingCovered
  <2>8. Service!EndUnload(o)
    BY <2>5, <2>6, <2>7 DEF Service!EndUnload
  <2> QED  BY <2>8 DEF Service!Next
<1> QED  BY <1>5, <1>6, <1>7, <1>8

LEMMA ServiceStep ==
  ASSUME Orderly, Unmixed, Settled
  PROVE  RegistryInv /\ RegistryInv' /\ OrderlyInv /\ EarlyUnseen /\ [Next]_vars
           => [Service!Next]_<<Served, Loaded, Unloading>>
<1> SUFFICES ASSUME RegistryInv, RegistryInv', OrderlyInv, EarlyUnseen, [Next]_vars
             PROVE  Service!Next \/ UNCHANGED <<Served, Loaded, Unloading>>
  OBVIOUS
<1>1. ASSUME NEW o \in Ops, Operates(o)
      PROVE  Service!Next \/ UNCHANGED <<Served, Loaded, Unloading>>
  <2>1. CASE \/ BeginLoad(o) \/ FinishHook(o) \/ FinishLateHook(o) \/ FinishLoad(o)
             \/ FinishRetire(o) \/ FailLoad(o)
    <3>1. Service!Load(o) \/ Service!LoadUnready(o) \/ UNCHANGED <<Served, Loaded, Unloading>>
      BY <2>1, LoadsAreSeen
    <3>2. Service!Load(o) \/ Service!LoadUnready(o) => o \in Loads
      <4>1. o \notin Loads => Loaded' = Loaded
        <5>1. PICK t, v, x : SlotStep(o, t, v, x)
          BY <1>1, OperationsMove DEF Moved
        <5> QED  BY <5>1, SeenOfTask DEF SlotStep
      <4> QED  BY <4>1 DEF Service!Load, Service!LoadUnready
    <3> QED  BY <3>1, <3>2 DEF Service!Next
  <2>2. CASE BeginUnload(o)
    <3>1. o \notin Loads
      BY <2>2 DEF BeginUnload, Loads
    <3> QED  BY <2>2, <3>1, UnloadsAreSeen
  <2>3. CASE \/ \E n \in task[o].hooking : FinishUnloadHooks(o, n)
             \/ \E n \in task[o].stopping : FinishModelUnload(o, n)
             \/ EndUnload(o)
    <3>1. CASE o \in Loads
      BY <2>3, <3>1, FailuresUnseen
    <3>2. CASE o \notin Loads
      BY <2>3, <3>2, UnloadsAreSeen
    <3> QED  BY <3>1, <3>2
  <2> QED  BY <1>1, <2>1, <2>2, <2>3 DEF Operates
<1>2. CASE ReadDefault \/ UNCHANGED vars
  <2>1. UNCHANGED <<made, entry, ready, task>> /\ slot' = slot
    BY <1>2, ReadsMoveNothing
  <2>2. Served' = Served
    BY <2>1, ServedAre
  <2> QED  BY <2>1, <2>2 DEF Loaded, Unloading, Running
<1> QED  BY <1>1, <1>2 DEF Next, Operates

(* EarlyUnseen is kept by every step.                                       *)
LEMMA EarlyUnseenNext ==
  ASSUME Orderly, Unmixed, RegistryInv, RegistryInv', OrderlyInv, EarlyUnseen, [Next]_vars
  PROVE  EarlyUnseen'
<1>1. ASSUME NEW o \in Ops, Operates(o)
      PROVE  EarlyUnseen'
  BY <1>1, EarlyUnseenStep
<1>2. CASE ReadDefault \/ UNCHANGED vars
  <2>1. UNCHANGED <<ready, task>>
    BY <1>2 DEF ReadDefault, vars
  <2> QED  BY <2>1 DEF EarlyUnseen, NotEarly
<1> QED  BY <1>1, <1>2 DEF Next, Operates

(* A registry whose operations do not overlap implements RegistryService:    *)
(* however many steps a load takes, clients see one, in which its model      *)
(* takes the place of its version's (and is served unless its own load()     *)
(* returned False), and none of a load that fails before that                *)
(* (registry.py:177, :195); an unload that has ended, also one that raises,  *)
(* has left nothing of what it covers (registry.py:204, :213).              *)
THEOREM ServesAtOnce == Orderly /\ Unmixed /\ Settled => (Spec => LoadsAtOnce)
<1> SUFFICES ASSUME Orderly, Unmixed, Settled  PROVE Spec => LoadsAtOnce
  OBVIOUS
<1>1. Init => Service!Init /\ EarlyUnseen
  <2> SUFFICES ASSUME Init  PROVE Service!Init /\ EarlyUnseen
    OBVIOUS
  <2>1. ready = {} /\ \A o \in Ops : task[o] = Idle
    BY DEF Init
  <2>2. Served = {} /\ Loaded = {} /\ Unloading = {}
    BY <2>1 DEF Served, Loaded, Unloading, Running, Loads, Idle
  <2>3. EarlyUnseen
    BY <2>1 DEF EarlyUnseen, Idle
  <2> QED  BY <2>2, <2>3 DEF Service!Init
<1>2. RegistryInv /\ RegistryInv' /\ OrderlyInv /\ EarlyUnseen /\ [Next]_vars => EarlyUnseen'
  BY EarlyUnseenNext
<1>3. RegistryInv /\ RegistryInv' /\ OrderlyInv /\ EarlyUnseen /\ [Next]_vars => [Service!Next]_(Service!vars)
  BY ServiceStep DEF Service!vars
<1>4. Spec => []RegistryInv /\ []OrderlyInv
  BY OrderlyAlways
<1> QED  BY <1>1, <1>2, <1>3, <1>4, PTL DEF Spec, LoadsAtOnce, Service!Spec
=============================================================================
