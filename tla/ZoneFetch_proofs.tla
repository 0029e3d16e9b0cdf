-------------------------- MODULE ZoneFetch_proofs --------------------------
(***************************************************************************)
(* Proofs about ZoneFetch, for every server, every assignment of zones and  *)
(* every order in which the reads are answered or refused.                  *)
(*                                                                          *)
(* Each counter of the code bounds a set from above: the parts whose answer *)
(* is still out, and the parts that are owed to the result.  A counter that *)
(* reaches zero thus says that nothing is out and nothing is owed.          *)
(***************************************************************************)
EXTENDS ZoneFetch, FiniteSetTheorems, TLAPS

----------------------------------------------------------------------------
(* Finite sets.                                                             *)

(* A bound of a finite set bounds its subsets, ...                          *)
LEMMA FewerOf ==
  ASSUME NEW S, IsFiniteSet(S), NEW T \in SUBSET S, NEW n \in Nat, Cardinality(S) <= n
  PROVE  Cardinality(T) \in Nat /\ Cardinality(T) <= n /\ IsFiniteSet(T)
<1>1. IsFiniteSet(T) /\ Cardinality(T) <= Cardinality(S)
  BY FS_Subset
<1>2. Cardinality(T) \in Nat /\ Cardinality(S) \in Nat
  BY <1>1, FS_CardinalityType
<1>3. QED  BY <1>1, <1>2

(* ... by one less if an element is gone, ...                               *)
LEMMA OneLessOf ==
  ASSUME NEW S, IsFiniteSet(S), NEW x \in S, NEW T \in SUBSET (S \ {x}),
         NEW n \in Nat, Cardinality(S) <= n
  PROVE  Cardinality(T) \in Nat /\ Cardinality(T) <= n - 1 /\ n >= 1
<1>1. IsFiniteSet(S \ {x}) /\ Cardinality(S \ {x}) = Cardinality(S) - 1
  BY FS_RemoveElement
<1>2. Cardinality(S) \in Nat /\ Cardinality(S \ {x}) \in Nat
  BY <1>1, FS_CardinalityType
<1>3. IsFiniteSet(T) /\ Cardinality(T) <= Cardinality(S \ {x})
  BY <1>1, FS_Subset
<1>4. Cardinality(T) \in Nat
  BY <1>3, FS_CardinalityType
<1>5. QED  BY <1>1, <1>2, <1>3, <1>4

(* ... and a set bounded by zero is empty.                                  *)
LEMMA NoneOf ==
  ASSUME NEW S, IsFiniteSet(S), Cardinality(S) <= 0
  PROVE  S = {}
<1>1. Cardinality(S) \in Nat
  BY FS_CardinalityType
<1>2. Cardinality(S) = 0
  BY <1>1
<1>3. QED  BY <1>2, FS_EmptySet

----------------------------------------------------------------------------
(* Reads.                                                                   *)

(* Reads of different places are different.                                 *)
LEMMA ReadsDiffer ==
  /\ \A k : ZoneRead(k) # VolunteerRead
  /\ \A k, id : RequestRead(k, id) # VolunteerRead
  /\ \A k, id, n, i : ItemRead(k, id, n, i) # VolunteerRead
  /\ \A k, id, n : ElderlyRead(k, id, n) # VolunteerRead
  /\ \A k, j : ZoneRead(k) = ZoneRead(j) => k = j
  /\ \A k, j, d : ZoneRead(k) # RequestRead(j, d)
  /\ \A k, j, d, n, i : ZoneRead(k) # ItemRead(j, d, n, i)
  /\ \A k, j, d, n : ZoneRead(k) # ElderlyRead(j, d, n)
  /\ \A k, id, j, d : RequestRead(k, id) = RequestRead(j, d) => k = j /\ id = d
  /\ \A k, id, j, d, n, i : RequestRead(k, id) # ItemRead(j, d, n, i)
  /\ \A k, id, j, d, n : RequestRead(k, id) # ElderlyRead(j, d, n)
  /\ \A k, id, n, i, j, d, m, h : ItemRead(k, id, n, i) = ItemRead(j, d, m, h)
       => k = j /\ id = d /\ n = m /\ i = h
  /\ \A k, id, n, i, j, d, m : ItemRead(k, id, n, i) # ElderlyRead(j, d, m)
  /\ \A k, id, n, j, d, m : ElderlyRead(k, id, n) = ElderlyRead(j, d, m)
       => k = j /\ id = d /\ n = m
<1>1. VolunteerRead.kind = "volunteer"
  BY DEF VolunteerRead
<1>2. \A k : ZoneRead(k).kind = "zone" /\ ZoneRead(k).at = k
  BY DEF ZoneRead
<1>3. \A k, id : /\ RequestRead(k, id).kind = "request"
                 /\ RequestRead(k, id).at = k /\ RequestRead(k, id).id = id
  BY DEF RequestRead
<1>4. \A k, id, n, i :
        /\ ItemRead(k, id, n, i).kind = "item"
        /\ ItemRead(k, id, n, i).at = k /\ ItemRead(k, id, n, i).id = id
        /\ ItemRead(k, id, n, i).node = n /\ ItemRead(k, id, n, i).item = i
  BY DEF ItemRead
<1>5. \A k, id, n :
        /\ ElderlyRead(k, id, n).kind = "elderly"
        /\ ElderlyRead(k, id, n).at = k /\ ElderlyRead(k, id, n).id = id
        /\ ElderlyRead(k, id, n).node = n
  BY DEF ElderlyRead
<1>6. /\ \A k : ZoneRead(k) # VolunteerRead
      /\ \A k, id : RequestRead(k, id) # VolunteerRead
      /\ \A k, id, n, i : ItemRead(k, id, n, i) # VolunteerRead
      /\ \A k, id, n : ElderlyRead(k, id, n) # VolunteerRead
  BY <1>1, <1>2, <1>3, <1>4, <1>5
<1>7. /\ \A k, j : ZoneRead(k) = ZoneRead(j) => k = j
      /\ \A k, j, d : ZoneRead(k) # RequestRead(j, d)
      /\ \A k, j, d, n, i : ZoneRead(k) # ItemRead(j, d, n, i)
      /\ \A k, j, d, n : ZoneRead(k) # ElderlyRead(j, d, n)
  BY <1>2, <1>3, <1>4, <1>5
<1>8. /\ \A k, id, j, d : RequestRead(k, id) = RequestRead(j, d) => k = j /\ id = d
      /\ \A k, id, j, d, n, i : RequestRead(k, id) # ItemRead(j, d, n, i)
      /\ \A k, id, j, d, n : RequestRead(k, id) # ElderlyRead(j, d, n)
  BY <1>3, <1>4, <1>5
<1>9. \A k, id, n, i, j, d, m, h : ItemRead(k, id, n, i) = ItemRead(j, d, m, h)
        => k = j /\ id = d /\ n = m /\ i = h
  BY <1>4
<1>10. \A k, id, n, i, j, d, m : ItemRead(k, id, n, i) # ElderlyRead(j, d, m)
  BY <1>4, <1>5
<1>11. \A k, id, n, j, d, m : ElderlyRead(k, id, n) = ElderlyRead(j, d, m)
         => k = j /\ id = d /\ n = m
  BY <1>5
<1>12. QED  BY <1>6, <1>7, <1>8, <1>9, <1>10, <1>11

----------------------------------------------------------------------------
(* The inductive invariant.                                                 *)

ZoneAsked(k) == ZoneRead(k) \in pending
RequestAsked(k, id) == RequestRead(k, id) \in pending
ItemAsked(k, id, node, item) == ItemRead(k, id, node, item) \in pending
ElderlyAsked(k, id, node) == ElderlyRead(k, id, node) \in pending

(* The requests of a zone with a read under way.                            *)
Sought(k) ==
  {id \in Requests :
     \/ RequestAsked(k, id)
     \/ \E node \in Nodes : \/ ElderlyAsked(k, id, node)
                            \/ \E item \in Items : ItemAsked(k, id, node, item)}

AlwaysThere(id) == \A node \in versions[id] : IsReadable(node)

(* The requests of a zone that have been there all the time and are owed.   *)
Unheard(k) ==
  {id \in Requests : /\ ZoneOf[id] = asked[k] /\ AlwaysThere(id)
                     /\ \A c \in requests[k] : c.id # id}

ListedZones == {zoneRequestsArr[j].zone : j \in DOMAIN zoneRequestsArr}

(* The zone had a request some time, or all the time.                       *)
Existed(zone) ==
  \E id \in Requests : ZoneOf[id] = zone /\ \E node \in versions[id] : node # Nothing
AlwaysExisted(zone) ==
  \E id \in Requests : ZoneOf[id] = zone /\ Nothing \notin versions[id]

(* A zone whose read is out, or that is owed.                               *)
Open(k) ==
  \/ ZoneAsked(k) \/ reqCounter[k] # 0 \/ Unheard(k) # {}
  \/ asked[k] \notin ListedZones /\ AlwaysExisted(asked[k])

OpenZones == {k \in DOMAIN asked : Open(k)}

(* The items of a request whose read is out, or that are owed.              *)
Unfound(k, id, node) ==
  {item \in node.content :
     ItemAsked(k, id, node, item) \/ item \in Catalogue \ items[<<k, id>>]}

ShapeInv ==
  /\ reqCounter \in [DOMAIN asked -> 0 .. Cardinality(Requests)]
  /\ requests \in [DOMAIN asked -> SUBSET Copies]
  /\ itemCounter \in [Slots -> 0 .. Cardinality(Items)]
  /\ items \in [Slots -> SUBSET Items]

PhaseInv ==
  /\ stage # "fetching" => pending = {}
  /\ stage = "fetching" => \A id \in Requests : server[id] \in versions[id]
  /\ stage \in {"idle", "abandoned"} => asked = <<>>
  /\ stage = "delivered" => asked # <<>> /\ counter = 0
  /\ asked = <<>> => pending \subseteq {VolunteerRead} /\ zoneRequestsArr = <<>>
  /\ asked # <<>> => VolunteerRead \notin pending

(* Every read asks for something that belongs there.                        *)
Belongs(read) ==
  \/ read = VolunteerRead
  \/ \E k \in DOMAIN asked :
       \/ read = ZoneRead(k)
       \/ \E id \in Requests :
            /\ ZoneOf[id] = asked[k]
            /\ \/ read = RequestRead(k, id)
               \/ \E node \in Nodes :
                    /\ node \in versions[id] /\ IsReadable(node)
                    /\ \/ read = ElderlyRead(k, id, node)
                       \/ \E item \in node.content : read = ItemRead(k, id, node, item)

ReadInv == \A read \in pending : Belongs(read)

(* A zone that was not read yet has nothing yet.                            *)
FreshZone(k) ==
  ZoneAsked(k) =>
    /\ Sought(k) = {} /\ reqCounter[k] = 0 /\ requests[k] = {}
    /\ asked[k] \notin ListedZones
    /\ \A id \in Requests : items[<<k, id>>] = {}

(* The counter of a zone bounds what is out and what is owed.               *)
CountedZone(k) ==
  /\ reqCounter[k] = 0 => Sought(k) = {}
  /\ reqCounter[k] # 0 =>
       /\ Cardinality(Sought(k) \union Unheard(k)) <= reqCounter[k]
       /\ asked[k] \notin ListedZones /\ Existed(asked[k])

(* The requests found are copies of what was there, one of each.            *)
FoundInZone(k) ==
  /\ \A c \in requests[k] :
       /\ ZoneOf[c.id] = asked[k] /\ c.id \notin Sought(k)
       /\ \E node \in versions[c.id] : IsReadable(node) /\ c = CopyOf(c.id, node)
  /\ \A c, d \in requests[k] : c.id = d.id => c = d

ZoneInv(k) == FreshZone(k) /\ CountedZone(k) /\ FoundInZone(k)

(* A request is read, then its items, then the details of the elderly.      *)
FreshRequest(k, id) ==
  RequestAsked(k, id) =>
    /\ items[<<k, id>>] = {}
    /\ \A n \in Nodes : ~ElderlyAsked(k, id, n) /\ \A i \in Items : ~ItemAsked(k, id, n, i)

ItemsOut(k, id) ==
  \A node \in Nodes, item \in Items : ItemAsked(k, id, node, item) =>
    /\ items[<<k, id>>] \subseteq node.content \intersect Catalogue
    /\ Cardinality(Unfound(k, id, node)) <= itemCounter[<<k, id>>]
    /\ \A n \in Nodes, i \in Items : ItemAsked(k, id, n, i) => n = node

ItemsIn(k, id) ==
  \A node \in Nodes : ElderlyAsked(k, id, node) =>
    /\ items[<<k, id>>] = node.content \intersect Catalogue
    /\ \A n \in Nodes : /\ ElderlyAsked(k, id, n) => n = node
                        /\ \A i \in Items : ~ItemAsked(k, id, n, i)

SlotInv(k, id) == FreshRequest(k, id) /\ ItemsOut(k, id) /\ ItemsIn(k, id)

(* What is listed is what was found in a zone, once.                        *)
ListInv ==
  /\ \A j \in DOMAIN zoneRequestsArr : \E k \in DOMAIN asked :
       /\ zoneRequestsArr[j] = [zone |-> asked[k], copies |-> requests[k]]
       /\ reqCounter[k] = 0 /\ Existed(asked[k])
  /\ \A i, j \in DOMAIN zoneRequestsArr :
       zoneRequestsArr[i].zone = zoneRequestsArr[j].zone => i = j

CountedZones == Cardinality(OpenZones) <= counter

Inv ==
  /\ TypeOK /\ ShapeInv /\ PhaseInv /\ ReadInv /\ ListInv /\ CountedZones
  /\ \A k \in DOMAIN asked : ZoneInv(k) /\ \A id \in Requests : SlotInv(k, id)

----------------------------------------------------------------------------
(* Consequences of the types.                                               *)

(* The list of zones names finitely many, each once.                        *)
LEMMA AskedZones ==
  ASSUME TypeOK
  PROVE  /\ asked \in Seq(Zones) /\ IsFiniteSet(DOMAIN asked)
         /\ \A j, k \in DOMAIN asked : asked[j] = asked[k] => j = k
<1>1. asked \in Seq(Zones) /\ \A j, k \in DOMAIN asked : asked[j] = asked[k] => j = k
  <2>1. CASE asked = <<>>
    BY <2>1
  <2>2. CASE asked \in Assignments \ {Nothing}
    <3>1. \A zones \in Assignments \ {Nothing} :
            zones \in Seq(Zones) /\ \A j, k \in DOMAIN zones : zones[j] = zones[k] => j = k
      BY AssignmentsAssumption
    <3>2. QED  BY <2>2, <3>1
  <2>3. QED  BY <2>1, <2>2 DEF TypeOK
<1>2. DOMAIN asked = 1 .. Len(asked) /\ Len(asked) \in Nat
  BY <1>1
<1>3. IsFiniteSet(1 .. Len(asked))
  BY <1>2, FS_Interval
<1>4. QED  BY <1>1, <1>2, <1>3

(* So are all the sets that the counters count.                             *)
LEMMA FiniteSets ==
  ASSUME TypeOK
  PROVE  /\ IsFiniteSet(OpenZones)
         /\ \A k : /\ IsFiniteSet(Sought(k)) /\ IsFiniteSet(Unheard(k))
                   /\ IsFiniteSet(Sought(k) \union Unheard(k))
         /\ \A node \in Nodes : IsFiniteSet(node.content) /\ node.content \subseteq Items
         /\ \A k, id : \A node \in Nodes : IsFiniteSet(Unfound(k, id, node))
<1>1. IsFiniteSet(OpenZones)
  BY AskedZones, FS_Subset DEF OpenZones
<1>2. ASSUME NEW k
      PROVE  /\ IsFiniteSet(Sought(k)) /\ IsFiniteSet(Unheard(k))
             /\ IsFiniteSet(Sought(k) \union Unheard(k))
  <2>1. Sought(k) \subseteq Requests /\ Unheard(k) \subseteq Requests
    BY DEF Sought, Unheard
  <2>2. QED  BY <2>1, FiniteAssumption, FS_Subset
<1>3. \A node \in Nodes : node.content \subseteq Items
  BY NodesAssumption DEF Node
<1>4. \A node \in Nodes : IsFiniteSet(node.content)
  BY <1>3, FiniteAssumption, FS_Subset
<1>5. \A k, id : \A node \in Nodes : Unfound(k, id, node) \subseteq node.content
  BY DEF Unfound
<1>6. \A k, id : \A node \in Nodes : IsFiniteSet(Unfound(k, id, node))
  BY <1>4, <1>5, FS_Subset
<1>7. QED  BY <1>1, <1>2, <1>3, <1>4, <1>6

----------------------------------------------------------------------------
(* What a step may do without harm.                                         *)

(* No read of a request is added, and what was found for it stays.          *)
LEMMA SlotKept ==
  ASSUME TypeOK, ShapeInv, NEW k \in DOMAIN asked, NEW id \in Requests, SlotInv(k, id),
         RequestAsked(k, id)' => RequestAsked(k, id),
         \A n \in Nodes : /\ ElderlyAsked(k, id, n)' => ElderlyAsked(k, id, n)
                          /\ \A i \in Items : ItemAsked(k, id, n, i)' => ItemAsked(k, id, n, i),
         items'[<<k, id>>] = items[<<k, id>>],
         itemCounter'[<<k, id>>] = itemCounter[<<k, id>>]
  PROVE  SlotInv(k, id)'
<1>1. FreshRequest(k, id)'
  BY DEF SlotInv, FreshRequest
<1>2. ItemsIn(k, id)'
  BY DEF SlotInv, ItemsIn
<1>3. ASSUME NEW node \in Nodes, NEW item \in Items, ItemAsked(k, id, node, item)'
      PROVE  /\ items'[<<k, id>>] \subseteq node.content \intersect Catalogue
             /\ Cardinality(Unfound(k, id, node)') <= itemCounter'[<<k, id>>]
             /\ \A n \in Nodes, i \in Items : ItemAsked(k, id, n, i)' => n = node
  <2>1. /\ items[<<k, id>>] \subseteq node.content \intersect Catalogue
        /\ Cardinality(Unfound(k, id, node)) <= itemCounter[<<k, id>>]
        /\ \A n \in Nodes, i \in Items : ItemAsked(k, id, n, i) => n = node
    BY <1>3 DEF SlotInv, ItemsOut
  <2>2. node.content \subseteq Items /\ IsFiniteSet(Unfound(k, id, node))
    BY FiniteSets
  <2>3. Unfound(k, id, node)' \subseteq Unfound(k, id, node)
    BY <2>2 DEF Unfound
  <2>4. itemCounter[<<k, id>>] \in Nat
    BY DEF ShapeInv, Slots
  <2>5. Cardinality(Unfound(k, id, node)') <= itemCounter[<<k, id>>]
    BY <2>1, <2>2, <2>3, <2>4, FewerOf
  <2>6. QED  BY <2>1, <2>5
<1>4. ItemsOut(k, id)'
  BY <1>3 DEF ItemsOut
<1>5. QED  BY <1>1, <1>2, <1>4 DEF SlotInv

(* No read of a zone is added, and what was found for it stays.             *)
LEMMA ZoneKept ==
  ASSUME TypeOK, ShapeInv, NEW k \in DOMAIN asked, ZoneInv(k),
         ZoneAsked(k)' => ZoneAsked(k) /\ \A id \in Requests :
                                            items'[<<k, id>>] = items[<<k, id>>],
         Sought(k)' \subseteq Sought(k),
         asked' = asked,
         reqCounter'[k] = reqCounter[k], requests'[k] = requests[k],
         asked[k] \notin ListedZones => asked[k] \notin ListedZones',
         \A id \in Requests : versions[id] \subseteq versions'[id]
  PROVE  ZoneInv(k)' /\ Unheard(k)' \subseteq Unheard(k)
<1>1. Unheard(k)' \subseteq Unheard(k)
  BY DEF Unheard, AlwaysThere
<1>2. FreshZone(k)'
  BY DEF ZoneInv, FreshZone
<1>3. CountedZone(k)'
  <2>1. reqCounter[k] = 0 => Sought(k)' = {}
    BY DEF ZoneInv, CountedZone
  <2>2. ASSUME reqCounter[k] # 0
        PROVE  Cardinality((Sought(k) \union Unheard(k))') <= reqCounter[k]
    <3>1. (Sought(k) \union Unheard(k))' \subseteq Sought(k) \union Unheard(k)
      BY <1>1
    <3>2. reqCounter[k] \in Nat
      BY DEF ShapeInv
    <3>3. QED  BY <2>2, <3>1, <3>2, FiniteSets, FewerOf DEF ZoneInv, CountedZone
  <2>3. Existed(asked[k]) => Existed(asked[k])'
    BY DEF Existed
  <2>4. QED  BY <2>1, <2>2, <2>3 DEF ZoneInv, CountedZone
<1>4. FoundInZone(k)'
  <2>1. \A c \in requests[k] : c.id \in Requests
    BY CopiesAssumption DEF ShapeInv, Copy
  <2>2. QED  BY <2>1 DEF ZoneInv, FoundInZone
<1>5. QED  BY <1>1, <1>2, <1>3, <1>4 DEF ZoneInv

(* A read that is out is one of a zone, or of a request that is sought.     *)
LEMMA WhatIsOut ==
  ASSUME ReadInv
  PROVE  /\ \A k : ZoneAsked(k) => k \in DOMAIN asked
         /\ \A k, id : RequestAsked(k, id) =>
              /\ k \in DOMAIN asked /\ id \in Requests /\ ZoneOf[id] = asked[k]
              /\ id \in Sought(k)
         /\ \A k, id, node : ElderlyAsked(k, id, node) =>
              /\ k \in DOMAIN asked /\ id \in Requests /\ ZoneOf[id] = asked[k]
              /\ id \in Sought(k)
              /\ node \in Nodes /\ node \in versions[id] /\ IsReadable(node)
         /\ \A k, id, node, item : ItemAsked(k, id, node, item) =>
              /\ k \in DOMAIN asked /\ id \in Requests /\ ZoneOf[id] = asked[k]
              /\ id \in Sought(k)
              /\ node \in Nodes /\ node \in versions[id] /\ IsReadable(node)
              /\ item \in node.content /\ item \in Items
<1>0. \A node \in Nodes : node.content \subseteq Items
  BY NodesAssumption DEF Node
<1>1. ASSUME NEW k, ZoneAsked(k) PROVE k \in DOMAIN asked
  BY <1>1, ReadsDiffer DEF ReadInv, Belongs, ZoneAsked
<1>2. ASSUME NEW k, NEW id, RequestAsked(k, id)
      PROVE  k \in DOMAIN asked /\ id \in Requests /\ ZoneOf[id] = asked[k]
  <2>1. Belongs(RequestRead(k, id))
    BY <1>2 DEF ReadInv, RequestAsked
  <2>2. PICK j \in DOMAIN asked, d \in Requests :
               ZoneOf[d] = asked[j] /\ RequestRead(k, id) = RequestRead(j, d)
    BY <2>1, ReadsDiffer DEF Belongs
  <2>3. QED  BY <2>2, ReadsDiffer
<1>3. ASSUME NEW k, NEW id, NEW node, ElderlyAsked(k, id, node)
      PROVE  /\ k \in DOMAIN asked /\ id \in Requests /\ ZoneOf[id] = asked[k]
             /\ node \in Nodes /\ node \in versions[id] /\ IsReadable(node)
  <2>1. Belongs(ElderlyRead(k, id, node))
    BY <1>3 DEF ReadInv, ElderlyAsked
  <2>2. PICK j \in DOMAIN asked, d \in Requests, n \in Nodes :
               /\ ZoneOf[d] = asked[j] /\ n \in versions[d] /\ IsReadable(n)
               /\ ElderlyRead(k, id, node) = ElderlyRead(j, d, n)
    BY <2>1, ReadsDiffer DEF Belongs
  <2>3. QED  BY <2>2, ReadsDiffer
<1>4. ASSUME NEW k, NEW id, NEW node, NEW item, ItemAsked(k, id, node, item)
      PROVE  /\ k \in DOMAIN asked /\ id \in Requests /\ ZoneOf[id] = asked[k]
             /\ node \in Nodes /\ node \in versions[id] /\ IsReadable(node)
             /\ item \in node.content /\ item \in Items
  <2>1. Belongs(ItemRead(k, id, node, item))
    BY <1>4 DEF ReadInv, ItemAsked
  <2>2. PICK j \in DOMAIN asked, d \in Requests, n \in Nodes, i \in Items :
               /\ ZoneOf[d] = asked[j] /\ n \in versions[d] /\ IsReadable(n)
               /\ i \in n.content
               /\ ItemRead(k, id, node, item) = ItemRead(j, d, n, i)
    BY <1>0, <2>1, ReadsDiffer DEF Belongs
  <2>3. k = j /\ id = d /\ node = n /\ item = i
    BY <2>2, ReadsDiffer
  <2>4. QED  BY <2>2, <2>3
<1>5. QED  BY <1>1, <1>2, <1>3, <1>4 DEF Sought

(* Where no zone is open, no read is out.                                   *)
LEMMA NothingOut ==
  ReadInv /\ (\A k \in DOMAIN asked : CountedZone(k)) /\ OpenZones = {}
    /\ VolunteerRead \notin pending => pending = {}
<1> SUFFICES ASSUME ReadInv, \A k \in DOMAIN asked : CountedZone(k), OpenZones = {},
                    VolunteerRead \notin pending, NEW read \in pending
             PROVE  FALSE
  OBVIOUS
<1>1. \A k \in DOMAIN asked : ~ZoneAsked(k) /\ Sought(k) = {}
  BY DEF OpenZones, Open, CountedZone
<1>2. \A k, id : ~RequestAsked(k, id)
  BY <1>1, WhatIsOut
<1>3. \A k, id, node : ~ElderlyAsked(k, id, node)
  BY <1>1, WhatIsOut
<1>4. \A k, id, node, item : ~ItemAsked(k, id, node, item)
  BY <1>1, WhatIsOut
<1>5. Belongs(read)
  BY DEF ReadInv
<1>6. QED
  BY <1>1, <1>2, <1>3, <1>4, <1>5
  DEF Belongs, ZoneAsked, RequestAsked, ElderlyAsked, ItemAsked

(* A zone that is closed takes one off the counter.                         *)
LEMMA CounterStep ==
  ASSUME TypeOK, CountedZones, NEW k \in DOMAIN asked, Open(k), asked' = asked, ~Open(k)',
         \A j \in DOMAIN asked \ {k} : Open(j)' => Open(j),
         counter' = counter - 1
  PROVE  CountedZones' /\ counter' \in 0 .. Len(asked) /\ (counter' = 0 => OpenZones' = {})
<1>1. IsFiniteSet(OpenZones) /\ k \in OpenZones /\ OpenZones' \subseteq OpenZones \ {k}
  BY FiniteSets DEF OpenZones
<1>2. counter \in Nat /\ counter <= Len(asked) /\ Len(asked) \in Nat
  BY AskedZones DEF TypeOK
<1>3. Cardinality(OpenZones') <= counter - 1 /\ counter >= 1
  BY <1>1, <1>2, OneLessOf DEF CountedZones
<1>4. IsFiniteSet(OpenZones')
  BY <1>1, FS_Subset
<1>5. counter' = 0 => OpenZones' = {}
  BY <1>3, <1>4, NoneOf
<1>6. QED  BY <1>2, <1>3, <1>5 DEF CountedZones

(* The counter stays where no zone opens.                                   *)
LEMMA CounterStays ==
  ASSUME TypeOK, CountedZones, asked' = asked, counter' = counter,
         \A k \in DOMAIN asked : Open(k)' => Open(k)
  PROVE  CountedZones'
<1>1. IsFiniteSet(OpenZones) /\ OpenZones' \subseteq OpenZones
  BY FiniteSets DEF OpenZones
<1>2. counter \in Nat
  BY AskedZones DEF TypeOK
<1>3. QED  BY <1>1, <1>2, FewerOf DEF CountedZones

----------------------------------------------------------------------------
(* The beginning, and what the server does.                                 *)

(* Nothing is asked at first.                                               *)
LEMMA InvInit == Init => Inv
<1> SUFFICES ASSUME Init PROVE Inv
  OBVIOUS
<1>1. asked = <<>> /\ DOMAIN asked = {} /\ Slots = {}
  BY DEF Init, Slots
<1>2. TypeOK
  <2>1. versions \in Versions
    BY DEF Init, Versions
  <2>2. reqCounter = <<>> /\ requests = <<>> /\ zoneRequestsArr = <<>> /\ DOMAIN reqCounter = {}
    BY DEF Init
  <2>3. requests \in [DOMAIN reqCounter -> SUBSET Copies]
    BY <2>2
  <2>4. zoneRequestsArr \in Seq([zone : Zones, copies : SUBSET Copies])
    BY <2>2
  <2>5. DOMAIN itemCounter = {} /\ items \in [DOMAIN itemCounter -> SUBSET Items]
    BY DEF Init
  <2>6. counter \in 0 .. Len(asked)
    BY <1>1 DEF Init
  <2>7. server \in Server /\ stage = "idle" /\ changes \in 0 .. MaxChanges
    BY BoundsAssumption DEF Init
  <2>8. hung \in BOOLEAN
    BY DEF Init
  <2>9. QED
    BY <1>1, <2>1, <2>2, <2>3, <2>4, <2>5, <2>6, <2>7, <2>8 DEF TypeOK
<1>3. ShapeInv
  BY <1>1 DEF Init, ShapeInv
<1>4. PhaseInv /\ ReadInv
  BY <1>1 DEF Init, PhaseInv, ReadInv
<1>5. ListInv
  BY DEF Init, ListInv
<1>6. CountedZones
  <2>1. OpenZones = {}
    BY <1>1 DEF OpenZones
  <2>2. QED  BY <2>1, FS_EmptySet DEF Init, CountedZones
<1>7. QED  BY <1>1, <1>2, <1>3, <1>4, <1>5, <1>6 DEF Inv

(* A refusal takes a read away; a change of the server adds a version.      *)
LEMMA OutsideStep ==
  ASSUME Inv, TypeOK', pending' \subseteq pending,
         \A id \in Requests : versions[id] \subseteq versions'[id],
         stage' = "fetching" => \A id \in Requests : server'[id] \in versions'[id],
         UNCHANGED <<stage, asked, tally>>
  PROVE  Inv'
<1> USE DEF tally
<1>1. TypeOK /\ ShapeInv /\ PhaseInv /\ ReadInv /\ ListInv /\ CountedZones
  BY DEF Inv
<1>2. /\ \A k : ZoneAsked(k)' => ZoneAsked(k)
      /\ \A k, id : RequestAsked(k, id)' => RequestAsked(k, id)
      /\ \A k, id, n : ElderlyAsked(k, id, n)' => ElderlyAsked(k, id, n)
      /\ \A k, id, n, i : ItemAsked(k, id, n, i)' => ItemAsked(k, id, n, i)
  BY DEF ZoneAsked, RequestAsked, ElderlyAsked, ItemAsked
<1>3. \A k : Sought(k)' \subseteq Sought(k)
  BY <1>2 DEF Sought
<1>4. ListedZones' = ListedZones /\ Slots' = Slots
  BY DEF ListedZones, Slots
<1>5. \A k \in DOMAIN asked : ZoneInv(k)' /\ Unheard(k)' \subseteq Unheard(k)
  BY <1>1, <1>2, <1>3, <1>4, ZoneKept DEF Inv
<1>6. \A k \in DOMAIN asked, id \in Requests : SlotInv(k, id)'
  BY <1>1, <1>2, SlotKept DEF Inv
<1>7. ShapeInv'
  BY <1>1, <1>4 DEF ShapeInv
<1>8. PhaseInv'
  BY <1>1 DEF PhaseInv
<1>9. ReadInv'
  BY <1>1 DEF ReadInv, Belongs
<1>10. ListInv'
  BY <1>1 DEF ListInv, Existed
<1>11. CountedZones'
  <2>1. \A k \in DOMAIN asked : Open(k)' => Open(k)
    BY <1>2, <1>4, <1>5 DEF Open, AlwaysExisted
  <2>2. QED  BY <1>1, <2>1, CounterStays
<1>12. QED  BY <1>5, <1>6, <1>7, <1>8, <1>9, <1>10, <1>11 DEF Inv

(* A read that is refused.                                                  *)
LEMMA DeniedStep == Inv /\ Denied => Inv'
<1> SUFFICES ASSUME Inv, Denied PROVE Inv'
  OBVIOUS
<1>1. TypeOK /\ PhaseInv
  BY DEF Inv
<1>2. pending' \subseteq pending /\ UNCHANGED <<server, stage, asked, tally, changes, versions>>
  BY DEF Denied, Answer
<1>3. hung' \in BOOLEAN
  BY DEF Denied
<1>4. TypeOK'
  BY <1>1, <1>2, <1>3 DEF TypeOK, tally
<1>5. QED  BY <1>1, <1>2, <1>4, OutsideStep DEF PhaseInv

(* A request placed, changed or removed by others.                          *)
LEMMA ServerStep == Inv /\ ServerChanges => Inv'
<1> SUFFICES ASSUME Inv, ServerChanges PROVE Inv'
  OBVIOUS
<1>1. TypeOK /\ PhaseInv
  BY DEF Inv
<1>2. PICK id \in Requests, node \in Nodes \union {Nothing} :
        /\ server' = [server EXCEPT ![id] = node]
        /\ versions' = IF stage = "fetching" THEN [versions EXCEPT ![id] = @ \union {node}]
                       ELSE versions
  BY DEF ServerChanges
<1>3. UNCHANGED <<stage, asked, pending, tally, hung>>
  BY DEF ServerChanges
<1>4. server' \in Server /\ versions' \in Versions
  BY <1>1, <1>2 DEF TypeOK, Server, Versions
<1>5. \A d \in Requests : versions[d] \subseteq versions'[d]
  BY <1>1, <1>2 DEF TypeOK, Versions
<1>6. stage' = "fetching" => \A d \in Requests : server'[d] \in versions'[d]
  BY <1>1, <1>2, <1>3 DEF TypeOK, Versions, Server, PhaseInv
<1>7. changes' \in 0 .. MaxChanges
  BY <1>1, BoundsAssumption DEF TypeOK, ServerChanges
<1>8. TypeOK'
  BY <1>1, <1>3, <1>4, <1>7 DEF TypeOK, tally
<1>9. QED  BY <1>3, <1>5, <1>6, <1>8, OutsideStep

(* A fetch begins, or is abandoned at once.                                 *)
LEMMA RefreshStep == Inv /\ Refresh => Inv'
<1> SUFFICES ASSUME Inv, Refresh PROVE Inv'
  OBVIOUS
<1> USE DEF tally
<1>1. TypeOK /\ ShapeInv /\ PhaseInv /\ CountedZones
  BY DEF Inv
<1>2. /\ asked = <<>> /\ DOMAIN asked = {} /\ zoneRequestsArr = <<>> /\ pending = {}
      /\ UNCHANGED <<server, asked, tally, changes, hung>>
      /\ \/ stage' = "fetching" /\ pending' = {VolunteerRead}
         \/ stage' = "abandoned" /\ pending' = {}
      /\ versions' = [id \in Requests |-> {server[id]}]
  BY <1>1 DEF Refresh, PhaseInv
<1>3. versions' \in Versions /\ \A id \in Requests : server[id] \in versions'[id]
  BY <1>1, <1>2 DEF TypeOK, Versions, Server
<1>4. TypeOK'
  BY <1>1, <1>2, <1>3 DEF TypeOK
<1>5. ShapeInv'
  BY <1>1, <1>2 DEF ShapeInv, Slots
<1>6. PhaseInv'
  BY <1>2, <1>3 DEF PhaseInv
<1>7. ReadInv'
  BY <1>2 DEF ReadInv, Belongs
<1>8. ListInv'
  BY <1>2 DEF ListInv
<1>9. CountedZones'
  BY <1>1, <1>2, CounterStays
<1>10. QED  BY <1>2, <1>4, <1>5, <1>6, <1>7, <1>8, <1>9 DEF Inv

(* The zones of the volunteer are known, and one read is sent for each.     *)
LEMMA VolunteerStep == Inv /\ AnswerVolunteer => Inv'
<1> SUFFICES ASSUME Inv, AnswerVolunteer PROVE Inv'
  OBVIOUS
<1>1. TypeOK /\ ShapeInv /\ PhaseInv /\ CountedZones
  BY DEF Inv
<1>2. VolunteerRead \in pending /\ UNCHANGED <<server, changes, versions, hung>>
  BY DEF AnswerVolunteer, Answer, AnswerWith
<1>3. /\ stage = "fetching" /\ asked = <<>> /\ DOMAIN asked = {} /\ pending \subseteq {VolunteerRead}
      /\ zoneRequestsArr = <<>>
  BY <1>1, <1>2 DEF PhaseInv
<1>4. CASE pending' = {} /\ stage' = "abandoned" /\ UNCHANGED <<asked, tally>>
  <2> USE <1>4 DEF tally
  <2>1. TypeOK'
    BY <1>1, <1>2 DEF TypeOK
  <2>2. ShapeInv'
    BY <1>1 DEF ShapeInv, Slots
  <2>3. PhaseInv' /\ ReadInv' /\ ListInv'
    BY <1>3 DEF PhaseInv, ReadInv, ListInv
  <2>4. CountedZones'
    BY <1>1, <1>3, CounterStays
  <2>5. QED  BY <1>3, <2>1, <2>2, <2>3, <2>4 DEF Inv
<1>5. ASSUME NEW zones \in Assignments \ {Nothing},
             pending' = (pending \ {VolunteerRead}) \union {ZoneRead(k) : k \in DOMAIN zones},
             asked' = zones,
             counter' = Len(zones),
             reqCounter' = [k \in DOMAIN zones |-> 0],
             requests' = [k \in DOMAIN zones |-> {}],
             itemCounter' = [s \in Slots' |-> 0],
             items' = [s \in Slots' |-> {}],
             UNCHANGED <<stage, zoneRequestsArr>>
      PROVE  Inv'
  <2> USE <1>5
  <2>1. zones \in Seq(Zones) \ {<<>>} /\ Slots' = (DOMAIN zones) \X Requests
    BY AssignmentsAssumption DEF Slots
  <2>2. Cardinality(Requests) \in Nat /\ Cardinality(Items) \in Nat
    BY FiniteAssumption, FS_CardinalityType
  <2>3. ShapeInv'
    BY <2>1, <2>2 DEF ShapeInv
  <2>4. TypeOK'
    <3>1. counter' \in 0 .. Len(asked')
      BY <2>1
    <3>2. /\ \A k \in DOMAIN reqCounter' : reqCounter'[k] \in 0 .. Cardinality(Requests)
          /\ \A s \in DOMAIN itemCounter' : itemCounter'[s] \in 0 .. Cardinality(Items)
          /\ requests' \in [DOMAIN reqCounter' -> SUBSET Copies]
          /\ items' \in [DOMAIN itemCounter' -> SUBSET Items]
      BY <2>2
    <3>3. QED  BY <1>1, <1>2, <3>1, <3>2 DEF TypeOK
  <2>5. pending' = {ZoneRead(k) : k \in DOMAIN zones}
    BY <1>3
  <2>6. PhaseInv'
    BY <1>1, <1>2, <1>3, <2>1, <2>5, ReadsDiffer DEF PhaseInv
  <2>7. ReadInv'
    BY <2>5 DEF ReadInv, Belongs
  <2>8. ListInv' /\ ListedZones' = {}
    BY <1>3 DEF ListInv, ListedZones
  <2>9. /\ \A k, id : ~RequestAsked(k, id)'
        /\ \A k, id, n : ~ElderlyAsked(k, id, n)'
        /\ \A k, id, n, i : ~ItemAsked(k, id, n, i)'
    BY <2>5, ReadsDiffer DEF RequestAsked, ElderlyAsked, ItemAsked
  <2>10. \A k : Sought(k)' = {}
    BY <2>9 DEF Sought
  <2>11. \A k \in DOMAIN zones : ZoneInv(k)'
    BY <2>1, <2>8, <2>10 DEF ZoneInv, FreshZone, CountedZone, FoundInZone
  <2>12. \A k \in DOMAIN zones, id \in Requests : SlotInv(k, id)'
    BY <2>9 DEF SlotInv, FreshRequest, ItemsOut, ItemsIn
  <2>13. CountedZones'
    <3>1. OpenZones' \subseteq 1 .. Len(zones) /\ Len(zones) \in Nat
      BY <2>1 DEF OpenZones
    <3>2. IsFiniteSet(1 .. Len(zones)) /\ Cardinality(1 .. Len(zones)) = Len(zones)
      BY ONLY <3>1, FS_Interval
    <3>3. Cardinality(OpenZones') <= Cardinality(1 .. Len(zones))
      BY ONLY <3>1, <3>2, FS_Subset
    <3>4. QED  BY <3>2, <3>3 DEF CountedZones
  <2>14. QED
    BY <2>3, <2>4, <2>6, <2>7, <2>8, <2>11, <2>12, <2>13 DEF Inv
<1>6. QED
  BY <1>3, <1>4, <1>5 DEF AnswerVolunteer, Answer, AnswerWith

----------------------------------------------------------------------------
(* Answers.                                                                 *)

(* The last answer is the last read: what NothingOut says of the next state.*)
LEMMA NothingOutNext ==
  ASSUME ReadInv', \A k \in DOMAIN asked' : CountedZone(k)', OpenZones' = {},
         VolunteerRead \notin pending'
  PROVE  pending' = {}
<1>1. (ReadInv /\ (\A k \in DOMAIN asked : CountedZone(k)) /\ OpenZones = {}
         /\ VolunteerRead \notin pending)' => (pending = {})'
  BY NothingOut, PTL
<1>2. QED  BY <1>1

(* The callback of getRequest, for a request that is no longer sought.      *)
LEMMA RequestDone ==
  ASSUME Inv, stage = "fetching",
         NEW k \in DOMAIN asked, NEW id \in Requests, ZoneOf[id] = asked[k], id \in Sought(k),
         NEW copies \in SUBSET Copies, requests[k] \subseteq copies,
         \A c \in copies \ requests[k] :
           c.id = id /\ \E node \in versions[id] : IsReadable(node) /\ c = CopyOf(id, node),
         \A c, d \in copies : c.id = d.id => c = d,
         AlwaysThere(id) => \E c \in copies : c.id = id,
         FinishRequest(k, copies),
         pending' \subseteq pending, Sought(k)' \subseteq Sought(k) \ {id},
         UNCHANGED <<server, asked, itemCounter, items, changes, versions>>,
         hung' \in BOOLEAN
  PROVE  Inv'
<1>1. /\ TypeOK /\ ShapeInv /\ PhaseInv /\ ReadInv /\ ListInv /\ CountedZones
      /\ \A j \in DOMAIN asked : ZoneInv(j)
      /\ \A j \in DOMAIN asked, d \in Requests : SlotInv(j, d)
  BY DEF Inv
<1>2. /\ \A j : ZoneAsked(j)' => ZoneAsked(j)
      /\ \A j, d : RequestAsked(j, d)' => RequestAsked(j, d)
      /\ \A j, d, n : ElderlyAsked(j, d, n)' => ElderlyAsked(j, d, n)
      /\ \A j, d, n, i : ItemAsked(j, d, n, i)' => ItemAsked(j, d, n, i)
  BY DEF ZoneAsked, RequestAsked, ElderlyAsked, ItemAsked
<1>3. \A j : Sought(j)' \subseteq Sought(j)
  BY <1>2 DEF Sought
<1>4. /\ reqCounter[k] \in Nat /\ reqCounter[k] # 0
      /\ Cardinality(Sought(k) \union Unheard(k)) <= reqCounter[k]
      /\ asked[k] \notin ListedZones /\ Existed(asked[k])
      /\ ~ZoneAsked(k)
  BY <1>1 DEF ShapeInv, ZoneInv, CountedZone, FreshZone
<1>5. /\ reqCounter' = [reqCounter EXCEPT ![k] = reqCounter[k] - 1]
      /\ requests' = [requests EXCEPT ![k] = copies]
  BY DEF FinishRequest
<1>6. /\ reqCounter'[k] = reqCounter[k] - 1 /\ requests'[k] = copies
      /\ \A j \in DOMAIN asked \ {k} : reqCounter'[j] = reqCounter[j] /\ requests'[j] = requests[j]
  BY <1>1, <1>5 DEF ShapeInv
<1>7. Unheard(k)' \subseteq Unheard(k) \ {id}
  BY <1>6 DEF Unheard, AlwaysThere
<1>8. /\ Cardinality((Sought(k) \union Unheard(k))') <= reqCounter'[k]
      /\ reqCounter'[k] \in Nat
      /\ IsFiniteSet((Sought(k) \union Unheard(k))')
  <2>1. IsFiniteSet(Sought(k) \union Unheard(k))
    BY <1>1, FiniteSets
  <2>2. (Sought(k) \union Unheard(k))' \subseteq (Sought(k) \union Unheard(k)) \ {id}
    BY <1>7
  <2>3. Cardinality((Sought(k) \union Unheard(k))') <= reqCounter[k] - 1
    BY <1>4, <2>1, <2>2, OneLessOf
  <2>4. IsFiniteSet((Sought(k) \union Unheard(k))')
    BY <2>1, <2>2, FS_Subset
  <2>5. QED  BY <1>4, <1>6, <2>3, <2>4
<1>9. FoundInZone(k)'
  <2>1. FoundInZone(k)
    BY <1>1 DEF ZoneInv
  <2>2. ASSUME NEW c \in copies
        PROVE  /\ ZoneOf[c.id] = asked[k] /\ c.id \notin Sought(k)'
               /\ \E node \in versions[c.id] : IsReadable(node) /\ c = CopyOf(c.id, node)
    BY <2>1 DEF FoundInZone
  <2>3. QED  BY <1>6, <2>2 DEF FoundInZone
<1>10. \A j \in DOMAIN asked, d \in Requests : SlotInv(j, d)'
  BY <1>1, <1>2, SlotKept
<1>11. ReadInv'
  BY <1>1 DEF ReadInv, Belongs
<1>12. ShapeInv'
  <2>1. reqCounter'[k] \in 0 .. Cardinality(Requests)
    <3>1. reqCounter[k] <= Cardinality(Requests) /\ Cardinality(Requests) \in Nat
      BY <1>1, FiniteAssumption, FS_CardinalityType DEF ShapeInv
    <3>2. QED  BY <1>4, <1>6, <1>8, <3>1
  <2>2. reqCounter' \in [DOMAIN asked -> 0 .. Cardinality(Requests)]
    BY <1>1, <1>5, <1>6, <2>1 DEF ShapeInv
  <2>3. requests' \in [DOMAIN asked -> SUBSET Copies]
    BY <1>1, <1>5 DEF ShapeInv
  <2>4. QED  BY <1>1, <2>2, <2>3 DEF ShapeInv, Slots
<1>13. \A j, l \in DOMAIN asked : asked[j] = asked[l] => j = l
  BY <1>1, AskedZones
<1>14. TypeOK' <=> /\ stage' \in {"idle", "fetching", "delivered", "abandoned"}
                   /\ counter' \in 0 .. Len(asked)
                   /\ zoneRequestsArr' \in Seq([zone : Zones, copies : SUBSET Copies])
  BY <1>1, <1>12 DEF TypeOK, ShapeInv
<1>15. CASE reqCounter'[k] = 0
  <2>1. /\ zoneRequestsArr' = Append(zoneRequestsArr, [zone |-> asked[k], copies |-> copies])
        /\ counter' = counter - 1
        /\ stage' = IF counter' = 0 THEN "delivered" ELSE stage
    BY <1>15 DEF FinishRequest, FinishZone
  <2>2. /\ zoneRequestsArr \in Seq([zone : Zones, copies : SUBSET Copies])
        /\ [zone |-> asked[k], copies |-> copies] \in [zone : Zones, copies : SUBSET Copies]
    BY <1>1, AskedZones DEF TypeOK
  <2>3. /\ zoneRequestsArr' \in Seq([zone : Zones, copies : SUBSET Copies])
        /\ DOMAIN zoneRequestsArr = 1 .. Len(zoneRequestsArr)
        /\ DOMAIN zoneRequestsArr' = 1 .. (Len(zoneRequestsArr) + 1)
        /\ Len(zoneRequestsArr) \in Nat
        /\ \A j \in DOMAIN zoneRequestsArr : zoneRequestsArr'[j] = zoneRequestsArr[j]
        /\ zoneRequestsArr'[Len(zoneRequestsArr) + 1] = [zone |-> asked[k], copies |-> copies]
    BY ONLY <2>1, <2>2
  <2>4. ListedZones' = ListedZones \union {asked[k]}
    BY <2>3 DEF ListedZones
  <2>5. Sought(k)' = {} /\ Unheard(k)' = {}
    BY <1>8, <1>15, NoneOf
  <2>6. \A j \in DOMAIN asked \ {k} :
          ZoneInv(j)' /\ Unheard(j)' \subseteq Unheard(j)
    BY <1>1, <1>2, <1>3, <1>6, <1>13, <2>4, ZoneKept
  <2>7. ZoneInv(k)'
    BY <1>2, <1>4, <1>9, <1>15, <2>5 DEF ZoneInv, FreshZone, CountedZone
  <2>8. ~Open(k)' /\ Open(k)
    BY <1>2, <1>4, <1>15, <2>4, <2>5 DEF Open
  <2>9. \A j \in DOMAIN asked \ {k} : Open(j)' => Open(j)
    BY <1>2, <1>6, <2>4, <2>6 DEF Open, AlwaysExisted
  <2>10. CountedZones' /\ counter' \in 0 .. Len(asked) /\ (counter' = 0 => OpenZones' = {})
    BY <1>1, <2>1, <2>8, <2>9, CounterStep
  <2>11. TypeOK'
    BY <1>14, <2>1, <2>3, <2>10
  <2>12. PhaseInv'
    <3>1. asked # <<>> /\ VolunteerRead \notin pending'
      BY <1>1 DEF PhaseInv
    <3>2. counter' = 0 => pending' = {}
      BY <1>11, <2>6, <2>7, <2>10, <3>1, NothingOutNext DEF ZoneInv
    <3>3. QED  BY <1>1, <2>1, <3>1, <3>2 DEF PhaseInv
  <2>13. ListInv'
    <3>1. Existed(asked[k])' /\ \A j \in DOMAIN asked : Existed(asked[j]) => Existed(asked[j])'
      BY <1>4 DEF Existed
    <3>2. ASSUME NEW j \in DOMAIN zoneRequestsArr'
          PROVE  \E l \in DOMAIN asked :
                   /\ zoneRequestsArr'[j] = [zone |-> asked[l], copies |-> requests'[l]]
                   /\ reqCounter'[l] = 0 /\ Existed(asked[l])'
      <4>1. CASE j = Len(zoneRequestsArr) + 1
        BY <1>6, <1>15, <2>3, <3>1, <4>1
      <4>2. CASE j \in DOMAIN zoneRequestsArr
        <5>1. PICK l \in DOMAIN asked :
                     /\ zoneRequestsArr[j] = [zone |-> asked[l], copies |-> requests[l]]
                     /\ reqCounter[l] = 0 /\ Existed(asked[l])
          BY <1>1, <4>2 DEF ListInv
        <5>2. l # k
          BY <1>4, <5>1
        <5>3. QED  BY <1>6, <2>3, <3>1, <4>2, <5>1, <5>2
      <4>3. QED  BY <2>3, <4>1, <4>2
    <3>3. \A j \in DOMAIN zoneRequestsArr : zoneRequestsArr[j].zone # asked[k]
      BY <1>4 DEF ListedZones
    <3>4. ASSUME NEW i \in DOMAIN zoneRequestsArr', NEW j \in DOMAIN zoneRequestsArr',
                 zoneRequestsArr'[i].zone = zoneRequestsArr'[j].zone
          PROVE  i = j
      BY <1>1, <2>3, <3>3, <3>4 DEF ListInv
    <3>5. QED  BY <3>2, <3>4 DEF ListInv
  <2>14. QED
    BY <1>10, <1>11, <1>12, <2>6, <2>7, <2>10, <2>11, <2>12, <2>13 DEF Inv
<1>16. CASE reqCounter'[k] # 0
  <2>1. UNCHANGED <<counter, zoneRequestsArr, stage>>
    BY <1>16 DEF FinishRequest
  <2>2. ListedZones' = ListedZones
    BY <2>1 DEF ListedZones
  <2>3. \A j \in DOMAIN asked \ {k} :
          ZoneInv(j)' /\ Unheard(j)' \subseteq Unheard(j)
    BY <1>1, <1>2, <1>3, <1>6, <2>2, ZoneKept
  <2>4. ZoneInv(k)'
    <3>1. Existed(asked[k])'
      BY <1>4 DEF Existed
    <3>2. QED  BY <1>2, <1>4, <1>8, <1>9, <1>16, <2>2, <3>1 DEF ZoneInv, FreshZone, CountedZone
  <2>5. \A j \in DOMAIN asked : Open(j)' => Open(j)
    BY <1>2, <1>4, <1>6, <2>2, <2>3 DEF Open, AlwaysExisted
  <2>6. CountedZones'
    BY <1>1, <2>1, <2>5, CounterStays
  <2>7. TypeOK'
    BY <1>1, <1>14, <2>1 DEF TypeOK
  <2>8. PhaseInv'
    BY <1>1, <2>1 DEF PhaseInv
  <2>9. ListInv'
    BY <1>1, <1>4, <1>6, <2>1 DEF ListInv, Existed
  <2>10. QED
    BY <1>10, <1>11, <1>12, <2>3, <2>4, <2>6, <2>7, <2>8, <2>9 DEF Inv
<1>17. QED  BY <1>15, <1>16

(* The node of a zone: its requests are sought, or it is closed.            *)
LEMMA ZoneStep == ASSUME Inv, NEW k \in DOMAIN asked, AnswerZone(k) PROVE Inv'
<1>1. /\ TypeOK /\ ShapeInv /\ PhaseInv /\ ReadInv /\ ListInv /\ CountedZones
      /\ \A j \in DOMAIN asked : ZoneInv(j)
      /\ \A j \in DOMAIN asked, d \in Requests : SlotInv(j, d)
  BY DEF Inv
<1>2. ZoneRead(k) \in pending /\ ZoneAsked(k) /\ UNCHANGED <<server, asked, changes, versions, hung>>
  BY DEF AnswerZone, Answer, AnswerWith, ZoneAsked
<1>3. /\ stage = "fetching" /\ asked # <<>> /\ VolunteerRead \notin pending
      /\ \A id \in Requests : server[id] \in versions[id]
  BY <1>1, <1>2, ReadsDiffer DEF PhaseInv
<1>4. /\ Sought(k) = {} /\ reqCounter[k] = 0 /\ requests[k] = {}
      /\ asked[k] \notin ListedZones
      /\ \A id \in Requests : items[<<k, id>>] = {}
  BY <1>1, <1>2 DEF ZoneInv, FreshZone
<1>5. \A j, l \in DOMAIN asked : asked[j] = asked[l] => j = l
  BY <1>1, AskedZones
<1>6. \A id \in Unheard(k) : id \in Children(asked[k])
  BY <1>3 DEF Unheard, AlwaysThere, IsReadable, Children
<1>7. Open(k)
  BY <1>2 DEF Open
<1>8. CASE /\ Children(asked[k]) = {}
           /\ pending' = pending \ {ZoneRead(k)}
           /\ FinishZone(zoneRequestsArr)
           /\ UNCHANGED <<reqCounter, requests, itemCounter, items>>
  <2>1. /\ zoneRequestsArr' = zoneRequestsArr /\ counter' = counter - 1
        /\ stage' = IF counter' = 0 THEN "delivered" ELSE stage
        /\ pending' \subseteq pending
    BY <1>8 DEF FinishZone
  <2>2. /\ \A j : ZoneAsked(j)' => ZoneAsked(j)
        /\ \A j, d : RequestAsked(j, d)' => RequestAsked(j, d)
        /\ \A j, d, n : ElderlyAsked(j, d, n)' => ElderlyAsked(j, d, n)
        /\ \A j, d, n, i : ItemAsked(j, d, n, i)' => ItemAsked(j, d, n, i)
        /\ ~ZoneAsked(k)'
    BY <1>8, <2>1 DEF ZoneAsked, RequestAsked, ElderlyAsked, ItemAsked
  <2>3. \A j : Sought(j)' \subseteq Sought(j)
    BY <2>2 DEF Sought
  <2>4. ListedZones' = ListedZones
    BY <2>1 DEF ListedZones
  <2>5. \A j \in DOMAIN asked : ZoneInv(j)' /\ Unheard(j)' \subseteq Unheard(j)
    BY <1>1, <1>2, <1>8, <2>2, <2>3, <2>4, ZoneKept
  <2>6. \A j \in DOMAIN asked, d \in Requests : SlotInv(j, d)'
    BY <1>1, <1>8, <2>2, SlotKept
  <2>7. ShapeInv' /\ ReadInv'
    BY <1>1, <1>2, <1>8, <2>1 DEF ShapeInv, Slots, ReadInv, Belongs
  <2>8. ListInv'
    BY <1>1, <1>2, <1>8, <2>1 DEF ListInv, Existed
  <2>9. ~Open(k)'
    <3>1. Unheard(k)' = {}
      BY <1>6, <1>8, <2>5
    <3>2. ~AlwaysExisted(asked[k])
      BY <1>3, <1>8 DEF AlwaysExisted, Children
    <3>3. ~AlwaysExisted(asked[k])'
      BY <1>2, <3>2 DEF AlwaysExisted
    <3>4. QED  BY <1>2, <1>4, <1>8, <2>2, <3>1, <3>3 DEF Open
  <2>10. \A j \in DOMAIN asked \ {k} : Open(j)' => Open(j)
    BY <1>2, <1>8, <2>2, <2>4, <2>5 DEF Open, AlwaysExisted
  <2>11. CountedZones' /\ counter' \in 0 .. Len(asked) /\ (counter' = 0 => OpenZones' = {})
    BY <1>1, <1>2, <1>7, <2>1, <2>9, <2>10, CounterStep
  <2>12. TypeOK'
    BY <1>1, <1>2, <1>8, <2>1, <2>11 DEF TypeOK
  <2>13. PhaseInv'
    <3>1. counter' = 0 => pending' = {}
      BY <1>2, <1>3, <2>1, <2>5, <2>7, <2>11, NothingOutNext DEF ZoneInv
    <3>2. QED  BY <1>1, <1>2, <1>3, <2>1, <3>1 DEF PhaseInv
  <2>14. QED
    BY <1>2, <2>5, <2>6, <2>7, <2>8, <2>11, <2>12, <2>13 DEF Inv
<1>9. CASE /\ Children(asked[k]) # {}
           /\ pending' = (pending \ {ZoneRead(k)})
                           \union {RequestRead(k, id) : id \in Children(asked[k])}
           /\ reqCounter' = [reqCounter EXCEPT ![k] = Cardinality(Children(asked[k]))]
           /\ UNCHANGED <<stage, counter, requests, itemCounter, items, zoneRequestsArr>>
  <2>1. /\ \A j : ZoneAsked(j)' <=> ZoneAsked(j) /\ j # k
        /\ \A j, d : RequestAsked(j, d)'
             <=> RequestAsked(j, d) \/ (j = k /\ d \in Children(asked[k]))
        /\ \A j, d, n : ElderlyAsked(j, d, n)' <=> ElderlyAsked(j, d, n)
        /\ \A j, d, n, i : ItemAsked(j, d, n, i)' <=> ItemAsked(j, d, n, i)
        /\ VolunteerRead \notin pending'
    BY <1>3, <1>9, ReadsDiffer DEF ZoneAsked, RequestAsked, ElderlyAsked, ItemAsked
  <2>2. /\ Children(asked[k]) \subseteq Requests /\ IsFiniteSet(Children(asked[k]))
        /\ Cardinality(Children(asked[k])) \in 0 .. Cardinality(Requests)
        /\ Cardinality(Children(asked[k])) # 0
    <3>1. Children(asked[k]) \subseteq Requests
      BY DEF Children
    <3>2. /\ IsFiniteSet(Children(asked[k]))
          /\ Cardinality(Children(asked[k])) <= Cardinality(Requests)
      BY <3>1, FiniteAssumption, FS_Subset
    <3>3. Cardinality(Children(asked[k])) \in Nat /\ Cardinality(Requests) \in Nat
      BY <3>2, FiniteAssumption, FS_CardinalityType
    <3>4. Cardinality(Children(asked[k])) # 0
      BY <1>9, <3>2, FS_EmptySet
    <3>5. QED  BY <3>1, <3>2, <3>3, <3>4
  <2>3. /\ Sought(k)' \subseteq Children(asked[k])
        /\ \A j \in DOMAIN asked \ {k} : Sought(j)' \subseteq Sought(j)
    BY <1>4, <2>1 DEF Sought
  <2>4. ListedZones' = ListedZones
    BY <1>9 DEF ListedZones
  <2>5. /\ reqCounter'[k] = Cardinality(Children(asked[k]))
        /\ \A j \in DOMAIN asked \ {k} : reqCounter'[j] = reqCounter[j]
    BY <1>1, <1>9 DEF ShapeInv
  <2>6. \A j \in DOMAIN asked \ {k} : ZoneInv(j)' /\ Unheard(j)' \subseteq Unheard(j)
    BY <1>1, <1>2, <1>9, <2>1, <2>3, <2>4, <2>5, ZoneKept
  <2>7. ZoneInv(k)'
    <3>1. (Sought(k) \union Unheard(k))' \subseteq Children(asked[k])
      <4>1. Unheard(k)' = Unheard(k)
        BY <1>2, <1>9 DEF Unheard, AlwaysThere
      <4>2. QED  BY <1>6, <2>3, <4>1
    <3>2. Cardinality((Sought(k) \union Unheard(k))') <= reqCounter'[k]
      BY <2>2, <2>5, <3>1, FS_Subset
    <3>3. Existed(asked[k])'
      <4>1. PICK id \in Requests : ZoneOf[id] = asked[k] /\ server[id] # Nothing
        BY <1>9 DEF Children
      <4>2. QED  BY <1>2, <1>3, <4>1 DEF Existed
    <3>4. CountedZone(k)'
      BY <1>2, <1>4, <2>2, <2>4, <2>5, <3>2, <3>3 DEF CountedZone
    <3>5. FreshZone(k)' /\ FoundInZone(k)'
      BY <1>4, <1>9, <2>1 DEF FreshZone, FoundInZone
    <3>6. QED  BY <3>4, <3>5 DEF ZoneInv
  <2>8. ASSUME NEW j \in DOMAIN asked, NEW d \in Requests
        PROVE  SlotInv(j, d)'
    <3>1. CASE j = k
      <4>1. /\ \A n \in Nodes : /\ ~ElderlyAsked(k, d, n)'
                                /\ \A i \in Items : ~ItemAsked(k, d, n, i)'
        BY <1>4, <2>1 DEF Sought
      <4>2. QED  BY <1>4, <1>9, <3>1, <4>1 DEF SlotInv, FreshRequest, ItemsIn, ItemsOut
    <3>2. CASE j # k
      BY <1>1, <1>9, <2>1, <3>2, SlotKept
    <3>3. QED  BY <3>1, <3>2
  <2>9. ShapeInv'
    BY <1>1, <1>2, <1>9, <2>2 DEF ShapeInv, Slots
  <2>10. ReadInv'
    <3>1. ASSUME NEW id \in Children(asked[k]) PROVE Belongs(RequestRead(k, id))'
      BY <1>2 DEF Belongs, Children
    <3>2. \A read \in pending : Belongs(read)'
      BY <1>1, <1>2 DEF ReadInv, Belongs
    <3>3. QED  BY <1>9, <3>1, <3>2 DEF ReadInv
  <2>11. ListInv'
    <3>1. \A j \in DOMAIN zoneRequestsArr : zoneRequestsArr[j].zone # asked[k]
      BY <1>4 DEF ListedZones
    <3>2. ASSUME NEW j \in DOMAIN zoneRequestsArr
          PROVE  \E l \in DOMAIN asked :
                   /\ zoneRequestsArr[j] = [zone |-> asked[l], copies |-> requests[l]]
                   /\ reqCounter'[l] = 0 /\ Existed(asked[l])'
      <4>1. PICK l \in DOMAIN asked :
                   /\ zoneRequestsArr[j] = [zone |-> asked[l], copies |-> requests[l]]
                   /\ reqCounter[l] = 0 /\ Existed(asked[l])
        BY <1>1 DEF ListInv
      <4>2. l # k
        BY <3>1, <4>1
      <4>3. Existed(asked[l])'
        BY <1>2, <4>1 DEF Existed
      <4>4. QED  BY <2>5, <4>1, <4>2, <4>3
    <3>3. QED  BY <1>1, <1>2, <1>9, <3>2 DEF ListInv
  <2>12. CountedZones'
    <3>1. \A j \in DOMAIN asked : Open(j)' => Open(j)
      BY <1>2, <1>7, <2>1, <2>4, <2>5, <2>6 DEF Open, AlwaysExisted
    <3>2. QED  BY <1>1, <1>2, <1>9, <3>1, CounterStays
  <2>13. TypeOK'
    BY <1>1, <1>2, <1>9, <2>9 DEF TypeOK, ShapeInv
  <2>14. PhaseInv'
    BY <1>1, <1>2, <1>3, <1>9, <2>1 DEF PhaseInv
  <2>15. QED
    BY <1>2, <2>6, <2>7, <2>8, <2>9, <2>10, <2>11, <2>12, <2>13, <2>14 DEF Inv
<1>10. QED
  BY <1>8, <1>9 DEF AnswerZone, Answer, AnswerWith

(* What every read of a request tells about the state.                      *)
LEMMA WhileSought ==
  ASSUME Inv, NEW k \in DOMAIN asked, NEW id \in Sought(k)
  PROVE  stage = "fetching" /\ asked # <<>> /\ VolunteerRead \notin pending
<1>1. pending # {}
  BY DEF Sought, RequestAsked, ElderlyAsked, ItemAsked
<1>2. asked # <<>>
  BY DEF Sought
<1>3. QED  BY <1>1, <1>2 DEF Inv, PhaseInv

(* An answer for a request that is not its last.                            *)
LEMMA RequestGoesOn ==
  ASSUME Inv, NEW k \in DOMAIN asked, NEW id \in Sought(k),
         \A j : ZoneAsked(j)' <=> ZoneAsked(j),
         \A j, d : RequestAsked(j, d)' => RequestAsked(j, d),
         \A j, d, n : ElderlyAsked(j, d, n)'
                        => ElderlyAsked(j, d, n) \/ (j = k /\ d = id /\ n \in Nodes),
         \A j, d, n, i : ItemAsked(j, d, n, i)'
                           => ItemAsked(j, d, n, i) \/ (j = k /\ d = id /\ n \in Nodes),
         VolunteerRead \notin pending',
         \A read \in pending' : Belongs(read)',
         SlotInv(k, id)',
         itemCounter'[<<k, id>>] \in 0 .. Cardinality(Items),
         items'[<<k, id>>] \in SUBSET Items,
         itemCounter' = [itemCounter EXCEPT ![<<k, id>>] = itemCounter'[<<k, id>>]],
         items' = [items EXCEPT ![<<k, id>>] = items'[<<k, id>>]],
         UNCHANGED <<server, stage, asked, counter, reqCounter, requests, zoneRequestsArr,
                     changes, versions>>,
         hung' \in BOOLEAN
  PROVE  Inv'
<1>1. /\ TypeOK /\ ShapeInv /\ PhaseInv /\ ReadInv /\ ListInv /\ CountedZones
      /\ \A j \in DOMAIN asked : ZoneInv(j)
      /\ \A j \in DOMAIN asked, d \in Requests : SlotInv(j, d)
  BY DEF Inv
<1>2. stage = "fetching" /\ asked # <<>> /\ id \in Requests /\ ~ZoneAsked(k)
  BY <1>1, WhileSought DEF Sought, ZoneInv, FreshZone
<1>3. \A j : Sought(j)' \subseteq Sought(j)
  BY DEF Sought
<1>4. ListedZones' = ListedZones /\ Slots' = Slots
  BY DEF ListedZones, Slots
<1>5. /\ <<k, id>> \in Slots
      /\ \A j \in DOMAIN asked, d \in Requests : j # k \/ d # id =>
           /\ itemCounter'[<<j, d>>] = itemCounter[<<j, d>>]
           /\ items'[<<j, d>>] = items[<<j, d>>]
  BY <1>1, <1>2 DEF ShapeInv, Slots
<1>6. ShapeInv'
  BY <1>1, <1>4, <1>5 DEF ShapeInv
<1>7. \A j \in DOMAIN asked : ZoneInv(j)' /\ Unheard(j)' \subseteq Unheard(j)
  BY <1>1, <1>2, <1>3, <1>4, <1>5, ZoneKept
<1>8. ASSUME NEW j \in DOMAIN asked, NEW d \in Requests PROVE SlotInv(j, d)'
  <2>1. CASE j # k \/ d # id
    <3>1. /\ RequestAsked(j, d)' => RequestAsked(j, d)
          /\ \A n \in Nodes : /\ ElderlyAsked(j, d, n)' => ElderlyAsked(j, d, n)
                             /\ \A i \in Items : ItemAsked(j, d, n, i)' => ItemAsked(j, d, n, i)
      BY <2>1
    <3>2. items'[<<j, d>>] = items[<<j, d>>] /\ itemCounter'[<<j, d>>] = itemCounter[<<j, d>>]
      BY <1>5, <2>1
    <3>3. QED  BY <1>1, <3>1, <3>2, SlotKept
  <2>2. CASE j = k /\ d = id
    BY <2>2
  <2>3. QED  BY <2>1, <2>2
<1>9. ListInv'
  BY <1>1 DEF ListInv, Existed
<1>10. CountedZones'
  <2>1. \A j \in DOMAIN asked : Open(j)' => Open(j)
    BY <1>4, <1>7 DEF Open, AlwaysExisted
  <2>2. QED  BY <1>1, <2>1, CounterStays
<1>11. TypeOK'
  BY <1>1, <1>6 DEF TypeOK, ShapeInv
<1>12. PhaseInv'
  BY <1>1, <1>2 DEF PhaseInv
<1>13. QED
  BY <1>6, <1>7, <1>8, <1>9, <1>10, <1>11, <1>12 DEF Inv, ReadInv

(* The node of a request: it is skipped, or its items are asked for.        *)
LEMMA RequestStep ==
  ASSUME Inv, NEW k \in DOMAIN asked, NEW id \in Requests, AnswerRequest(k, id) PROVE Inv'
<1>1. /\ TypeOK /\ ShapeInv /\ PhaseInv /\ ReadInv
      /\ ZoneInv(k) /\ SlotInv(k, id)
  BY DEF Inv
<1>2. RequestAsked(k, id) /\ UNCHANGED <<server, asked, changes, versions>>
  BY DEF AnswerRequest, Answer, AnswerWith, RequestAsked
<1>3. id \in Sought(k) /\ ZoneOf[id] = asked[k]
  BY <1>1, <1>2, WhatIsOut
<1>4. /\ stage = "fetching" /\ VolunteerRead \notin pending /\ server[id] \in versions[id]
      /\ ~ZoneAsked(k)
  BY <1>1, <1>3, WhileSought DEF PhaseInv, ZoneInv, FreshZone
<1>5. /\ items[<<k, id>>] = {}
      /\ \A n \in Nodes : ~ElderlyAsked(k, id, n) /\ \A i \in Items : ~ItemAsked(k, id, n, i)
  BY <1>1, <1>2 DEF SlotInv, FreshRequest
<1>6. hung \in BOOLEAN
  BY <1>1 DEF TypeOK
<1>7. CASE /\ ~Readable(id)
           /\ pending' = pending \ {RequestRead(k, id)}
           /\ FinishRequest(k, requests[k])
           /\ UNCHANGED <<itemCounter, items, hung>>
  <2>1. id \notin Sought(k)' /\ Sought(k)' \subseteq Sought(k)
    BY <1>5, <1>7 DEF Sought, RequestAsked, ElderlyAsked, ItemAsked
  <2>2. requests[k] \in SUBSET Copies /\ \A c, d \in requests[k] : c.id = d.id => c = d
    BY <1>1 DEF ShapeInv, ZoneInv, FoundInZone
  <2>3. ~AlwaysThere(id)
    BY <1>4, <1>7 DEF AlwaysThere, Readable
  <2>4. QED
    BY <1>2, <1>3, <1>4, <1>6, <1>7, <2>1, <2>2, <2>3, RequestDone
<1>8. ASSUME NEW node, node = server[id], Readable(id),
             pending' = (pending \ {RequestRead(k, id)})
                          \union {ItemRead(k, id, node, i) : i \in node.content},
             itemCounter' = [itemCounter EXCEPT ![<<k, id>>] = Cardinality(node.content)],
             hung' = (hung \/ node.content = {}),
             UNCHANGED <<stage, counter, reqCounter, requests, items, zoneRequestsArr>>
      PROVE  Inv'
  <2> USE <1>8
  <2>1. node \in Nodes /\ IsReadable(node) /\ node \in versions[id]
    BY <1>1, <1>4 DEF TypeOK, Server, Readable, IsReadable
  <2>2. /\ node.content \subseteq Items /\ IsFiniteSet(node.content)
        /\ Cardinality(node.content) \in 0 .. Cardinality(Items)
    <3>1. node.content \subseteq Items /\ IsFiniteSet(node.content)
      BY <1>1, <2>1, FiniteSets
    <3>2. /\ Cardinality(node.content) <= Cardinality(Items)
          /\ Cardinality(node.content) \in Nat /\ Cardinality(Items) \in Nat
      BY <3>1, FiniteAssumption, FS_Subset, FS_CardinalityType
    <3>3. QED  BY <3>1, <3>2
  <2>3. /\ \A j : ZoneAsked(j)' <=> ZoneAsked(j)
        /\ \A j, d : RequestAsked(j, d)' <=> RequestAsked(j, d) /\ ~(j = k /\ d = id)
        /\ \A j, d, n : ElderlyAsked(j, d, n)' <=> ElderlyAsked(j, d, n)
        /\ \A j, d, n, i : ItemAsked(j, d, n, i)' <=>
             ItemAsked(j, d, n, i) \/ (j = k /\ d = id /\ n = node /\ i \in node.content)
        /\ VolunteerRead \notin pending'
    BY <1>4, ReadsDiffer DEF ZoneAsked, RequestAsked, ElderlyAsked, ItemAsked
  <2>4. itemCounter'[<<k, id>>] = Cardinality(node.content)
    BY <1>1 DEF ShapeInv, Slots
  <2>5. \A read \in pending' : Belongs(read)'
    <3>1. ASSUME NEW i \in node.content PROVE Belongs(ItemRead(k, id, node, i))'
      BY <1>2, <1>3, <2>1 DEF Belongs
    <3>2. \A read \in pending : Belongs(read)'
      BY <1>1, <1>2 DEF ReadInv, Belongs
    <3>3. QED  BY <3>1, <3>2
  <2>6. SlotInv(k, id)'
    <3>1. FreshRequest(k, id)' /\ ItemsIn(k, id)'
      BY <1>5, <2>3 DEF FreshRequest, ItemsIn
    <3>2. ASSUME NEW n \in Nodes, NEW i \in Items, ItemAsked(k, id, n, i)' PROVE n = node
      BY <1>5, <2>3, <3>2
    <3>3. Cardinality(Unfound(k, id, node)') <= itemCounter'[<<k, id>>]
      <4>1. Unfound(k, id, node)' \subseteq node.content
        BY DEF Unfound
      <4>2. QED  BY <2>2, <2>4, <4>1, FS_Subset
    <3>4. ItemsOut(k, id)'
      BY <1>5, <3>2, <3>3 DEF ItemsOut
    <3>5. QED  BY <3>1, <3>4 DEF SlotInv
  <2>7. hung' \in BOOLEAN
    BY <1>6
  <2>8. items' = [items EXCEPT ![<<k, id>>] = items'[<<k, id>>]] /\ items'[<<k, id>>] \in SUBSET Items
    BY <1>1 DEF ShapeInv, Slots
  <2>9. /\ \A j, d : RequestAsked(j, d)' => RequestAsked(j, d)
        /\ \A j, d, n : ElderlyAsked(j, d, n)'
                          => ElderlyAsked(j, d, n) \/ (j = k /\ d = id /\ n \in Nodes)
        /\ \A j, d, n, i : ItemAsked(j, d, n, i)'
                             => ItemAsked(j, d, n, i) \/ (j = k /\ d = id /\ n \in Nodes)
    BY <2>1, <2>3
  <2>10. QED
    BY <1>2, <1>3, <2>2, <2>3, <2>4, <2>5, <2>6, <2>7, <2>8, <2>9, RequestGoesOn
<1>9. QED
  BY <1>7, <1>8 DEF AnswerRequest, Answer, AnswerWith

(* An item: the last one asks for the details of the elderly.               *)
LEMMA ItemStep ==
  ASSUME Inv, NEW k \in DOMAIN asked, NEW id \in Requests, NEW node \in Nodes, NEW item \in Items,
         AnswerItem(k, id, node, item)
  PROVE  Inv'
<1>1. /\ TypeOK /\ ShapeInv /\ PhaseInv /\ ReadInv
      /\ ZoneInv(k) /\ SlotInv(k, id)
  BY DEF Inv
<1>2. /\ ItemAsked(k, id, node, item)
      /\ UNCHANGED <<server, stage, asked, counter, reqCounter, requests, zoneRequestsArr,
                     changes, versions, hung>>
  BY DEF AnswerItem, AnswerWith, ItemAsked
<1>3. /\ id \in Sought(k) /\ ZoneOf[id] = asked[k]
      /\ node \in versions[id] /\ IsReadable(node) /\ item \in node.content
  BY <1>1, <1>2, WhatIsOut
<1>4. VolunteerRead \notin pending
  BY <1>3, WhileSought
<1>5. /\ items[<<k, id>>] \subseteq node.content \intersect Catalogue
      /\ Cardinality(Unfound(k, id, node)) <= itemCounter[<<k, id>>]
      /\ \A n \in Nodes, i \in Items : ItemAsked(k, id, n, i) => n = node
      /\ \A n \in Nodes : ~ElderlyAsked(k, id, n)
      /\ ~RequestAsked(k, id)
  BY <1>1, <1>2 DEF SlotInv, ItemsOut, ItemsIn, FreshRequest
<1>6. /\ <<k, id>> \in Slots
      /\ itemCounter[<<k, id>>] \in 0 .. Cardinality(Items) /\ Cardinality(Items) \in Nat
      /\ items[<<k, id>>] \in SUBSET Items
  BY <1>1, FiniteAssumption, FS_CardinalityType DEF ShapeInv, Slots
<1>7. /\ items' = [items EXCEPT ![<<k, id>>] = @ \union getRequestItem(item)]
      /\ itemCounter' = [itemCounter EXCEPT ![<<k, id>>] = @ - 1]
      /\ pending' = (pending \ {ItemRead(k, id, node, item)}) \union
           (IF itemCounter'[<<k, id>>] = 0 THEN {ElderlyRead(k, id, node)} ELSE {})
  BY DEF AnswerItem, AnswerWith
<1>8. /\ items'[<<k, id>>] = items[<<k, id>>] \union getRequestItem(item)
      /\ itemCounter'[<<k, id>>] = itemCounter[<<k, id>>] - 1
  BY <1>1, <1>6, <1>7 DEF ShapeInv
<1>9. /\ \A j : ZoneAsked(j)' <=> ZoneAsked(j)
      /\ \A j, d : RequestAsked(j, d)' <=> RequestAsked(j, d)
      /\ \A j, d, n : ElderlyAsked(j, d, n)' <=>
           \/ ElderlyAsked(j, d, n)
           \/ j = k /\ d = id /\ n = node /\ itemCounter'[<<k, id>>] = 0
      /\ \A j, d, n, i : ItemAsked(j, d, n, i)' <=>
           ItemAsked(j, d, n, i) /\ ~(j = k /\ d = id /\ n = node /\ i = item)
      /\ VolunteerRead \notin pending'
  <2>1. CASE itemCounter'[<<k, id>>] = 0
    BY <1>4, <1>7, <2>1, ReadsDiffer DEF ZoneAsked, RequestAsked, ElderlyAsked, ItemAsked
  <2>2. CASE itemCounter'[<<k, id>>] # 0
    BY <1>4, <1>7, <2>2, ReadsDiffer DEF ZoneAsked, RequestAsked, ElderlyAsked, ItemAsked
  <2>3. QED  BY <2>1, <2>2
<1>10. /\ Cardinality(Unfound(k, id, node)') <= itemCounter'[<<k, id>>]
       /\ itemCounter'[<<k, id>>] \in 0 .. Cardinality(Items)
       /\ itemCounter'[<<k, id>>] = 0 => Unfound(k, id, node)' = {}
  <2>1. IsFiniteSet(Unfound(k, id, node)) /\ item \in Unfound(k, id, node)
    BY <1>1, <1>2, <1>3, FiniteSets DEF Unfound
  <2>2. Unfound(k, id, node)' \subseteq Unfound(k, id, node) \ {item}
    BY <1>8, <1>9 DEF Unfound, getRequestItem
  <2>3. /\ Cardinality(Unfound(k, id, node)') <= itemCounter[<<k, id>>] - 1
        /\ itemCounter[<<k, id>>] >= 1
    BY <1>5, <1>6, <2>1, <2>2, OneLessOf
  <2>4. IsFiniteSet(Unfound(k, id, node)')
    BY <2>1, <2>2, FS_Subset
  <2>5. itemCounter'[<<k, id>>] = 0 => Unfound(k, id, node)' = {}
    BY <1>8, <2>3, <2>4, NoneOf
  <2>6. QED  BY <1>6, <1>8, <2>3, <2>5
<1>11. /\ items'[<<k, id>>] \subseteq node.content \intersect Catalogue
       /\ items'[<<k, id>>] \in SUBSET Items
  BY <1>3, <1>5, <1>6, <1>8 DEF getRequestItem
<1>12. SlotInv(k, id)'
  <2>1. FreshRequest(k, id)'
    BY <1>5, <1>9 DEF FreshRequest
  <2>2. ItemsOut(k, id)'
    BY <1>5, <1>9, <1>10, <1>11 DEF ItemsOut
  <2>3. ItemsIn(k, id)'
    <3>1. ASSUME itemCounter'[<<k, id>>] = 0
          PROVE  /\ items'[<<k, id>>] = node.content \intersect Catalogue
                 /\ \A n \in Nodes, i \in Items : ~ItemAsked(k, id, n, i)'
      <4>1. \A i \in node.content : ~ItemAsked(k, id, node, i)' /\ (i \in Catalogue => i \in items'[<<k, id>>])
        BY <1>10, <3>1 DEF Unfound
      <4>2. \A n \in Nodes, i \in Items : ItemAsked(k, id, n, i) => n = node /\ i \in node.content
        BY <1>1, <1>5, WhatIsOut
      <4>3. QED  BY <1>9, <1>11, <4>1, <4>2
    <3>2. QED  BY <1>5, <1>9, <3>1 DEF ItemsIn
  <2>4. QED  BY <2>1, <2>2, <2>3 DEF SlotInv
<1>13. \A read \in pending' : Belongs(read)'
  <2>1. Belongs(ElderlyRead(k, id, node))'
    BY <1>2, <1>3 DEF Belongs
  <2>2. \A read \in pending : Belongs(read)'
    BY <1>1, <1>2 DEF ReadInv, Belongs
  <2>3. QED  BY <1>7, <2>1, <2>2
<1>14. /\ itemCounter' = [itemCounter EXCEPT ![<<k, id>>] = itemCounter'[<<k, id>>]]
       /\ items' = [items EXCEPT ![<<k, id>>] = items'[<<k, id>>]]
  BY <1>7, <1>8
<1>15. /\ \A j, d : RequestAsked(j, d)' => RequestAsked(j, d)
       /\ \A j, d, n : ElderlyAsked(j, d, n)'
                         => ElderlyAsked(j, d, n) \/ (j = k /\ d = id /\ n \in Nodes)
       /\ \A j, d, n, i : ItemAsked(j, d, n, i)'
                            => ItemAsked(j, d, n, i) \/ (j = k /\ d = id /\ n \in Nodes)
  BY <1>9
<1>16. hung' \in BOOLEAN
  BY <1>1, <1>2 DEF TypeOK
<1>17. QED
  BY <1>2, <1>3, <1>9, <1>10, <1>11, <1>12, <1>13, <1>14, <1>15, <1>16, RequestGoesOn

(* The details of the elderly: the request is complete.                     *)
LEMMA ElderlyStep ==
  ASSUME Inv, NEW k \in DOMAIN asked, NEW id \in Requests, NEW node \in Nodes,
         AnswerElderly(k, id, node)
  PROVE  Inv'
<1>1. /\ TypeOK /\ ShapeInv /\ ReadInv
      /\ ZoneInv(k) /\ SlotInv(k, id)
  BY DEF Inv
<1>2. /\ ElderlyAsked(k, id, node)
      /\ pending' = pending \ {ElderlyRead(k, id, node)}
      /\ UNCHANGED <<server, asked, itemCounter, items, changes, versions, hung>>
  BY DEF AnswerElderly, Answer, ElderlyAsked
<1>3. /\ id \in Sought(k) /\ ZoneOf[id] = asked[k]
      /\ node \in versions[id] /\ IsReadable(node)
  BY <1>1, <1>2, WhatIsOut
<1>4. stage = "fetching"
  BY <1>3, WhileSought
<1>5. /\ items[<<k, id>>] = node.content \intersect Catalogue
      /\ \A n \in Nodes : /\ ElderlyAsked(k, id, n) => n = node
                          /\ \A i \in Items : ~ItemAsked(k, id, n, i)
      /\ ~RequestAsked(k, id)
  BY <1>1, <1>2 DEF SlotInv, ItemsIn, FreshRequest
<1>6. Sought(k)' \subseteq Sought(k) \ {id}
  <2>1. Sought(k)' \subseteq Sought(k)
    BY <1>2 DEF Sought, RequestAsked, ElderlyAsked, ItemAsked
  <2>2. id \notin Sought(k)'
    BY <1>2, <1>5 DEF Sought, RequestAsked, ElderlyAsked, ItemAsked
  <2>3. QED  BY <2>1, <2>2
<1>7. PICK copy : copy = CopyOf(id, node)
  OBVIOUS
<1>8. copy \in Copies /\ copy.id = id
  BY <1>7, NodesAssumption DEF CopyOf
<1>9. FinishRequest(k, requests[k] \union {copy})
  BY <1>5, <1>7 DEF AnswerElderly, CopyOf
<1>10. /\ requests[k] \in SUBSET Copies
       /\ \A c, d \in requests[k] : c.id = d.id => c = d
       /\ \A c \in requests[k] : c.id # id
  BY <1>1, <1>3 DEF ShapeInv, ZoneInv, FoundInZone
<1>11. hung' \in BOOLEAN
  BY <1>1, <1>2 DEF TypeOK
<1>12. PICK copies \in SUBSET Copies : copies = requests[k] \union {copy}
  BY <1>8, <1>10
<1>13. /\ requests[k] \subseteq copies
       /\ \A c \in copies \ requests[k] :
            c.id = id /\ \E n \in versions[id] : IsReadable(n) /\ c = CopyOf(id, n)
       /\ \A c, d \in copies : c.id = d.id => c = d
       /\ \E c \in copies : c.id = id
  BY <1>3, <1>7, <1>8, <1>10, <1>12
<1>14. pending' \subseteq pending
  BY <1>2
<1>15. QED
  BY <1>2, <1>3, <1>4, <1>6, <1>9, <1>11, <1>12, <1>13, <1>14, RequestDone

(* Every step preserves the invariant.                                      *)
LEMMA InvStep == Inv /\ [Next]_vars => Inv'
<1> SUFFICES ASSUME Inv, [Next]_vars PROVE Inv'
  OBVIOUS
<1>1. CASE AnswerRead
  BY <1>1, VolunteerStep, ZoneStep, RequestStep, ItemStep, ElderlyStep DEF AnswerRead
<1>2. CASE UNCHANGED vars
  <2>1. pending' \subseteq pending /\ UNCHANGED <<stage, asked, tally, server, versions>>
    BY <1>2 DEF vars
  <2>2. TypeOK'
    BY <1>2 DEF Inv, TypeOK, vars, tally
  <2>3. QED  BY <2>1, <2>2, OutsideStep DEF Inv, PhaseInv
<1>3. QED
  BY <1>1, <1>2, RefreshStep, DeniedStep, ServerStep DEF Next

(* The invariant holds throughout.                                          *)
LEMMA AlwaysInv == Spec => []Inv
<1>1. QED  BY InvInit, InvStep, PTL DEF Spec

----------------------------------------------------------------------------
(* What is delivered.                                                       *)

(* Once the list is delivered every zone is closed, and what is in the list *)
(* is what was found in the zones that are listed.                          *)
LEMMA WhenDelivered ==
  ASSUME Inv, stage = "delivered"
  PROVE  /\ asked # <<>> /\ asked \in Seq(Zones)
         /\ \A j, k \in DOMAIN asked : asked[j] = asked[k] => j = k
         /\ \A k \in DOMAIN asked :
              /\ Unheard(k) = {} /\ FoundInZone(k) /\ requests[k] \in SUBSET Copies
              /\ asked[k] \in ListedZones \/ ~AlwaysExisted(asked[k])
         /\ Delivered.zones = ListedZones
         /\ \A z \in ListedZones :
              \E k \in DOMAIN asked : z = asked[k] /\ Existed(z) /\ requests[k] \subseteq Delivered.copies
         /\ \A c \in Delivered.copies :
              \E k \in DOMAIN asked : c \in requests[k] /\ asked[k] \in ListedZones
<1>1. /\ TypeOK /\ ShapeInv /\ PhaseInv /\ ListInv /\ CountedZones
      /\ \A k \in DOMAIN asked : ZoneInv(k)
  BY DEF Inv
<1>2. asked # <<>> /\ counter = 0
  BY <1>1 DEF PhaseInv
<1>3. OpenZones = {}
  BY <1>1, <1>2, FiniteSets, NoneOf DEF CountedZones
<1>4. \A k \in DOMAIN asked :
        /\ Unheard(k) = {} /\ FoundInZone(k) /\ requests[k] \in SUBSET Copies
        /\ asked[k] \in ListedZones \/ ~AlwaysExisted(asked[k])
  BY <1>1, <1>3 DEF OpenZones, Open, ZoneInv, ShapeInv
<1>5. Delivered.zones = ListedZones
  BY DEF Delivered, ListedZones
<1>6. Delivered.copies = UNION {zoneRequestsArr[j].copies : j \in DOMAIN zoneRequestsArr}
  BY DEF Delivered
<1>7. \A j \in DOMAIN zoneRequestsArr : \E k \in DOMAIN asked :
        /\ zoneRequestsArr[j].zone = asked[k] /\ zoneRequestsArr[j].copies = requests[k]
        /\ Existed(asked[k])
  BY <1>1 DEF ListInv
<1>8. ASSUME NEW z \in ListedZones
      PROVE  \E k \in DOMAIN asked :
               z = asked[k] /\ Existed(z) /\ requests[k] \subseteq Delivered.copies
  <2>1. PICK j \in DOMAIN zoneRequestsArr : z = zoneRequestsArr[j].zone
    BY DEF ListedZones
  <2>2. PICK k \in DOMAIN asked :
               /\ zoneRequestsArr[j].zone = asked[k] /\ zoneRequestsArr[j].copies = requests[k]
               /\ Existed(asked[k])
    BY <1>7
  <2>3. requests[k] \subseteq Delivered.copies
    BY <1>6, <2>2
  <2>4. QED  BY <2>1, <2>2, <2>3
<1>9. ASSUME NEW c \in Delivered.copies
      PROVE  \E k \in DOMAIN asked : c \in requests[k] /\ asked[k] \in ListedZones
  <2>1. PICK j \in DOMAIN zoneRequestsArr : c \in zoneRequestsArr[j].copies
    BY <1>6
  <2>2. QED  BY <1>7, <2>1 DEF ListedZones
<1>10. QED  BY <1>1, <1>2, <1>4, <1>5, <1>8, <1>9, AskedZones

(* Such a list is what FetchPromise promises.                               *)
LEMMA DeliveredIsDeliverable ==
  Inv /\ stage = "delivered" =>
    Delivered \in Deliverable({asked[j] : j \in DOMAIN asked}, versions)
<1> SUFFICES ASSUME Inv, stage = "delivered"
             PROVE  Delivered \in Deliverable({asked[j] : j \in DOMAIN asked}, versions)
  OBVIOUS
<1>1. /\ \A j, k \in DOMAIN asked : asked[j] = asked[k] => j = k
      /\ \A k \in DOMAIN asked : asked[k] \in Zones
  BY WhenDelivered
<1>2. \A z \in Delivered.zones :
        \E k \in DOMAIN asked : z = asked[k] /\ Existed(z) /\ requests[k] \subseteq Delivered.copies
  BY WhenDelivered
<1>3. \A c \in Delivered.copies :
        \E k \in DOMAIN asked :
          /\ c \in requests[k] /\ asked[k] \in Delivered.zones /\ c \in Copies
          /\ FoundInZone(k)
  BY WhenDelivered
<1>4. \A c \in Delivered.copies : ZoneOf[c.id] \in Delivered.zones
  BY <1>3 DEF FoundInZone
<1>5. ASSUME NEW c \in Delivered.copies, NEW d \in Delivered.copies, c.id = d.id PROVE c = d
  <2>1. PICK k \in DOMAIN asked : c \in requests[k] /\ FoundInZone(k)
    BY <1>3
  <2>2. PICK l \in DOMAIN asked : d \in requests[l] /\ FoundInZone(l)
    BY <1>3
  <2>3. k = l
    BY <1>1, <1>5, <2>1, <2>2 DEF FoundInZone
  <2>4. QED  BY <1>5, <2>1, <2>2, <2>3 DEF FoundInZone
<1>6. Delivered \in Fetchable
  <2>1. Delivered.zones \in SUBSET Zones /\ Delivered.copies \in SUBSET Copies
    BY <1>1, <1>2, <1>3
  <2>2. Delivered \in ZoneList
    BY <2>1 DEF Delivered, ZoneList
  <2>3. QED  BY <1>4, <1>5, <2>2 DEF Fetchable
<1>7. \A c \in Delivered.copies :
        \E node \in versions[c.id] : IsReadable(node) /\ c = CopyOf(c.id, node)
  BY <1>3 DEF FoundInZone
<1>8. ASSUME NEW id \in Requests, NEW k \in DOMAIN asked, ZoneOf[id] = asked[k], AlwaysThere(id)
      PROVE  \E c \in Delivered.copies : c.id = id
  <2>1. PICK c \in requests[k] : c.id = id
    BY <1>8, WhenDelivered DEF Unheard
  <2>2. AlwaysExisted(asked[k])
    BY <1>8 DEF AlwaysExisted, AlwaysThere, IsReadable
  <2>3. asked[k] \in Delivered.zones
    BY <2>2, WhenDelivered
  <2>4. requests[k] \subseteq Delivered.copies
    BY <1>1, <1>2, <2>3
  <2>5. QED  BY <2>1, <2>4
<1>9. \A z \in Delivered.zones : \E id \in Requests : ZoneOf[id] = z /\ versions[id] # {Nothing}
  BY <1>2 DEF Existed
<1>10. \A k \in DOMAIN asked : asked[k] \notin Delivered.zones =>
         \A id \in Requests : ZoneOf[id] = asked[k] => Nothing \in versions[id]
  BY WhenDelivered DEF AlwaysExisted
<1>11. QED
  <2> DEFINE zones == {asked[j] : j \in DOMAIN asked}
  <2>1. Delivered.zones \subseteq zones
    BY <1>2
  <2>2. \A id \in Requests :
          ZoneOf[id] \in zones /\ (\A node \in versions[id] : IsReadable(node))
            => \E c \in Delivered.copies : c.id = id
    BY <1>8 DEF AlwaysThere
  <2>3. \A id \in Requests : ZoneOf[id] \in zones \ Delivered.zones => Nothing \in versions[id]
    BY <1>10
  <2> HIDE DEF zones
  <2>4. Delivered \in Deliverable(zones, versions)
    BY <1>6, <1>7, <1>9, <2>1, <2>2, <2>3 DEF Deliverable
  <2>5. QED  BY <2>4 DEF zones

----------------------------------------------------------------------------
(* The theorems.                                                            *)

(* The variables keep their types; no counter of the code falls below zero, *)
(* whatever the order of the answers.                                       *)
THEOREM TypeCorrect == Spec => []TypeOK
<1>1. Inv => TypeOK
  BY DEF Inv
<1>2. QED  BY <1>1, AlwaysInv, PTL

(* No answer comes after the list is delivered, so that updateSavedRequests *)
(* is called once per refresh.                                              *)
THEOREM AnswersComeFirst == Spec => []NothingComesLate
<1>1. Inv => NothingComesLate
  BY DEF Inv, PhaseInv, NothingComesLate
<1>2. QED  BY <1>1, AlwaysInv, PTL

(* What fetchAllZoneRequests delivers is a legal argument of                *)
(* updateSavedRequests: each zone and each request once, in its own zone.   *)
THEOREM ListIsFetchable == Spec => []DeliveredFetchable
<1>1. Inv => DeliveredFetchable
  BY DeliveredIsDeliverable DEF DeliveredFetchable, Deliverable, Inv, ListInv
<1>2. QED  BY <1>1, AlwaysInv, PTL

(* A request that getRequest delivers was on the server as it is delivered. *)
THEOREM ListIsTrue == Spec => []DeliveredWasThere
<1>1. Inv => DeliveredWasThere
  BY DeliveredIsDeliverable DEF DeliveredWasThere, Deliverable
<1>2. QED  BY <1>1, AlwaysInv, PTL

(* The counters of getZoneRequests and getRequest let no request be left    *)
(* out that was there all the time, which the update would delete.          *)
THEOREM ListIsComplete == Spec => []ThereIsDelivered
<1>1. Inv => ThereIsDelivered
  <2> SUFFICES ASSUME Inv, stage = "delivered", NEW id \in Requests,
                      NEW k \in DOMAIN asked, asked[k] = ZoneOf[id],
                      \A node \in versions[id] : IsReadable(node)
               PROVE  \E c \in Delivered.copies : c.id = id
    BY DEF ThereIsDelivered
  <2>1. ZoneOf[id] \in {asked[j] : j \in DOMAIN asked}
    OBVIOUS
  <2>2. QED  BY <2>1, DeliveredIsDeliverable DEF Deliverable
<1>2. QED  BY <1>1, AlwaysInv, PTL

(* The promise is stated with the operators of ServerData.                  *)
LEMMA SameOperators ==
  /\ Promise!EmptyList = EmptyList /\ Promise!Server = Server
  /\ \A zones, seen : Promise!Deliverable(zones, seen) = Deliverable(zones, seen)
<1>1. Promise!EmptyList = EmptyList /\ Promise!Server = Server
  BY DEF Promise!EmptyList, EmptyList, Promise!Server, Server
<1>2. Promise!Fetchable = Fetchable
  BY DEF Promise!Fetchable, Promise!ZoneList, Fetchable, ZoneList
<1>3. \A node : Promise!IsReadable(node) <=> IsReadable(node)
  BY DEF Promise!IsReadable, IsReadable
<1>4. \A id, node : Promise!CopyOf(id, node) = CopyOf(id, node)
  BY DEF Promise!CopyOf, CopyOf
<1>5. QED  BY <1>1, <1>2, <1>3, <1>4 DEF Promise!Deliverable, Deliverable

(* What an answer below the node of the volunteer may change.               *)
LEMMA AnswerWithin ==
  ASSUME Inv, NEW k \in DOMAIN asked,
         \/ AnswerZone(k)
         \/ \E id \in Requests : AnswerRequest(k, id)
         \/ \E id \in Requests, node \in Nodes :
              \/ \E item \in Items : AnswerItem(k, id, node, item)
              \/ AnswerElderly(k, id, node)
  PROVE  /\ stage = "fetching" /\ stage' \in {"fetching", "delivered"}
         /\ UNCHANGED <<server, asked, versions>>
<1>1. \E read \in pending : TRUE
  BY DEF AnswerZone, AnswerRequest, AnswerItem, AnswerElderly, Answer, AnswerWith
<1>2. stage = "fetching"
  BY <1>1 DEF Inv, PhaseInv
<1>3. \A list : FinishZone(list) => stage' \in {"fetching", "delivered"}
  BY <1>2 DEF FinishZone
<1>4. \A j, copies : FinishRequest(j, copies) => stage' \in {"fetching", "delivered"}
  BY <1>2, <1>3 DEF FinishRequest
<1>5. CASE AnswerZone(k)
  BY <1>2, <1>3, <1>5 DEF AnswerZone
<1>6. ASSUME NEW id \in Requests, AnswerRequest(k, id)
      PROVE  stage' \in {"fetching", "delivered"} /\ UNCHANGED <<server, asked, versions>>
  BY <1>2, <1>4, <1>6 DEF AnswerRequest
<1>7. ASSUME NEW id \in Requests, NEW node \in Nodes, NEW item \in Items,
             AnswerItem(k, id, node, item)
      PROVE  stage' \in {"fetching", "delivered"} /\ UNCHANGED <<server, asked, versions>>
  BY <1>2, <1>7 DEF AnswerItem
<1>8. ASSUME NEW id \in Requests, NEW node \in Nodes, AnswerElderly(k, id, node)
      PROVE  stage' \in {"fetching", "delivered"} /\ UNCHANGED <<server, asked, versions>>
  BY <1>4, <1>8 DEF AnswerElderly
<1>9. QED  BY <1>2, <1>5, <1>6, <1>7, <1>8

(* The zones that are asked for once the list is delivered.                 *)
LEMMA ZonesOfVolunteer ==
  Inv /\ stage = "delivered" =>
    \E zones \in Assignments \ {Nothing} : asked = zones
  BY DEF Inv, TypeOK, PhaseInv

(* A fetch, with its reads, counters and callbacks abstracted away, does    *)
(* what FetchPromise allows: fetchAllZoneRequests calls onComplete once,    *)
(* with a list that is true of the server, or returns early, or hangs.      *)
THEOREM KeepsPromise == Spec => ImplementsFetchPromise
<1> DEFINE list == IF stage = "delivered" THEN Delivered ELSE EmptyList
           seen == <<server, stage, versions, list>>
<1>1. Init => Promise!Init
  BY SameOperators DEF Init, Promise!Init
<1>2. Inv /\ Inv' /\ (Inv /\ stage = "delivered" =>
                        /\ Delivered \in Deliverable({asked[j] : j \in DOMAIN asked}, versions)
                        /\ \E zones \in Assignments \ {Nothing} : asked = zones)'
        /\ [Next]_vars => [Promise!Next]_seen
  <2> SUFFICES ASSUME Inv, Inv', [Next]_vars,
                      stage' = "delivered" =>
                        /\ Delivered' \in Deliverable({asked'[j] : j \in DOMAIN asked'}, versions')
                        /\ \E zones \in Assignments \ {Nothing} : asked' = zones
               PROVE  [Promise!Next]_seen
    BY DEF Deliverable
  <2>1. CASE Refresh
    BY <2>1, SameOperators DEF Refresh, Promise!Next, Promise!Begin
  <2>2. CASE AnswerVolunteer
    <3>1. stage = "fetching"
      BY <2>2 DEF AnswerVolunteer, Answer, AnswerWith, Inv, PhaseInv
    <3>2. QED
      BY <2>2, <3>1 DEF AnswerVolunteer, Promise!Next, Promise!Abandon
  <2>3. ASSUME NEW k \in DOMAIN asked,
               \/ AnswerZone(k)
               \/ \E id \in Requests : AnswerRequest(k, id)
               \/ \E id \in Requests, node \in Nodes :
                    \/ \E item \in Items : AnswerItem(k, id, node, item)
                    \/ AnswerElderly(k, id, node)
        PROVE  [Promise!Next]_seen
    <3>1. /\ stage = "fetching" /\ stage' \in {"fetching", "delivered"}
          /\ UNCHANGED <<server, asked, versions>>
      BY <2>3, AnswerWithin
    <3>2. CASE stage' = "fetching"
      BY <3>1, <3>2
    <3>3. CASE stage' = "delivered"
      <4>1. PICK zones \in Assignments \ {Nothing} : asked = zones
        BY <3>1, <3>3
      <4>2. Delivered' \in Promise!Deliverable({zones[j] : j \in DOMAIN zones}, versions)
        BY <3>1, <3>3, <4>1, SameOperators
      <4>3. Promise!Deliver
        BY <3>1, <3>3, <4>2 DEF Promise!Deliver
      <4>4. QED  BY <4>3 DEF Promise!Next
    <3>4. QED  BY <3>1, <3>2, <3>3
  <2>4. CASE Denied
    BY <2>4 DEF Denied, Delivered, tally
  <2>5. CASE ServerChanges
    <3>1. list' = list
      BY <2>5 DEF ServerChanges, Delivered, tally
    <3>2. PICK id \in Requests, node \in Nodes \union {Nothing} :
             /\ server' = [server EXCEPT ![id] = node]
             /\ versions' = IF stage = "fetching" THEN [versions EXCEPT ![id] = @ \union {node}]
                            ELSE versions
             /\ UNCHANGED stage
      BY <2>5 DEF ServerChanges
    <3>3. Promise!ServerChanges
      BY <3>1, <3>2 DEF Promise!ServerChanges
    <3>4. QED  BY <3>3 DEF Promise!Next
  <2>6. CASE UNCHANGED vars
    BY <2>6 DEF vars, tally, Delivered
  <2>7. QED
    BY <2>1, <2>2, <2>3, <2>4, <2>5, <2>6 DEF Next, AnswerRead
<1>3. Inv /\ stage = "delivered" =>
        /\ Delivered \in Deliverable({asked[j] : j \in DOMAIN asked}, versions)
        /\ \E zones \in Assignments \ {Nothing} : asked = zones
  BY DeliveredIsDeliverable, ZonesOfVolunteer
<1>4. Inv /\ [Next]_vars => Inv'
  BY InvStep
<1>5. QED
  BY <1>1, <1>2, <1>3, <1>4, InvInit, PTL DEF Spec, ImplementsFetchPromise, Promise!Spec

----------------------------------------------------------------------------
(* Refused reads, and requests without items.                               *)

(* What was refused, or not asked for, is missing from what is counted.     *)
OutZones == {k \in DOMAIN asked : ZoneAsked(k) \/ reqCounter[k] # 0}
OutItems(k, id) == {i \in Items : \E node \in Nodes : ItemAsked(k, id, node, i)}

MissingZone == asked # <<>> /\ Cardinality(OutZones) < counter
MissingRequest(k) == Cardinality(Sought(k)) < reqCounter[k]
MissingItem(k, id) ==
  id \in Sought(k) /\ OutItems(k, id) # {}
    /\ Cardinality(OutItems(k, id)) < itemCounter[<<k, id>>]

Missing ==
  \/ asked = <<>> /\ pending = {}
  \/ MissingZone
  \/ \E k \in DOMAIN asked : MissingRequest(k) \/ \E id \in Requests : MissingItem(k, id)

HungInv == hung => stage = "fetching" /\ Missing

(* The counters bound what is out.                                          *)
LEMMA OutBounds ==
  ASSUME Inv
  PROVE  /\ IsFiniteSet(OutZones) /\ Cardinality(OutZones) \in Nat
         /\ Cardinality(OutZones) <= counter /\ counter \in Nat
         /\ \A k \in DOMAIN asked :
              /\ IsFiniteSet(Sought(k)) /\ Cardinality(Sought(k)) \in Nat
              /\ Cardinality(Sought(k)) <= reqCounter[k] /\ reqCounter[k] \in Nat
              /\ Sought(k) # {} => reqCounter[k] # 0
              /\ \A id \in Requests :
                   /\ IsFiniteSet(OutItems(k, id)) /\ Cardinality(OutItems(k, id)) \in Nat
                   /\ itemCounter[<<k, id>>] \in Nat
                   /\ Cardinality(OutItems(k, id)) <= itemCounter[<<k, id>>]
<1>1. /\ TypeOK /\ ShapeInv /\ ReadInv /\ CountedZones
      /\ \A k \in DOMAIN asked : ZoneInv(k) /\ \A id \in Requests : SlotInv(k, id)
  BY DEF Inv
<1>2. counter \in Nat
  BY <1>1, AskedZones DEF TypeOK
<1>3. OutZones \subseteq OpenZones
  BY DEF OutZones, OpenZones, Open
<1>4. /\ IsFiniteSet(OutZones) /\ Cardinality(OutZones) \in Nat
      /\ Cardinality(OutZones) <= counter
  BY <1>1, <1>2, <1>3, FiniteSets, FewerOf DEF CountedZones
<1>5. ASSUME NEW k \in DOMAIN asked
      PROVE  /\ IsFiniteSet(Sought(k)) /\ Cardinality(Sought(k)) \in Nat
             /\ Cardinality(Sought(k)) <= reqCounter[k] /\ reqCounter[k] \in Nat
             /\ Sought(k) # {} => reqCounter[k] # 0
  <2>1. reqCounter[k] \in Nat
    BY <1>1 DEF ShapeInv
  <2>2. CASE reqCounter[k] = 0
    <3>1. Sought(k) = {}
      BY <1>1, <2>2 DEF ZoneInv, CountedZone
    <3>2. QED  BY <2>1, <2>2, <3>1, FS_EmptySet
  <2>3. CASE reqCounter[k] # 0
    <3>1. Cardinality(Sought(k) \union Unheard(k)) <= reqCounter[k]
      BY <1>1, <2>3 DEF ZoneInv, CountedZone
    <3>2. QED  BY <1>1, <2>1, <2>3, <3>1, FiniteSets, FewerOf
  <2>4. QED  BY <2>2, <2>3
<1>6. ASSUME NEW k \in DOMAIN asked, NEW id \in Requests
      PROVE  /\ IsFiniteSet(OutItems(k, id)) /\ Cardinality(OutItems(k, id)) \in Nat
             /\ itemCounter[<<k, id>>] \in Nat
             /\ Cardinality(OutItems(k, id)) <= itemCounter[<<k, id>>]
  <2>1. itemCounter[<<k, id>>] \in Nat
    BY <1>1 DEF ShapeInv, Slots
  <2>2. CASE OutItems(k, id) = {}
    BY <2>1, <2>2, FS_EmptySet
  <2>3. CASE OutItems(k, id) # {}
    <3>1. PICK node \in Nodes : \E i \in Items : ItemAsked(k, id, node, i)
      BY <2>3 DEF OutItems
    <3>2. /\ Cardinality(Unfound(k, id, node)) <= itemCounter[<<k, id>>]
          /\ \A n \in Nodes, i \in Items : ItemAsked(k, id, n, i) => n = node
      BY <1>1, <3>1 DEF SlotInv, ItemsOut
    <3>3. \A i \in Items : ItemAsked(k, id, node, i) => i \in node.content
      BY <1>1, WhatIsOut
    <3>4. OutItems(k, id) \subseteq Unfound(k, id, node)
      BY <3>2, <3>3 DEF OutItems, Unfound
    <3>5. IsFiniteSet(Unfound(k, id, node))
      BY <1>1, FiniteSets
    <3>6. QED  BY <2>1, <3>2, <3>4, <3>5, FewerOf
  <2>4. QED  BY <2>2, <2>3
<1>7. QED  BY <1>2, <1>4, <1>5, <1>6

(* A part of a zone or a request is out only as long as the whole is.       *)
LEMMA MissingIsOut ==
  ASSUME Inv, NEW k \in DOMAIN asked, MissingRequest(k) \/ \E id \in Requests : MissingItem(k, id)
  PROVE  k \in OutZones
<1>1. reqCounter[k] # 0
  <2>1. CASE MissingRequest(k)
    BY <2>1, OutBounds DEF MissingRequest
  <2>2. CASE \E id \in Requests : MissingItem(k, id)
    BY <2>2, OutBounds DEF MissingItem
  <2>3. QED  BY <2>1, <2>2
<1>2. QED  BY <1>1 DEF OutZones

(* A zone that is answered leaves the others as they are.                   *)
LEMMA ZoneAnswered ==
  ASSUME Inv, HungInv, stage = "fetching", asked # <<>>, asked' = asked, hung' = hung,
         NEW k \in OutZones, OutZones' \subseteq OutZones \ {k},
         ~MissingRequest(k), \A id \in Requests : ~MissingItem(k, id),
         \A j \in DOMAIN asked \ {k} :
           /\ MissingRequest(j) => MissingRequest(j)'
           /\ \A id \in Requests : MissingItem(j, id) => MissingItem(j, id)',
         counter' = counter - 1, stage' = IF counter' = 0 THEN "delivered" ELSE stage
  PROVE  HungInv'
<1> SUFFICES ASSUME hung
             PROVE  /\ counter' # 0
                    /\ \/ MissingZone'
                       \/ \E j \in DOMAIN asked :
                            MissingRequest(j)' \/ \E id \in Requests : MissingItem(j, id)'
  BY DEF HungInv, Missing
<1>1. /\ IsFiniteSet(OutZones) /\ Cardinality(OutZones) \in Nat
      /\ Cardinality(OutZones) <= counter /\ counter \in Nat
  BY OutBounds
<1>2. CASE MissingZone
  <2>1. counter - 1 \in Nat /\ Cardinality(OutZones) <= counter - 1
    BY <1>1, <1>2 DEF MissingZone
  <2>2. Cardinality(OutZones') <= counter - 2 /\ Cardinality(OutZones') \in Nat /\ counter - 1 >= 1
    BY <1>1, <2>1, OneLessOf
  <2>3. QED  BY <1>1, <2>2 DEF MissingZone
<1>3. ASSUME NEW j \in DOMAIN asked, MissingRequest(j) \/ \E id \in Requests : MissingItem(j, id)
      PROVE  /\ counter' # 0
             /\ MissingRequest(j)' \/ \E id \in Requests : MissingItem(j, id)'
  <2>1. j # k /\ j \in OutZones
    BY <1>3, MissingIsOut
  <2>2. Cardinality({j}) <= counter - 1
    BY <1>1, <2>1, OneLessOf
  <2>3. Cardinality({j}) = 1
    BY FS_Singleton
  <2>4. QED  BY <1>1, <1>3, <2>1, <2>2, <2>3
<1>4. QED  BY <1>2, <1>3 DEF HungInv, Missing

(* The callback of getRequest.                                              *)
LEMMA RequestAnswered ==
  ASSUME Inv, HungInv, hung' = hung, asked' = asked, NEW k \in DOMAIN asked, NEW id \in Requests,
         id \in Sought(k), OutItems(k, id) = {}, NEW copies, FinishRequest(k, copies),
         itemCounter' = itemCounter,
         Sought(k)' = Sought(k) \ {id},
         \A j \in DOMAIN asked \ {k} : Sought(j)' = Sought(j),
         \A j \in DOMAIN asked, d \in Requests : OutItems(j, d)' = OutItems(j, d),
         \A j : ZoneAsked(j)' <=> ZoneAsked(j)
  PROVE  HungInv'
<1>1. stage = "fetching" /\ asked # <<>> /\ ~ZoneAsked(k)
  BY WhileSought DEF Inv, ZoneInv, FreshZone
<1>2. /\ IsFiniteSet(Sought(k)) /\ Cardinality(Sought(k)) \in Nat
      /\ Cardinality(Sought(k)) <= reqCounter[k] /\ reqCounter[k] \in Nat /\ reqCounter[k] # 0
  BY OutBounds
<1>3. /\ reqCounter'[k] = reqCounter[k] - 1
      /\ \A j \in DOMAIN asked \ {k} : reqCounter'[j] = reqCounter[j]
      /\ DOMAIN asked' = DOMAIN asked
  BY DEF Inv, ShapeInv, FinishRequest
<1>4. \A j \in DOMAIN asked \ {k} :
        /\ MissingRequest(j) => MissingRequest(j)'
        /\ \A d \in Requests : MissingItem(j, d) => MissingItem(j, d)'
  BY <1>3 DEF MissingRequest, MissingItem
<1>5. CASE reqCounter'[k] = 0
  <2>1. counter' = counter - 1 /\ stage' = IF counter' = 0 THEN "delivered" ELSE stage
    BY <1>5 DEF FinishRequest, FinishZone
  <2>2. \A d \in Sought(k) : d = id
    <3> SUFFICES ASSUME NEW d \in Sought(k), d # id PROVE FALSE
      OBVIOUS
    <3>1. Cardinality({d}) <= reqCounter[k] - 1
      BY <1>2, OneLessOf
    <3>2. Cardinality({d}) = 1
      BY FS_Singleton
    <3>3. QED  BY <1>2, <1>3, <1>5, <3>1, <3>2
  <2>3. ~MissingRequest(k)
    <3>1. Cardinality({id}) <= Cardinality(Sought(k))
      BY <1>2, FS_Subset
    <3>2. Cardinality({id}) = 1
      BY FS_Singleton
    <3>3. QED  BY <1>2, <1>3, <1>5, <3>1, <3>2 DEF MissingRequest
  <2>4. \A d \in Requests : ~MissingItem(k, d)
    BY <2>2 DEF MissingItem
  <2>5. k \in OutZones /\ OutZones' \subseteq OutZones \ {k}
    BY <1>1, <1>2, <1>3, <1>5 DEF OutZones
  <2>6. QED
    BY <1>1, <1>4, <2>1, <2>3, <2>4, <2>5, ZoneAnswered
<1>6. CASE reqCounter'[k] # 0
  <2> SUFFICES ASSUME hung PROVE stage' = "fetching" /\ Missing'
    BY DEF HungInv
  <2>1. stage' = stage /\ counter' = counter
    BY <1>6 DEF FinishRequest
  <2>2. OutZones' = OutZones
    BY <1>1, <1>2, <1>3, <1>6 DEF OutZones
  <2>3. MissingZone => MissingZone'
    BY <2>1, <2>2 DEF MissingZone
  <2>4. ASSUME MissingRequest(k) PROVE MissingRequest(k)'
    <3>1. reqCounter[k] - 1 \in Nat /\ Cardinality(Sought(k)) <= reqCounter[k] - 1
      BY <1>2, <2>4 DEF MissingRequest
    <3>2. /\ Cardinality(Sought(k) \ {id}) <= reqCounter[k] - 2
          /\ Cardinality(Sought(k) \ {id}) \in Nat
      BY <1>2, <3>1, OneLessOf
    <3>3. QED  BY <1>2, <1>3, <3>2 DEF MissingRequest
  <2>5. \A d \in Requests : MissingItem(k, d) => MissingItem(k, d)'
    BY DEF MissingItem
  <2>6. Missing
    BY DEF HungInv
  <2>7. Missing'
    BY <1>1, <1>3, <1>4, <2>3, <2>4, <2>5, <2>6 DEF Missing
  <2>8. QED  BY <1>1, <2>1, <2>7
<1>7. QED  BY <1>5, <1>6

(* Nothing is missing at a zone that was not read yet, ...                  *)
LEMMA HungZone ==
  ASSUME Inv, HungInv, NEW k \in DOMAIN asked, AnswerZone(k) PROVE HungInv'
<1>1. /\ ZoneAsked(k) /\ UNCHANGED <<asked, hung>>
      /\ Sought(k) = {} /\ reqCounter[k] = 0 /\ k \in OutZones
  BY DEF Inv, ZoneInv, FreshZone, AnswerZone, Answer, AnswerWith, ZoneAsked, OutZones
<1>2. stage = "fetching" /\ asked # <<>>
  BY <1>1 DEF Inv, PhaseInv, ZoneAsked
<1>3. ~MissingRequest(k) /\ \A id \in Requests : ~MissingItem(k, id)
  BY <1>1, OutBounds DEF MissingRequest, MissingItem
<1>4. CASE /\ pending' = pending \ {ZoneRead(k)}
           /\ FinishZone(zoneRequestsArr)
           /\ UNCHANGED <<reqCounter, itemCounter>>
  <2>1. counter' = counter - 1 /\ stage' = IF counter' = 0 THEN "delivered" ELSE stage
    BY <1>4 DEF FinishZone
  <2>2. /\ \A j : ZoneAsked(j)' <=> ZoneAsked(j) /\ j # k
        /\ \A j, d : RequestAsked(j, d)' <=> RequestAsked(j, d)
        /\ \A j, d, n : ElderlyAsked(j, d, n)' <=> ElderlyAsked(j, d, n)
        /\ \A j, d, n, i : ItemAsked(j, d, n, i)' <=> ItemAsked(j, d, n, i)
    BY <1>4, ReadsDiffer DEF ZoneAsked, RequestAsked, ElderlyAsked, ItemAsked
  <2>3. /\ \A j : Sought(j)' = Sought(j)
        /\ \A j, d : OutItems(j, d)' = OutItems(j, d)
    BY <2>2 DEF Sought, OutItems
  <2>4. \A j \in DOMAIN asked :
          /\ MissingRequest(j) => MissingRequest(j)'
          /\ \A d \in Requests : MissingItem(j, d) => MissingItem(j, d)'
    BY <1>4, <2>3 DEF MissingRequest, MissingItem
  <2>5. OutZones' \subseteq OutZones \ {k}
    BY <1>1, <1>4, <2>2 DEF OutZones
  <2>6. QED  BY <1>1, <1>2, <1>3, <2>1, <2>4, <2>5, ZoneAnswered
<1>5. CASE /\ Children(asked[k]) # {}
           /\ pending' = (pending \ {ZoneRead(k)})
                           \union {RequestRead(k, id) : id \in Children(asked[k])}
           /\ reqCounter' = [reqCounter EXCEPT ![k] = Cardinality(Children(asked[k]))]
           /\ UNCHANGED <<stage, counter, itemCounter>>
  <2> SUFFICES ASSUME hung PROVE Missing'
    BY <1>1, <1>2, <1>5 DEF HungInv
  <2>1. /\ \A j : ZoneAsked(j)' <=> ZoneAsked(j) /\ j # k
        /\ \A j, d : RequestAsked(j, d)'
             <=> RequestAsked(j, d) \/ (j = k /\ d \in Children(asked[k]))
        /\ \A j, d, n : ElderlyAsked(j, d, n)' <=> ElderlyAsked(j, d, n)
        /\ \A j, d, n, i : ItemAsked(j, d, n, i)' <=> ItemAsked(j, d, n, i)
    BY <1>5, ReadsDiffer DEF ZoneAsked, RequestAsked, ElderlyAsked, ItemAsked
  <2>2. /\ \A j \in DOMAIN asked \ {k} : Sought(j)' = Sought(j) /\ reqCounter'[j] = reqCounter[j]
        /\ \A j, d : OutItems(j, d)' = OutItems(j, d)
    BY <1>5, <2>1 DEF Sought, OutItems, Inv, ShapeInv
  <2>3. \A j \in DOMAIN asked \ {k} :
          /\ MissingRequest(j) => MissingRequest(j)'
          /\ \A d \in Requests : MissingItem(j, d) => MissingItem(j, d)'
    BY <1>5, <2>2 DEF MissingRequest, MissingItem
  <2>4. OutZones' \subseteq OutZones
    BY <1>1, <2>1, <2>2 DEF OutZones
  <2>5. MissingZone => MissingZone'
    <3>1. Cardinality(OutZones') <= Cardinality(OutZones) /\ Cardinality(OutZones') \in Nat
      BY <2>4, OutBounds, FS_Subset, FS_CardinalityType
    <3>2. QED  BY <1>1, <1>5, <3>1, OutBounds DEF MissingZone
  <2>6. QED
    BY <1>1, <1>2, <1>3, <2>3, <2>5 DEF HungInv, Missing
<1>6. QED
  BY <1>4, <1>5 DEF AnswerZone, Answer, AnswerWith

(* ... or at a request that was not read yet.                               *)
LEMMA NothingMissingYet ==
  ASSUME Inv, NEW k \in DOMAIN asked, NEW id \in Requests, RequestAsked(k, id)
  PROVE  /\ id \in Sought(k) /\ OutItems(k, id) = {}
         /\ stage = "fetching" /\ asked # <<>>
<1>1. id \in Sought(k)
  BY WhatIsOut DEF Inv
<1>2. OutItems(k, id) = {}
  BY DEF Inv, SlotInv, FreshRequest, OutItems
<1>3. QED  BY <1>1, <1>2, WhileSought

(* A request that will never be completed is counted for ever.              *)
LEMMA RequestLost ==
  ASSUME Inv, NEW k \in DOMAIN asked, NEW id \in Sought(k), asked' = asked, stage' = stage,
         reqCounter' = reqCounter, Sought(k)' \subseteq Sought(k) \ {id}
  PROVE  HungInv'
<1>1. stage = "fetching"
  BY WhileSought
<1>2. Cardinality(Sought(k)') <= reqCounter[k] - 1 /\ Cardinality(Sought(k)') \in Nat
  BY OutBounds, OneLessOf
<1>3. MissingRequest(k)'
  BY <1>2, OutBounds DEF MissingRequest
<1>4. QED  BY <1>1, <1>3 DEF HungInv, Missing

LEMMA HungRequest ==
  ASSUME Inv, HungInv, NEW k \in DOMAIN asked, NEW id \in Requests, AnswerRequest(k, id)
  PROVE  HungInv'
<1>1. RequestAsked(k, id) /\ asked' = asked
  BY DEF AnswerRequest, Answer, AnswerWith, RequestAsked
<1>2. /\ id \in Sought(k) /\ OutItems(k, id) = {} /\ stage = "fetching" /\ asked # <<>>
      /\ \A n \in Nodes : ~ElderlyAsked(k, id, n) /\ \A i \in Items : ~ItemAsked(k, id, n, i)
  BY <1>1, NothingMissingYet DEF Inv, SlotInv, FreshRequest
<1>3. CASE /\ pending' = pending \ {RequestRead(k, id)}
           /\ FinishRequest(k, requests[k])
           /\ UNCHANGED <<itemCounter, hung>>
  <2>1. /\ \A j : ZoneAsked(j)' <=> ZoneAsked(j)
        /\ \A j, d : RequestAsked(j, d)' <=> RequestAsked(j, d) /\ ~(j = k /\ d = id)
        /\ \A j, d, n : ElderlyAsked(j, d, n)' <=> ElderlyAsked(j, d, n)
        /\ \A j, d, n, i : ItemAsked(j, d, n, i)' <=> ItemAsked(j, d, n, i)
    BY <1>3, ReadsDiffer DEF ZoneAsked, RequestAsked, ElderlyAsked, ItemAsked
  <2>2. /\ Sought(k)' = Sought(k) \ {id}
        /\ \A j \in DOMAIN asked \ {k} : Sought(j)' = Sought(j)
        /\ \A j \in DOMAIN asked, d \in Requests : OutItems(j, d)' = OutItems(j, d)
    BY <1>2, <2>1 DEF Sought, OutItems
  <2>3. QED  BY <1>1, <1>2, <1>3, <2>1, <2>2, RequestAnswered
<1>4. ASSUME NEW node, node = server[id], Readable(id),
             pending' = (pending \ {RequestRead(k, id)})
                          \union {ItemRead(k, id, node, i) : i \in node.content},
             itemCounter' = [itemCounter EXCEPT ![<<k, id>>] = Cardinality(node.content)],
             hung' = (hung \/ node.content = {}),
             UNCHANGED <<stage, counter, reqCounter>>
      PROVE  HungInv'
  <2> USE <1>4
  <2>1. /\ \A j : ZoneAsked(j)' <=> ZoneAsked(j)
        /\ \A j, d : RequestAsked(j, d)' <=> RequestAsked(j, d) /\ ~(j = k /\ d = id)
        /\ \A j, d, n : ElderlyAsked(j, d, n)' <=> ElderlyAsked(j, d, n)
        /\ \A j, d, n, i : ItemAsked(j, d, n, i)' <=>
             ItemAsked(j, d, n, i) \/ (j = k /\ d = id /\ n = node /\ i \in node.content)
    BY ReadsDiffer DEF ZoneAsked, RequestAsked, ElderlyAsked, ItemAsked
  <2>2. CASE node.content = {}
    <3>1. Sought(k)' \subseteq Sought(k) \ {id}
      BY <1>2, <2>1, <2>2 DEF Sought
    <3>2. QED  BY <1>1, <1>2, <3>1, RequestLost
  <2>3. CASE node.content # {}
    <3> SUFFICES ASSUME hung PROVE Missing'
      BY <1>2, <2>3 DEF HungInv
    <3>1. node \in Nodes /\ node.content \subseteq Items
      BY FiniteSets DEF Inv, TypeOK, Server, Readable, IsReadable
    <3>2. \A j : Sought(j)' = Sought(j)
      <4>1. \A j, d : j # k \/ d # id => (d \in Sought(j)' <=> d \in Sought(j))
        BY <2>1 DEF Sought
      <4>2. id \in Sought(k)'
        BY <2>1, <2>3, <3>1 DEF Sought
      <4>3. \A j : Sought(j) \subseteq Requests /\ Sought(j)' \subseteq Requests
        BY DEF Sought
      <4>4. \A j, d : d \in Sought(j)' <=> d \in Sought(j)
        BY ONLY <1>2, <4>1, <4>2
      <4>5. QED  BY <4>3, <4>4
    <3>3. OutZones' = OutZones
      BY <1>1, <2>1 DEF OutZones
    <3>4. MissingZone => MissingZone'
      BY <1>1, <3>3 DEF MissingZone
    <3>5. \A j \in DOMAIN asked : MissingRequest(j) => MissingRequest(j)'
      BY <3>2 DEF MissingRequest
    <3>6. ASSUME NEW j \in DOMAIN asked, NEW d \in Requests, MissingItem(j, d)
          PROVE  MissingItem(j, d)'
      <4>1. j # k \/ d # id
        BY <1>2, <3>6 DEF MissingItem
      <4>2. OutItems(j, d)' = OutItems(j, d)
        BY <2>1, <4>1 DEF OutItems
      <4>3. itemCounter'[<<j, d>>] = itemCounter[<<j, d>>]
        BY <4>1 DEF Inv, ShapeInv, Slots
      <4>4. QED  BY <3>2, <3>6, <4>2, <4>3 DEF MissingItem
    <3>7. QED  BY <1>1, <1>2, <3>4, <3>5, <3>6 DEF HungInv, Missing
  <2>4. QED  BY <2>2, <2>3
<1>5. QED
  BY <1>3, <1>4 DEF AnswerRequest, Answer, AnswerWith

LEMMA HungItem ==
  ASSUME Inv, HungInv, NEW k \in DOMAIN asked, NEW id \in Requests,
         NEW node \in Nodes, NEW item \in Items, AnswerItem(k, id, node, item)
  PROVE  HungInv'
<1>1. /\ ItemAsked(k, id, node, item) /\ item \in OutItems(k, id)
      /\ UNCHANGED <<stage, asked, counter, reqCounter, hung>>
  BY DEF AnswerItem, AnswerWith, ItemAsked, OutItems
<1>2. /\ id \in Sought(k) /\ ~RequestAsked(k, id)
      /\ \A n \in Nodes : ~ElderlyAsked(k, id, n)
      /\ \A n \in Nodes, i \in Items : ItemAsked(k, id, n, i) => n = node
  BY <1>1, WhatIsOut DEF Inv, SlotInv, FreshRequest, ItemsIn, ItemsOut
<1>3. stage = "fetching" /\ asked # <<>>
  BY <1>2, WhileSought
<1>4. /\ itemCounter'[<<k, id>>] = itemCounter[<<k, id>>] - 1
      /\ \A j \in DOMAIN asked, d \in Requests : j # k \/ d # id =>
           itemCounter'[<<j, d>>] = itemCounter[<<j, d>>]
  BY DEF AnswerItem, Inv, ShapeInv, Slots
<1>5. /\ \A j : ZoneAsked(j)' <=> ZoneAsked(j)
      /\ \A j, d : RequestAsked(j, d)' <=> RequestAsked(j, d)
      /\ \A j, d, n : ElderlyAsked(j, d, n)' <=>
           \/ ElderlyAsked(j, d, n)
           \/ j = k /\ d = id /\ n = node /\ itemCounter'[<<k, id>>] = 0
      /\ \A j, d, n, i : ItemAsked(j, d, n, i)' <=>
           ItemAsked(j, d, n, i) /\ ~(j = k /\ d = id /\ n = node /\ i = item)
  <2>1. pending' = (pending \ {ItemRead(k, id, node, item)}) \union
          (IF itemCounter'[<<k, id>>] = 0 THEN {ElderlyRead(k, id, node)} ELSE {})
    BY DEF AnswerItem, AnswerWith
  <2>2. CASE itemCounter'[<<k, id>>] = 0
    BY <2>1, <2>2, ReadsDiffer DEF ZoneAsked, RequestAsked, ElderlyAsked, ItemAsked
  <2>3. CASE itemCounter'[<<k, id>>] # 0
    BY <2>1, <2>3, ReadsDiffer DEF ZoneAsked, RequestAsked, ElderlyAsked, ItemAsked
  <2>4. QED  BY <2>2, <2>3
<1>6. /\ OutItems(k, id)' = OutItems(k, id) \ {item}
      /\ \A j \in DOMAIN asked, d \in Requests :
           j # k \/ d # id => OutItems(j, d)' = OutItems(j, d)
  BY <1>2, <1>5 DEF OutItems
<1>7. /\ \A j \in DOMAIN asked \ {k} : Sought(j)' = Sought(j)
      /\ Sought(k) \ {id} = Sought(k)' \ {id}
  BY <1>5 DEF Sought
<1>8. CASE OutItems(k, id)' = {} /\ itemCounter'[<<k, id>>] # 0
  <2>1. id \notin Sought(k)'
    BY <1>2, <1>5, <1>6, <1>8 DEF Sought, OutItems
  <2>2. QED  BY <1>1, <1>2, <1>7, <2>1, RequestLost
<1>9. CASE OutItems(k, id)' # {} \/ itemCounter'[<<k, id>>] = 0
  <2> SUFFICES ASSUME hung PROVE Missing'
    BY <1>1, <1>3 DEF HungInv
  <2>1. id \in Sought(k)'
    <3>1. CASE itemCounter'[<<k, id>>] = 0
      BY <1>5, <3>1 DEF Sought
    <3>2. CASE OutItems(k, id)' # {}
      BY <3>2 DEF OutItems, Sought
    <3>3. QED  BY <1>9, <3>1, <3>2
  <2>2. \A j \in DOMAIN asked : Sought(j)' = Sought(j)
    BY <1>2, <1>7, <2>1
  <2>3. OutZones' = OutZones
    BY <1>1, <1>5 DEF OutZones
  <2>4. MissingZone => MissingZone'
    BY <1>1, <2>3 DEF MissingZone
  <2>5. \A j \in DOMAIN asked : MissingRequest(j) => MissingRequest(j)'
    BY <1>1, <2>2 DEF MissingRequest
  <2>6. ASSUME NEW j \in DOMAIN asked, NEW d \in Requests, j # k \/ d # id, MissingItem(j, d)
        PROVE  MissingItem(j, d)'
    BY <1>4, <1>6, <2>2, <2>6 DEF MissingItem
  <2>7. ASSUME MissingItem(k, id) PROVE MissingItem(k, id)'
    <3>1. /\ itemCounter[<<k, id>>] - 1 \in Nat
          /\ Cardinality(OutItems(k, id)) <= itemCounter[<<k, id>>] - 1
      BY <2>7, OutBounds DEF MissingItem
    <3>2. /\ Cardinality(OutItems(k, id) \ {item}) <= itemCounter[<<k, id>>] - 2
          /\ Cardinality(OutItems(k, id) \ {item}) \in Nat
      BY <1>1, <3>1, OutBounds, OneLessOf
    <3>3. Cardinality(OutItems(k, id)') < itemCounter'[<<k, id>>]
      BY <1>4, <1>6, <3>2, OutBounds
    <3>4. OutItems(k, id)' # {}
      BY <1>4, <1>6, <1>9, <3>2, OutBounds
    <3>5. QED  BY <2>1, <3>3, <3>4 DEF MissingItem
  <2>8. QED
    BY <1>1, <1>3, <2>4, <2>5, <2>6, <2>7 DEF HungInv, Missing
<1>10. QED  BY <1>8, <1>9

LEMMA HungElderly ==
  ASSUME Inv, HungInv, NEW k \in DOMAIN asked, NEW id \in Requests, NEW node \in Nodes,
         AnswerElderly(k, id, node)
  PROVE  HungInv'
<1>1. /\ ElderlyAsked(k, id, node) /\ pending' = pending \ {ElderlyRead(k, id, node)}
      /\ UNCHANGED <<asked, itemCounter, hung>>
  BY DEF AnswerElderly, Answer, ElderlyAsked
<1>2. /\ id \in Sought(k) /\ ~RequestAsked(k, id)
      /\ \A n \in Nodes : /\ ElderlyAsked(k, id, n) => n = node
                          /\ \A i \in Items : ~ItemAsked(k, id, n, i)
  BY <1>1, WhatIsOut DEF Inv, SlotInv, FreshRequest, ItemsIn
<1>3. /\ \A j : ZoneAsked(j)' <=> ZoneAsked(j)
      /\ \A j, d : RequestAsked(j, d)' <=> RequestAsked(j, d)
      /\ \A j, d, n : ElderlyAsked(j, d, n)'
           <=> ElderlyAsked(j, d, n) /\ ~(j = k /\ d = id /\ n = node)
      /\ \A j, d, n, i : ItemAsked(j, d, n, i)' <=> ItemAsked(j, d, n, i)
  BY <1>1, ReadsDiffer DEF ZoneAsked, RequestAsked, ElderlyAsked, ItemAsked
<1>4. /\ Sought(k)' = Sought(k) \ {id} /\ OutItems(k, id) = {}
      /\ \A j \in DOMAIN asked \ {k} : Sought(j)' = Sought(j)
      /\ \A j \in DOMAIN asked, d \in Requests : OutItems(j, d)' = OutItems(j, d)
  BY <1>2, <1>3 DEF Sought, OutItems
<1>5. PICK copies : FinishRequest(k, copies)
  BY DEF AnswerElderly
<1>6. QED  BY <1>1, <1>2, <1>3, <1>4, <1>5, RequestAnswered

(* A read that is refused leaves its place on every counter above it.       *)
LEMMA HungDenied ==
  ASSUME Inv, Denied PROVE HungInv'
<1>1. PICK read \in pending : pending' = pending \ {read}
  BY DEF Denied, Answer
<1>2. /\ stage' = stage /\ asked' = asked /\ counter' = counter /\ reqCounter' = reqCounter
      /\ itemCounter' = itemCounter /\ stage = "fetching"
  BY <1>1 DEF Denied, tally, Inv, PhaseInv
<1>3. Belongs(read)
  BY DEF Inv, ReadInv
<1>4. CASE read = VolunteerRead
  <2>1. asked = <<>> /\ pending' = {}
    BY <1>1, <1>4 DEF Inv, PhaseInv
  <2>2. QED  BY <1>2, <2>1 DEF HungInv, Missing
<1>5. ASSUME NEW k \in DOMAIN asked, read = ZoneRead(k) PROVE HungInv'
  <2>1. k \in OutZones /\ reqCounter[k] = 0 /\ asked # <<>>
    BY <1>5 DEF OutZones, ZoneAsked, Inv, ZoneInv, FreshZone
  <2>2. OutZones' \subseteq OutZones \ {k}
    BY <1>1, <1>2, <1>5, <2>1 DEF OutZones, ZoneAsked
  <2>3. Cardinality(OutZones') <= counter - 1 /\ Cardinality(OutZones') \in Nat
    BY <2>1, <2>2, OutBounds, OneLessOf
  <2>4. MissingZone'
    BY <1>2, <2>1, <2>3, OutBounds DEF MissingZone
  <2>5. QED  BY <1>2, <2>4 DEF HungInv, Missing
<1>6. ASSUME NEW k \in DOMAIN asked, NEW id \in Requests, read = RequestRead(k, id)
      PROVE  HungInv'
  <2>1. RequestAsked(k, id)
    BY <1>6 DEF RequestAsked
  <2>2. /\ id \in Sought(k)
        /\ \A n \in Nodes : ~ElderlyAsked(k, id, n) /\ \A i \in Items : ~ItemAsked(k, id, n, i)
    BY <2>1, NothingMissingYet DEF Inv, SlotInv, FreshRequest
  <2>3. Sought(k)' \subseteq Sought(k) \ {id}
    BY <1>1, <1>6, <2>2 DEF Sought, RequestAsked, ElderlyAsked, ItemAsked
  <2>4. QED  BY <1>2, <2>2, <2>3, RequestLost
<1>7. ASSUME NEW k \in DOMAIN asked, NEW id \in Requests, NEW node \in Nodes,
             read = ElderlyRead(k, id, node)
      PROVE  HungInv'
  <2>1. ElderlyAsked(k, id, node)
    BY <1>7 DEF ElderlyAsked
  <2>2. /\ id \in Sought(k) /\ ~RequestAsked(k, id)
        /\ \A n \in Nodes : /\ ElderlyAsked(k, id, n) => n = node
                            /\ \A i \in Items : ~ItemAsked(k, id, n, i)
    BY <2>1, WhatIsOut DEF Inv, SlotInv, FreshRequest, ItemsIn
  <2>3. Sought(k)' \subseteq Sought(k) \ {id}
    BY <1>1, <1>7, <2>2 DEF Sought, RequestAsked, ElderlyAsked, ItemAsked
  <2>4. QED  BY <1>2, <2>2, <2>3, RequestLost
<1>8. ASSUME NEW k \in DOMAIN asked, NEW id \in Requests, NEW node \in Nodes, NEW item \in Items,
             read = ItemRead(k, id, node, item)
      PROVE  HungInv'
  <2>1. ItemAsked(k, id, node, item) /\ item \in OutItems(k, id)
    BY <1>8 DEF ItemAsked, OutItems
  <2>2. /\ id \in Sought(k) /\ ~RequestAsked(k, id) /\ asked # <<>>
        /\ \A n \in Nodes : ~ElderlyAsked(k, id, n)
        /\ \A n \in Nodes, i \in Items : ItemAsked(k, id, n, i) => n = node
    <3>1. id \in Sought(k) /\ SlotInv(k, id)
      BY <2>1, WhatIsOut DEF Inv
    <3>2. asked # <<>>
      BY <3>1, WhileSought
    <3>3. QED  BY <2>1, <3>1, <3>2 DEF SlotInv, FreshRequest, ItemsIn, ItemsOut
  <2>3. /\ OutItems(k, id)' \subseteq OutItems(k, id) \ {item}
        /\ Sought(k)' \subseteq Sought(k)
    BY <1>1, <1>8, <2>2 DEF Sought, RequestAsked, ElderlyAsked, ItemAsked, OutItems
  <2>4. CASE OutItems(k, id)' = {}
    <3>1. \A n \in Nodes, i \in Items : ~ItemAsked(k, id, n, i)'
      BY <2>4 DEF OutItems
    <3>2. id \notin Sought(k)'
      BY <1>1, <2>2, <3>1 DEF Sought, RequestAsked, ElderlyAsked
    <3>3. QED  BY <1>2, <2>2, <2>3, <3>2, RequestLost
  <2>5. CASE OutItems(k, id)' # {}
    <3>1. id \in Sought(k)'
      BY <2>5 DEF OutItems, Sought
    <3>2. /\ Cardinality(OutItems(k, id)') <= itemCounter[<<k, id>>] - 1
          /\ Cardinality(OutItems(k, id)') \in Nat
      BY <2>1, <2>3, OutBounds, OneLessOf
    <3>3. MissingItem(k, id)'
      BY <1>2, <2>5, <3>1, <3>2, OutBounds DEF MissingItem
    <3>4. QED  BY <1>2, <3>3 DEF HungInv, Missing
  <2>6. QED  BY <2>4, <2>5
<1>9. QED
  <2>1. CASE \E k \in DOMAIN asked : read = ZoneRead(k)
    BY <1>5, <2>1
  <2>2. ASSUME NEW k \in DOMAIN asked, NEW id \in Requests, ZoneOf[id] = asked[k],
               \/ read = RequestRead(k, id)
               \/ \E node \in Nodes :
                    /\ IsReadable(node)
                    /\ \/ read = ElderlyRead(k, id, node)
                       \/ \E item \in node.content : read = ItemRead(k, id, node, item)
        PROVE  HungInv'
    BY <1>6, <1>7, <1>8, <2>2, FiniteSets DEF Inv
  <2>3. QED  BY <1>3, <1>4, <2>1, <2>2 DEF Belongs

LEMMA HungStep == Inv /\ HungInv /\ [Next]_vars => HungInv'
<1> SUFFICES ASSUME Inv, HungInv, [Next]_vars PROVE HungInv'
  OBVIOUS
<1>1. CASE Refresh
  BY <1>1 DEF Refresh, HungInv
<1>2. CASE AnswerVolunteer
  <2>1. VolunteerRead \in pending /\ hung' = hung
    BY <1>2 DEF AnswerVolunteer, Answer, AnswerWith
  <2>2. asked = <<>>
    BY <2>1 DEF Inv, PhaseInv
  <2>3. ~Missing
    BY <2>1, <2>2 DEF Missing, MissingZone
  <2>4. QED  BY <2>1, <2>3 DEF HungInv
<1>3. ASSUME NEW k \in DOMAIN asked, AnswerZone(k) PROVE HungInv'
  BY <1>3, HungZone
<1>4. ASSUME NEW k \in DOMAIN asked, NEW id \in Requests, AnswerRequest(k, id) PROVE HungInv'
  BY <1>4, HungRequest
<1>5. ASSUME NEW k \in DOMAIN asked, NEW id \in Requests, NEW node \in Nodes,
             (\E item \in Items : AnswerItem(k, id, node, item)) \/ AnswerElderly(k, id, node)
      PROVE  HungInv'
  BY <1>5, HungItem, HungElderly
<1>6. CASE Denied
  BY <1>6, HungDenied
<1>7. CASE ServerChanges \/ UNCHANGED vars
  BY <1>7 DEF ServerChanges, vars, tally, HungInv, Missing, MissingZone, MissingRequest,
     MissingItem, OutZones, OutItems, Sought, ZoneAsked, RequestAsked, ElderlyAsked, ItemAsked
<1>8. QED
  BY <1>1, <1>2, <1>3, <1>4, <1>5, <1>6, <1>7 DEF Next, AnswerRead

(* One read that is refused, or one request without items, and the closures *)
(* of fetchAllZoneRequests are never called again: whatever else is         *)
(* answered, some counter above the missing answer stays above zero.        *)
THEOREM HungForGood == Spec => []NoAnswerNoList
<1>1. Init => HungInv
  BY DEF Init, HungInv
<1>2. HungInv => NoAnswerNoList
  BY DEF HungInv, NoAnswerNoList
<1>3. QED  BY <1>1, <1>2, HungStep, AlwaysInv, PTL DEF Spec
============================================================================
