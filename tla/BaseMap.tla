------------------------------ MODULE BaseMap -------------------------------
(***************************************************************************)
(* The hash map of base_map.c: open addressing with linear probing, key 0  *)
(* for an empty slot.  The bits that map_hash mixes are left out: Hash is  *)
(* any function into the words.  heap_alloc may fail when the map grows.   *)
(* Growing goes slot by slot, so that what has been moved can be told.     *)
(***************************************************************************)
EXTENDS Integers, FiniteSetsExt

CONSTANTS Keys, Vals,
          Word,    \* 2^64, where a u64 wraps around
          Hash,    \* map_hash: a word for each key
          Caps     \* bound: the capacities map_create is asked for

ASSUME MapAssumption ==
    Word \in Nat /\ Keys \subseteq 1 .. Word - 1 /\ Hash \in [Keys -> 0 .. Word - 1] /\ Caps \subseteq Nat

VARIABLES map,     \* keys and vals by slot, count, cap
          grow,    \* the growth under way: the expanded table, the slots
                   \* moved so far, and the key and value to be put after it
          answer,  \* what the last call returned
          broken,  \* an assertion failed
          cut      \* a remove has emptied a slot in front of a taken one
mapVars == <<map, grow, answer, broken, cut>>

Slots(t)     == 0 .. t.cap - 1
Created(cap) == [keys |-> [i \in 0 .. cap - 1 |-> 0], vals |-> [i \in 0 .. cap - 1 |-> 0], count |-> 0, cap |-> cap]
NotGrowing   == [moved |-> -1]
Growing      == grow # NotGrowing

MapInit ==
    /\ \E cap \in Caps : map = Created(cap)
    /\ grow = NotGrowing /\ answer = [op |-> "none"] /\ broken = FALSE /\ cut = FALSE

(* Not the code: only the slot of the hash itself is looked at.            *)
LookupAtHash(t, k) == Hash[k] % t.cap

(* map_lookup: the first slot from the hash on that is empty or the key's. *)
At(t, k, probe) == ((Hash[k] + probe) % Word) % t.cap
Found(t, k)     == {probe \in 0 .. t.cap - 1 : t.keys[At(t, k, probe)] \in {0, k}}
Lookup(t, k)    == IF Found(t, k) = {} THEN -1 ELSE At(t, k, Min(Found(t, k)))

Stored(t, k, v) ==
    LET i == Lookup(t, k)
    IN  IF i = -1 THEN t
        ELSE [t EXCEPT !.keys[i] = k, !.vals[i] = v, !.count = IF t.keys[i] = 0 THEN @ + 1 ELSE @]

Store(t, k, v) ==
    /\ map' = Stored(t, k, v)
    /\ answer' = [op |-> "put", ret |-> Lookup(t, k) # -1]
    /\ UNCHANGED <<broken, cut>>

(* map_put into the table as it is: it need not grow, or heap_alloc failed.*)
Put(k, v) == Store(map, k, v) /\ UNCHANGED grow

(* map_put into a table twice as large.  Every slot is put into it, which  *)
(* asserts that the slot is not empty; half empty, it need not grow again. *)
MustGrow == map.cap - map.count <= map.cap \div 4

PutGrows(k, v) ==
    /\ MustGrow /\ 2 * map.cap \in Caps
    /\ grow' = [table |-> Created(2 * map.cap), moved |-> 0, key |-> k, val |-> v]
    /\ UNCHANGED <<map, answer, broken, cut>>

Moving == Growing /\ grow.moved < map.cap
MoveSlot ==
    /\ Moving /\ map.keys[grow.moved] # 0
    /\ grow' = [grow EXCEPT !.table = Stored(@, map.keys[grow.moved], map.vals[grow.moved]), !.moved = @ + 1]
    /\ UNCHANGED <<map, answer, broken, cut>>
MoveFails ==
    /\ Moving /\ map.keys[grow.moved] = 0
    /\ broken' = TRUE
    /\ UNCHANGED <<map, grow, answer, cut>>

PutGrown ==
    /\ Growing /\ grow.moved = map.cap
    /\ Store(grow.table, grow.key, grow.val) /\ grow' = NotGrowing

Get(k) ==
    LET i == Lookup(map, k)
    IN  /\ answer' = IF i # -1 /\ map.keys[i] # 0 THEN [op |-> "get", ret |-> TRUE, val |-> map.vals[i]]
                     ELSE [op |-> "get", ret |-> FALSE]
        /\ UNCHANGED <<map, grow, broken, cut>>

MapRemove(k) ==
    LET i == Lookup(map, k)
        taken == i # -1 /\ map.keys[i] # 0
    IN  /\ map' = IF taken THEN [map EXCEPT !.keys[i] = 0, !.count = @ - 1] ELSE map
        /\ cut' = (cut \/ (taken /\ map.keys[(i + 1) % map.cap] # 0))
        /\ answer' = [op |-> "remove", ret |-> i # -1]
        /\ UNCHANGED <<grow, broken>>

MapCall == ~Growing /\ \E k \in Keys : Get(k) \/ MapRemove(k) \/ \E v \in Vals : Put(k, v) \/ PutGrows(k, v)

MapNext == ~broken /\ (MapCall \/ MoveSlot \/ MoveFails \/ PutGrown)

MapSpec == MapInit /\ [][MapNext]_mapVars

-----------------------------------------------------------------------------
KeysIn(t)     == {t.keys[i] : i \in Slots(t)} \ {0}
SlotOf(t, k)  == CHOOSE i \in Slots(t) : t.keys[i] = k
Dictionary(t) == [k \in KeysIn(t) |-> t.vals[SlotOf(t, k)]]

(* The map implements a dictionary: whatever was put under a key is what   *)
(* get gives until it is put or removed again, however the keys collide,   *)
(* when the table is full, when it was grown and when growing failed; for  *)
(* good as long as no remove empties a slot in front of a taken one, which *)
(* hides the keys probed past it (map_remove).  An assertion may stop it.  *)
Dict == INSTANCE BaseDict WITH dict <- Dictionary(map), size <- map.count

ImplementsDict == Dict!DictSpec
=============================================================================
