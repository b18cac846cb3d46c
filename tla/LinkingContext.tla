--------------------------- MODULE LinkingContext ---------------------------
(***************************************************************************)
(* A LinkingContext: which game object has which network id, kept as two   *)
(* maps, one for each direction.                                           *)
(*                                                                         *)
(* A context is a record with the fields of the C++ class.  Its methods    *)
(* are operators from a context to a context.  A uint32_t id is a natural: *)
(* the models hand out far fewer than 2^32.                                *)
(***************************************************************************)
EXTENDS Integers, Functions

\* 0 means "not found".
NetworkId == Nat \ {0}

\* Mutant: the first id handed out is the reserved one.
EmptyContext_FromZero ==
    [mNextId |-> 0, mGameObjectToIdMap |-> << >>, mIdToGameObjectMap |-> << >>]

EmptyContext ==
    [mNextId |-> 1, mGameObjectToIdMap |-> << >>, mIdToGameObjectMap |-> << >>]

LinkedObjects(context) == DOMAIN context.mGameObjectToIdMap
LinkedIds(context) == DOMAIN context.mIdToGameObjectMap

\* map[k] = v
Put(map, k, v) == [x \in DOMAIN map \cup {k} |-> IF x = k THEN v ELSE map[x]]

\* map.erase(k)
Erase(map, k) == Restrict(map, DOMAIN map \ {k})

\* GetId(obj, false)
GetId(context, obj) ==
    IF obj \in LinkedObjects(context) THEN context.mGameObjectToIdMap[obj] ELSE 0

\* GetGameObject for an id that is linked.
GetGameObject(context, id) == context.mIdToGameObjectMap[id]

\* Both maps get the new entry.
Link(context, id, obj) ==
    [context EXCEPT !.mGameObjectToIdMap = Put(@, obj, id),
                    !.mIdToGameObjectMap = Put(@, id, obj)]

\* Mutant: the same id is handed out again.
WithId_SameNext(context, obj) ==
    IF obj \in LinkedObjects(context)
    THEN context
    ELSE Link(context, context.mNextId, obj)

\* The context after GetId(obj, true): an object without an id gets the next.
WithId(context, obj) ==
    IF obj \in LinkedObjects(context)
    THEN context
    ELSE Link([context EXCEPT !.mNextId = @ + 1], context.mNextId, obj)

\* AddGameObject throws instead of linking.
AddThrows(context, id, obj) ==
    id = 0 \/ id \in LinkedIds(context) \/ obj \in LinkedObjects(context)

\* Mutant: only one of the maps is erased from.
RemoveGameObject_OneWay(context, obj) ==
    IF obj \in LinkedObjects(context)
    THEN [context EXCEPT !.mGameObjectToIdMap = Erase(@, obj)]
    ELSE context

RemoveGameObject(context, obj) ==
    IF obj \in LinkedObjects(context)
    THEN [context EXCEPT
             !.mGameObjectToIdMap = Erase(@, obj),
             !.mIdToGameObjectMap = Erase(@, context.mGameObjectToIdMap[obj])]
    ELSE context

\* The maps of a context that links some of the objects.
ContextType(context, objects) ==
    /\ DOMAIN context = {"mNextId", "mGameObjectToIdMap", "mIdToGameObjectMap"}
    /\ context.mNextId \in NetworkId
    /\ LinkedObjects(context) \subseteq objects
    /\ context.mGameObjectToIdMap \in [LinkedObjects(context) -> NetworkId]
    /\ LinkedIds(context) \subseteq NetworkId
    /\ context.mIdToGameObjectMap \in [LinkedIds(context) -> objects]

\* Each map is the inverse of the other.
MapsAreInverse(context) ==
    /\ \A obj \in LinkedObjects(context) :
           /\ context.mGameObjectToIdMap[obj] \in LinkedIds(context)
           /\ GetGameObject(context, context.mGameObjectToIdMap[obj]) = obj
    /\ \A id \in LinkedIds(context) :
           /\ GetGameObject(context, id) \in LinkedObjects(context)
           /\ context.mGameObjectToIdMap[GetGameObject(context, id)] = id
=============================================================================
