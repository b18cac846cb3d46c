----------------------- MODULE WorldReplicationProofs -----------------------
(***************************************************************************)
(* Theorems about WorldReplication, for any objects, values and number of  *)
(* messages.  They rest on ReplicationInvariant, which is inductive: one   *)
(* lemma per action shows that the action keeps it.                        *)
(***************************************************************************)
EXTENDS WorldReplication, SequenceTheorems, TLAPS

----------------------------------------------------------------------------
(***************************************************************************)
(* What each method of a LinkingContext does to its maps, proved for all   *)
(* contexts.  The proofs below cite these lemmas, so that the operators    *)
(* need not be expanded there.                                             *)
(***************************************************************************)

\* A new context links nothing.
LEMMA EmptyContextFields ==
    ASSUME NEW objects
    PROVE  /\ ContextType(EmptyContext, objects)
           /\ MapsAreInverse(EmptyContext)
           /\ EmptyContext.mNextId = 1
           /\ LinkedObjects(EmptyContext) = {}
           /\ LinkedIds(EmptyContext) = {}
BY DEF ContextType, MapsAreInverse, EmptyContext, LinkedObjects, LinkedIds,
       NetworkId, GetGameObject

\* A context that links some objects links objects of any larger set.
LEMMA ContextTypeIsMonotonic ==
    ASSUME NEW objects, NEW more, objects \subseteq more,
           NEW context, ContextType(context, objects)
    PROVE  ContextType(context, more)
BY DEF ContextType

\* Linking a new object under a new id adds that pair and keeps the others.
LEMMA LinkFields ==
    ASSUME NEW objects, NEW context, ContextType(context, objects),
           MapsAreInverse(context),
           NEW id \in NetworkId, id \notin LinkedIds(context),
           NEW obj \in objects, obj \notin LinkedObjects(context)
    PROVE  LET d == Link(context, id, obj)
           IN  /\ ContextType(d, objects)
               /\ MapsAreInverse(d)
               /\ d.mNextId = context.mNextId
               /\ LinkedObjects(d) = LinkedObjects(context) \cup {obj}
               /\ LinkedIds(d) = LinkedIds(context) \cup {id}
               /\ d.mGameObjectToIdMap[obj] = id
               /\ GetGameObject(d, id) = obj
               /\ \A o \in LinkedObjects(context) :
                      d.mGameObjectToIdMap[o] = context.mGameObjectToIdMap[o]
               /\ \A i \in LinkedIds(context) :
                      GetGameObject(d, i) = GetGameObject(context, i)
<1> DEFINE d == Link(context, id, obj)
<1>1. /\ DOMAIN d = {"mNextId", "mGameObjectToIdMap", "mIdToGameObjectMap"}
      /\ d.mNextId = context.mNextId
      /\ d.mGameObjectToIdMap = Put(context.mGameObjectToIdMap, obj, id)
      /\ d.mIdToGameObjectMap = Put(context.mIdToGameObjectMap, id, obj)
    BY DEF Link, ContextType
<1>2. /\ LinkedObjects(d) = LinkedObjects(context) \cup {obj}
      /\ LinkedIds(d) = LinkedIds(context) \cup {id}
      /\ d.mGameObjectToIdMap[obj] = id
      /\ GetGameObject(d, id) = obj
      /\ \A o \in LinkedObjects(context) :
             d.mGameObjectToIdMap[o] = context.mGameObjectToIdMap[o]
      /\ \A i \in LinkedIds(context) :
             GetGameObject(d, i) = GetGameObject(context, i)
    BY <1>1 DEF Put, LinkedObjects, LinkedIds, GetGameObject
<1>3. ContextType(d, objects)
    <2>1. /\ d.mGameObjectToIdMap \in [LinkedObjects(d) -> NetworkId]
          /\ d.mIdToGameObjectMap \in [LinkedIds(d) -> objects]
        BY <1>1 DEF ContextType, Put, LinkedObjects, LinkedIds
    <2>2. QED
        BY <1>1, <1>2, <2>1 DEF ContextType
<1>4. MapsAreInverse(d)
    BY <1>2 DEF MapsAreInverse
<1> HIDE DEF d
<1>5. QED
    BY <1>1, <1>2, <1>3, <1>4 DEF d

\* With an id, an object is linked, under its own id or the next one; no other
\* link changes.
LEMMA WithIdFields ==
    ASSUME NEW objects, NEW context, ContextType(context, objects),
           MapsAreInverse(context),
           \A i \in LinkedIds(context) : i < context.mNextId,
           NEW obj \in objects
    PROVE  LET d == WithId(context, obj)
           IN  /\ ContextType(d, objects)
               /\ MapsAreInverse(d)
               /\ \A i \in LinkedIds(d) : i < d.mNextId
               /\ d.mNextId >= context.mNextId
               /\ obj \in LinkedObjects(d)
               /\ GetId(d, obj) \in LinkedIds(d)
               /\ GetGameObject(d, GetId(d, obj)) = obj
               /\ LinkedIds(d) = LinkedIds(context) \cup {GetId(d, obj)}
               /\ \A i \in LinkedIds(context) :
                      GetGameObject(d, i) = GetGameObject(context, i)
               /\ obj \notin LinkedObjects(context) =>
                      GetId(d, obj) = context.mNextId
<1>1. CASE obj \in LinkedObjects(context)
    BY <1>1 DEF WithId, MapsAreInverse, GetId, ContextType, NetworkId
<1>2. CASE obj \notin LinkedObjects(context)
    <2> DEFINE c == [context EXCEPT !.mNextId = @ + 1]
               d == Link(c, context.mNextId, obj)
    <2>1. context.mNextId \in NetworkId /\ context.mNextId + 1 \in NetworkId
        BY DEF ContextType, NetworkId
    <2>2. /\ DOMAIN c = {"mNextId", "mGameObjectToIdMap", "mIdToGameObjectMap"}
          /\ c.mNextId = context.mNextId + 1
          /\ c.mGameObjectToIdMap = context.mGameObjectToIdMap
          /\ c.mIdToGameObjectMap = context.mIdToGameObjectMap
        BY DEF ContextType
    <2> HIDE DEF c
    <2>3. /\ ContextType(c, objects) /\ MapsAreInverse(c)
          /\ LinkedObjects(c) = LinkedObjects(context)
          /\ LinkedIds(c) = LinkedIds(context)
        BY <2>1, <2>2
           DEF ContextType, MapsAreInverse, LinkedObjects, LinkedIds, GetGameObject
    <2>4. context.mNextId \notin LinkedIds(c)
        BY <2>1, <2>3 DEF NetworkId
    <2>5. /\ ContextType(d, objects)
          /\ MapsAreInverse(d)
          /\ d.mNextId = c.mNextId
          /\ LinkedObjects(d) = LinkedObjects(c) \cup {obj}
          /\ LinkedIds(d) = LinkedIds(c) \cup {context.mNextId}
          /\ d.mGameObjectToIdMap[obj] = context.mNextId
          /\ GetGameObject(d, context.mNextId) = obj
          /\ \A i \in LinkedIds(c) : GetGameObject(d, i) = GetGameObject(c, i)
        BY <1>2, <2>1, <2>3, <2>4, LinkFields
    <2>6. WithId(context, obj) = d
        BY <1>2 DEF WithId, c
    <2> HIDE DEF d
    <2>7. GetId(d, obj) = context.mNextId
        BY <2>5 DEF GetId
    <2>8. \A i \in LinkedIds(d) : i < d.mNextId
        BY <2>1, <2>2, <2>3, <2>5 DEF NetworkId, ContextType
    <2>9. \A i \in LinkedIds(context) :
              GetGameObject(d, i) = GetGameObject(context, i)
        BY <2>2, <2>3, <2>5 DEF GetGameObject
    <2>10. d.mNextId >= context.mNextId
        BY <2>1, <2>2, <2>5 DEF NetworkId
    <2>11. QED
        BY <1>2, <2>3, <2>5, <2>6, <2>7, <2>8, <2>9, <2>10
<1>3. QED
    BY <1>1, <1>2

\* Removing an object unlinks it and its id, and keeps the other links.
LEMMA RemoveGameObjectFields ==
    ASSUME NEW objects, NEW context, ContextType(context, objects),
           MapsAreInverse(context),
           NEW obj \in LinkedObjects(context)
    PROVE  LET d == RemoveGameObject(context, obj)
               id == context.mGameObjectToIdMap[obj]
           IN  /\ ContextType(d, objects)
               /\ MapsAreInverse(d)
               /\ d.mNextId = context.mNextId
               /\ LinkedObjects(d) = LinkedObjects(context) \ {obj}
               /\ LinkedIds(d) = LinkedIds(context) \ {id}
               /\ \A i \in LinkedIds(d) :
                      GetGameObject(d, i) = GetGameObject(context, i)
<1> DEFINE d == RemoveGameObject(context, obj)
           id == context.mGameObjectToIdMap[obj]
<1>1. /\ DOMAIN d = {"mNextId", "mGameObjectToIdMap", "mIdToGameObjectMap"}
      /\ d.mNextId = context.mNextId
      /\ d.mGameObjectToIdMap = Erase(context.mGameObjectToIdMap, obj)
      /\ d.mIdToGameObjectMap = Erase(context.mIdToGameObjectMap, id)
    BY DEF RemoveGameObject, ContextType
<1>2. /\ LinkedObjects(d) = LinkedObjects(context) \ {obj}
      /\ LinkedIds(d) = LinkedIds(context) \ {id}
      /\ \A o \in LinkedObjects(d) :
             d.mGameObjectToIdMap[o] = context.mGameObjectToIdMap[o]
      /\ \A i \in LinkedIds(d) : GetGameObject(d, i) = GetGameObject(context, i)
    BY <1>1 DEF Erase, Restrict, LinkedObjects, LinkedIds, GetGameObject
<1>3. ContextType(d, objects)
    <2>1. /\ d.mGameObjectToIdMap \in [LinkedObjects(d) -> NetworkId]
          /\ d.mIdToGameObjectMap \in [LinkedIds(d) -> objects]
        BY <1>1 DEF ContextType, Erase, Restrict, LinkedObjects, LinkedIds
    <2>2. QED
        BY <1>1, <1>2, <2>1 DEF ContextType
<1> HIDE DEF d
<1>4. MapsAreInverse(d)
    BY <1>2 DEF MapsAreInverse
<1>5. QED
    BY <1>1, <1>2, <1>3, <1>4 DEF d

----------------------------------------------------------------------------
(***************************************************************************)
(* Every action keeps ReplicationInvariant.                                *)
(***************************************************************************)

\* Nothing has been linked, sent or made.
LEMMA InitKeeps ==
    ASSUME Init
    PROVE  ReplicationInvariant
<1>1. PICK protocol \in {"world", "actions"}, v \in [GameObjects -> Values] :
          sender = [uses    |-> protocol,
                    context |-> EmptyContext,
                    value   |-> v,
                    phase   |-> "idle",
                    toWrite |-> {},
                    objects |-> << >>,
                    sent    |-> 0]
    BY DEF Init
<1>2. SenderTypeOK
    BY <1>1, EmptyContextFields, WorldAssumption DEF SenderTypeOK
<1>3. ReceiverTypeOK
    BY EmptyContextFields DEF Init, ReceiverTypeOK
<1>4. StreamTypeOK
    BY DEF Init, StreamTypeOK
<1>5. ContextsAreConsistent
    BY <1>1, EmptyContextFields DEF Init, ContextsAreConsistent
<1>6. SenderIsSound
    BY <1>1, EmptyContextFields DEF SenderIsSound
<1>7. ReceiverReachesWhatLives
    BY EmptyContextFields DEF Init, ReceiverReachesWhatLives
<1>8. WorldsArriveWhole
    BY <1>1, EmptyContextFields
       DEF Init, WorldsArriveWhole, Shows, Settled, Range
<1>9. ActionsArriveInOrder
    BY <1>1, EmptyContextFields
       DEF Init, ActionsArriveInOrder, EveryActionFits, LastActionsAreShown,
           SettledIdsAreShown
<1>10. QED
    BY <1>2, <1>3, <1>4, <1>5, <1>6, <1>7, <1>8, <1>9
       DEF ReplicationInvariant, TypeOK

----------------------------------------------------------------------------
\* The sender.

\* An object that changes is not in a message until it is written.
LEMMA ChangeValueKeeps ==
    ASSUME ReplicationInvariant, NEW obj \in GameObjects, ChangeValue(obj)
    PROVE  ReplicationInvariant'
<1> USE DEF ReplicationInvariant, TypeOK
<1>1. PICK v \in Values : sender' = [sender EXCEPT !.value[obj] = v]
    BY DEF ChangeValue
<1>2. /\ sender.phase = "idle"
      /\ UNCHANGED <<receiver, heap, wire, shown>>
    BY DEF ChangeValue
<1>3. /\ DOMAIN sender' = DOMAIN sender
      /\ sender'.uses = sender.uses
      /\ sender'.context = sender.context
      /\ sender'.value = [sender.value EXCEPT ![obj] = v]
      /\ sender'.phase = sender.phase
      /\ sender'.toWrite = sender.toWrite
      /\ sender'.objects = sender.objects
      /\ sender'.sent = sender.sent
    BY <1>1 DEF SenderTypeOK
<1>4. SenderTypeOK'
    BY <1>1, <1>3 DEF SenderTypeOK
<1>5. ReceiverTypeOK' /\ StreamTypeOK'
    BY <1>2 DEF ReceiverTypeOK, StreamTypeOK
<1>6. ContextsAreConsistent' /\ SenderIsSound' /\ ReceiverReachesWhatLives'
    BY <1>2, <1>3 DEF ContextsAreConsistent, SenderIsSound, ReceiverReachesWhatLives
<1>7. WorldsArriveWhole => WorldsArriveWhole'
    BY <1>2, <1>3 DEF WorldsArriveWhole, Shows, Settled, EntryOf
<1>8. ActionsArriveInOrder => ActionsArriveInOrder'
    BY <1>2, <1>3 DEF ActionsArriveInOrder, EveryActionFits, LastActionsAreShown,
                     SettledIdsAreShown, IsFresh, Reaches
<1>9. QED
    BY <1>3, <1>4, <1>5, <1>6, <1>7, <1>8

\* A message that has just been begun holds no entries.
LEMMA ReplicateWorldKeeps ==
    ASSUME ReplicationInvariant, ReplicateWorld
    PROVE  ReplicationInvariant'
<1> USE DEF ReplicationInvariant, TypeOK
<1>1. PICK world \in SUBSET GameObjects :
          sender' = [sender EXCEPT !.phase = "writing", !.toWrite = world,
                                   !.objects = << >>]
    BY DEF ReplicateWorld
<1>2. /\ sender.uses = "world"
      /\ sender.sent < MaxMessages
      /\ UNCHANGED <<receiver, heap, wire, shown>>
    BY DEF ReplicateWorld, MayWrite
<1>3. /\ DOMAIN sender' = DOMAIN sender
      /\ sender'.uses = sender.uses
      /\ sender'.context = sender.context
      /\ sender'.value = sender.value
      /\ sender'.phase = "writing"
      /\ sender'.toWrite = world
      /\ sender'.objects = << >>
      /\ sender'.sent = sender.sent
    BY <1>1 DEF SenderTypeOK
<1>4. SenderTypeOK'
    BY <1>3 DEF SenderTypeOK
<1>5. ReceiverTypeOK' /\ StreamTypeOK'
    BY <1>2 DEF ReceiverTypeOK, StreamTypeOK
<1>6. ContextsAreConsistent' /\ SenderIsSound' /\ ReceiverReachesWhatLives'
    BY <1>2, <1>3 DEF ContextsAreConsistent, SenderIsSound, ReceiverReachesWhatLives
<1>7. WorldsArriveWhole'
    BY <1>2, <1>3 DEF WorldsArriveWhole, Shows, Settled, EntryOf
<1>8. QED
    BY <1>2, <1>3, <1>4, <1>5, <1>6, <1>7

\* The entry that is written is of an object that is linked now, with its value.
LEMMA ReplicateGameObjectKeeps ==
    ASSUME ReplicationInvariant, NEW obj \in GameObjects, ReplicateGameObject(obj)
    PROVE  ReplicationInvariant'
<1> USE DEF ReplicationInvariant, TypeOK
<1> DEFINE context == WithId(sender.context, obj)
           entry == [networkId |-> GetId(context, obj), value |-> sender.value[obj]]
<1>1. /\ sender.phase = "writing"
      /\ sender' = [sender EXCEPT !.context = context,
                                  !.toWrite = @ \ {obj},
                                  !.objects = Append(@, entry)]
      /\ UNCHANGED <<receiver, heap, wire, shown>>
    BY DEF ReplicateGameObject
<1>2. sender.uses = "world"
    BY <1>1 DEF SenderTypeOK, ActionsArriveInOrder
<1>3. /\ ContextType(context, GameObjects)
      /\ MapsAreInverse(context)
      /\ \A i \in LinkedIds(context) : i < context.mNextId
      /\ GetId(context, obj) \in LinkedIds(context)
      /\ GetGameObject(context, GetId(context, obj)) = obj
      /\ LinkedIds(context) = LinkedIds(sender.context) \cup {GetId(context, obj)}
      /\ \A i \in LinkedIds(sender.context) :
             GetGameObject(context, i) = GetGameObject(sender.context, i)
    BY WithIdFields DEF SenderTypeOK, ContextsAreConsistent, SenderIsSound
<1> HIDE DEF context
<1>4. entry \in Entry
    BY <1>3 DEF Entry, ContextType, SenderTypeOK
<1> HIDE DEF entry
<1>5. /\ DOMAIN sender' = DOMAIN sender
      /\ sender'.uses = sender.uses
      /\ sender'.context = context
      /\ sender'.value = sender.value
      /\ sender'.phase = sender.phase
      /\ sender'.toWrite = sender.toWrite \ {obj}
      /\ sender'.objects = Append(sender.objects, entry)
      /\ sender'.sent = sender.sent
    BY <1>1 DEF SenderTypeOK
<1>6. SenderTypeOK'
    BY <1>3, <1>4, <1>5 DEF SenderTypeOK
<1>7. ReceiverTypeOK' /\ StreamTypeOK'
    BY <1>1 DEF ReceiverTypeOK, StreamTypeOK
<1>8. ContextsAreConsistent' /\ SenderIsSound' /\ ReceiverReachesWhatLives'
    BY <1>1, <1>3, <1>5
       DEF ContextsAreConsistent, SenderIsSound, ReceiverReachesWhatLives
<1>9. WorldsArriveWhole'
    <2>1. \A i \in DOMAIN sender'.objects :
              LET e == sender'.objects[i]
              IN  /\ e.networkId \in LinkedIds(context)
                  /\ e.value = sender.value[GetGameObject(context, e.networkId)]
        <3>1. \A i \in DOMAIN sender.objects :
                  LET e == sender.objects[i]
                  IN  /\ e.networkId \in LinkedIds(sender.context)
                      /\ e.value = sender.value
                                       [GetGameObject(sender.context, e.networkId)]
            BY <1>1, <1>2 DEF WorldsArriveWhole
        <3>2. /\ entry.networkId \in LinkedIds(context)
              /\ entry.value = sender.value[GetGameObject(context, entry.networkId)]
            BY <1>3 DEF entry
        <3>3. \A i \in DOMAIN sender'.objects :
                  \/ i \in DOMAIN sender.objects
                     /\ sender'.objects[i] = sender.objects[i]
                  \/ sender'.objects[i] = entry
            BY <1>4, <1>5 DEF SenderTypeOK
        <3>4. QED
            BY <1>3, <3>1, <3>2, <3>3
    <2>2. QED
        BY <1>1, <1>2, <1>5, <2>1 DEF WorldsArriveWhole, Shows, Settled, EntryOf
<1>10. QED
    BY <1>2, <1>5, <1>6, <1>7, <1>8, <1>9

\* A world that is sent is what the receiver will show in the end: its entries
\* agree, since two of one network id are of one object.
LEMMA SendWorldKeeps ==
    ASSUME ReplicationInvariant, SendWorld
    PROVE  ReplicationInvariant'
<1> USE DEF ReplicationInvariant, TypeOK
<1> DEFINE entries == Range(sender.objects)
           message == [action |-> "world", objects |-> sender.objects]
<1>1. /\ sender.phase = "writing"
      /\ sender' = [sender EXCEPT !.phase = "idle", !.sent = @ + 1]
      /\ wire' = Append(wire, message)
      /\ shown' = [id \in {e.networkId : e \in entries} |->
                      (CHOOSE e \in entries : e.networkId = id).value]
      /\ UNCHANGED <<receiver, heap>>
    BY DEF SendWorld
<1>2. sender.uses = "world"
    BY <1>1 DEF SenderTypeOK, ActionsArriveInOrder
<1>3. /\ DOMAIN sender' = DOMAIN sender
      /\ sender'.uses = sender.uses
      /\ sender'.context = sender.context
      /\ sender'.value = sender.value
      /\ sender'.phase = "idle"
      /\ sender'.toWrite = sender.toWrite
      /\ sender'.objects = sender.objects
      /\ sender'.sent = sender.sent + 1
    BY <1>1 DEF SenderTypeOK
<1>4. sender.sent + 1 \in 0 .. MaxMessages
    BY <1>1, WorldAssumption DEF SenderIsSound, SenderTypeOK
<1>5. SenderTypeOK'
    BY <1>3, <1>4 DEF SenderTypeOK
<1>6. ReceiverTypeOK'
    BY <1>1 DEF ReceiverTypeOK
<1>7. \A e \in entries : e \in Entry
    BY DEF SenderTypeOK, Range
<1>8. Shows(Range(message.objects))'
    <2>1. \A e, f \in entries : e.networkId = f.networkId => e.value = f.value
        BY <1>1, <1>2 DEF WorldsArriveWhole, Range
    <2>2. \A e \in entries : shown'[e.networkId] = e.value
        BY <1>1, <2>1
    <2>3. QED
        BY <1>1, <1>3, <2>2 DEF Shows
<1>9. StreamTypeOK'
    <2>1. message \in Message
        BY DEF Message, SenderTypeOK
    <2>2. wire' \in Seq(Message)
        BY <1>1, <2>1 DEF StreamTypeOK
    <2>3. DOMAIN shown' = {e.networkId : e \in entries}
        BY <1>1
    <2>4. DOMAIN shown' \subseteq NetworkId
        BY <1>7, <2>3 DEF Entry
    <2>5. \A id \in DOMAIN shown' : shown'[id] \in Values
        BY <1>1, <1>7, <2>3 DEF Entry
    <2>6. QED
        BY <1>1, <2>2, <2>4, <2>5 DEF StreamTypeOK
<1>10. ContextsAreConsistent' /\ SenderIsSound' /\ ReceiverReachesWhatLives'
    BY <1>1, <1>3 DEF ContextsAreConsistent, SenderIsSound, ReceiverReachesWhatLives
<1>11. WorldsArriveWhole'
    <2>1. /\ Len(wire') = Len(wire) + 1
          /\ wire'[Len(wire')] = message
          /\ wire' # << >>
          /\ \A i \in DOMAIN wire' :
                 (i \in DOMAIN wire /\ wire'[i] = wire[i]) \/ wire'[i] = message
        BY <1>1 DEF StreamTypeOK
    <2>2. \A i \in DOMAIN wire' : wire'[i].action = "world"
        BY <1>2, <2>1 DEF WorldsArriveWhole
    <2>3. Shows(Range(wire[Len(wire)].objects))'
        BY <1>3, <1>8, <2>1 DEF Shows
    <2>4. QED
        BY <1>1, <1>2, <1>3, <2>1, <2>2, <2>3 DEF WorldsArriveWhole
<1>12. QED
    BY <1>2, <1>3, <1>5, <1>6, <1>9, <1>10, <1>11

\* A sender that puts one more action into the stream, and shows what it says,
\* keeps what holds of the stream: a create must be fresh, another action must
\* reach its object, and no destroyed object may stay linked.
LEMMA AppendKeepsOrder ==
    ASSUME ReplicationInvariant, sender.uses = "actions",
           NEW m \in Message, m.action # "world",
           wire' = Append(wire, m), UNCHANGED <<receiver, heap>>,
           sender'.context.mNextId \in NetworkId,
           sender'.context.mNextId >= sender.context.mNextId,
           m.networkId < sender'.context.mNextId,
           IF m.action = "RA_Create" THEN IsFresh(m.networkId, Len(wire) + 1)
                                     ELSE Reaches(m.networkId, Len(wire) + 1),
           \A id \in LinkedIds(sender'.context) :
               \/ m.action = "RA_Create" /\ id = m.networkId
               \/ id \in LinkedIds(sender.context)
                  /\ (m.action = "RA_Destroy" => id # m.networkId),
           \A id \in (DOMAIN shown \cup DOMAIN shown') \ {m.networkId} :
               /\ id \in DOMAIN shown /\ id \in DOMAIN shown'
               /\ shown'[id] = shown[id],
           IF m.action = "RA_Destroy"
           THEN m.networkId \notin DOMAIN shown'
           ELSE m.networkId \in DOMAIN shown' /\ shown'[m.networkId] = m.value
    PROVE  /\ EveryActionFits'
           /\ LastActionsAreShown'
           /\ SettledIdsAreShown'
<1> USE DEF ReplicationInvariant, TypeOK, ActionsArriveInOrder
<1>1. /\ Len(wire) \in Nat
      /\ Len(wire') = Len(wire) + 1
      /\ DOMAIN wire = 1 .. Len(wire)
      /\ DOMAIN wire' = 1 .. Len(wire) + 1
      /\ wire'[Len(wire) + 1] = m
      /\ \A i \in 1 .. Len(wire) : wire'[i] = wire[i] /\ wire[i] \in Message
    BY DEF StreamTypeOK
<1>2. /\ m.networkId \in NetworkId
      /\ sender.context.mNextId \in NetworkId
      /\ \A i \in DOMAIN wire : wire[i].networkId \in NetworkId
      /\ LinkedIds(receiver.context) \subseteq NetworkId
    BY <1>1 DEF Message, EveryActionFits, SenderTypeOK, ReceiverTypeOK, ContextType
<1>3. \A n \in 1 .. Len(wire) + 1, id \in NetworkId :
          /\ IsFresh(id, n) => IsFresh(id, n)'
          /\ Reaches(id, n) => Reaches(id, n)'
    BY <1>1 DEF IsFresh, Reaches
<1>4. EveryActionFits'
    <2>1. ASSUME NEW i \in DOMAIN wire'
          PROVE  (/\ wire[i].action # "world"
                  /\ wire[i].networkId < sender.context.mNextId
                  /\ IF wire[i].action = "RA_Create"
                     THEN IsFresh(wire[i].networkId, i)
                     ELSE Reaches(wire[i].networkId, i))'
        <3>1. CASE i \in 1 .. Len(wire)
            <4>1. /\ wire'[i] = wire[i]
                  /\ i \in DOMAIN wire
                  /\ i \in 1 .. Len(wire) + 1
                  /\ wire[i].networkId \in NetworkId
                BY <1>1, <1>2, <3>1
            <4>2. PICK id \in NetworkId : id = wire[i].networkId
                BY <4>1
            <4>3. IF wire[i].action = "RA_Create" THEN IsFresh(id, i)'
                                                  ELSE Reaches(id, i)'
                BY <1>3, <4>1, <4>2 DEF EveryActionFits
            <4>4. IF wire'[i].action = "RA_Create" THEN IsFresh(wire[i].networkId, i)'
                                                   ELSE Reaches(wire[i].networkId, i)'
                BY <4>1, <4>2, <4>3
            <4>5. QED
                BY <1>2, <4>1, <4>4 DEF EveryActionFits, NetworkId
        <3>2. CASE i = Len(wire) + 1
            <4>1. wire'[i] = m
                BY <1>1, <3>2
            <4>2. IF m.action = "RA_Create" THEN IsFresh(m.networkId, i)'
                                            ELSE Reaches(m.networkId, i)'
                BY <1>1, <1>2, <1>3, <3>2
            <4>3. QED
                BY <4>1, <4>2
        <3>3. QED
            BY <1>1, <3>1, <3>2
    <2>2. \A id \in LinkedIds(receiver'.context) : id < sender'.context.mNextId
        BY <1>2 DEF EveryActionFits, NetworkId
    <2>3. /\ Len(wire) + 1 \in 1 .. (Len(wire') + 1) - 1
          /\ \A j \in 1 .. (Len(wire') + 1) - 1 :
                 j \in 1 .. (Len(wire) + 1) - 1 \/ j = Len(wire) + 1
          /\ \A j \in 1 .. (Len(wire) + 1) - 1 :
                 /\ j \in 1 .. (Len(wire') + 1) - 1
                 /\ wire'[j] = wire[j]
        BY <1>1
    <2>4. ASSUME NEW id \in LinkedIds(sender'.context)
          PROVE  Reaches(id, Len(wire) + 1)'
        <3>1. CASE m.action = "RA_Create" /\ id = m.networkId
            BY <1>1, <2>3, <3>1 DEF IsFresh, Reaches
        <3>2. CASE /\ id \in LinkedIds(sender.context)
                   /\ m.action = "RA_Destroy" => id # m.networkId
            <4>1. Reaches(id, Len(wire) + 1)
                BY <3>2 DEF EveryActionFits
            <4>2. QED
                BY <1>1, <2>3, <3>2, <4>1 DEF Reaches
        <3>3. QED
            BY <3>1, <3>2
    <2>5. QED
        BY <2>1, <2>2, <2>4 DEF EveryActionFits
<1>5. LastActionsAreShown'
    <2> SUFFICES ASSUME NEW i \in DOMAIN wire',
                        \A j \in i + 1 .. Len(wire') :
                            wire'[j].networkId # wire'[i].networkId
                 PROVE  IF wire'[i].action = "RA_Destroy"
                        THEN wire'[i].networkId \notin DOMAIN shown'
                        ELSE /\ wire'[i].networkId \in DOMAIN shown'
                             /\ shown'[wire'[i].networkId] = wire'[i].value
        BY DEF LastActionsAreShown
    <2>1. CASE i = Len(wire) + 1
        BY <1>1, <2>1
    <2>2. CASE i \in 1 .. Len(wire)
        <3>1. /\ wire'[i] = wire[i]
              /\ wire[i].networkId # m.networkId
              /\ \A j \in i + 1 .. Len(wire) : wire[j].networkId # wire[i].networkId
            BY <1>1, <2>2
        <3>2. QED
            BY <1>1, <2>2, <3>1 DEF LastActionsAreShown
    <2>3. QED
        BY <1>1, <2>1, <2>2
<1>6. SettledIdsAreShown'
    <2> SUFFICES ASSUME NEW id \in DOMAIN shown' \cup LinkedIds(receiver.context),
                        \A i \in DOMAIN wire' : wire'[i].networkId # id
                 PROVE  /\ id \in DOMAIN shown' /\ id \in LinkedIds(receiver.context)
                        /\ shown'[id] =
                               heap[GetGameObject(receiver.context, id)].value
        BY DEF SettledIdsAreShown
    <2>1. /\ id # m.networkId
          /\ \A i \in DOMAIN wire : wire[i].networkId # id
        BY <1>1
    <2>2. QED
        BY <2>1 DEF SettledIdsAreShown
<1>7. QED
    BY <1>4, <1>5, <1>6

\* A create names an id that is new, at both ends and in the stream.
LEMMA ReplicateCreateKeeps ==
    ASSUME ReplicationInvariant, NEW obj \in GameObjects, ReplicateCreate(obj)
    PROVE  ReplicationInvariant'
<1> USE DEF ReplicationInvariant, TypeOK
<1> DEFINE context == WithId(sender.context, obj)
           id == sender.context.mNextId
           message == [action |-> "RA_Create", networkId |-> id,
                       value |-> sender.value[obj]]
<1>1. /\ ContextType(context, GameObjects)
      /\ MapsAreInverse(context)
      /\ \A i \in LinkedIds(context) : i < context.mNextId
      /\ context.mNextId >= id
      /\ GetId(context, obj) = id
      /\ LinkedIds(context) = LinkedIds(sender.context) \cup {id}
    BY WithIdFields
       DEF ReplicateCreate, SenderTypeOK, ContextsAreConsistent, SenderIsSound
<1> HIDE DEF context
<1>2. /\ sender.uses = "actions"
      /\ sender.phase = "idle"
      /\ sender.sent < MaxMessages
      /\ sender' = [sender EXCEPT !.context = context, !.sent = @ + 1]
      /\ wire' = Append(wire, message)
      /\ shown' = Put(shown, id, sender.value[obj])
      /\ UNCHANGED <<receiver, heap>>
    BY <1>1 DEF ReplicateCreate, MayWrite, context
<1>3. /\ DOMAIN sender' = DOMAIN sender
      /\ sender'.uses = sender.uses
      /\ sender'.context = context
      /\ sender'.value = sender.value
      /\ sender'.phase = sender.phase
      /\ sender'.toWrite = sender.toWrite
      /\ sender'.objects = sender.objects
      /\ sender'.sent = sender.sent + 1
    BY <1>2 DEF SenderTypeOK
<1>4. id \in NetworkId
    BY DEF SenderTypeOK, ContextType
<1>5. SenderTypeOK'
    BY <1>1, <1>2, <1>3, WorldAssumption DEF SenderTypeOK
<1>6. ReceiverTypeOK'
    BY <1>2 DEF ReceiverTypeOK
<1>7. message \in Message
    BY <1>4 DEF Message, SenderTypeOK
<1>8. StreamTypeOK'
    BY <1>2, <1>4, <1>7 DEF StreamTypeOK, Put, SenderTypeOK
<1>9. ContextsAreConsistent' /\ SenderIsSound' /\ ReceiverReachesWhatLives'
    BY <1>1, <1>2, <1>3
       DEF ContextsAreConsistent, SenderIsSound, ReceiverReachesWhatLives
<1>10. IsFresh(id, Len(wire) + 1)
    BY <1>2, <1>4
       DEF ActionsArriveInOrder, EveryActionFits, IsFresh, NetworkId, StreamTypeOK
<1>11. EveryActionFits' /\ LastActionsAreShown' /\ SettledIdsAreShown'
    BY <1>1, <1>2, <1>3, <1>4, <1>7, <1>10, AppendKeepsOrder DEF Put, ContextType
<1>12. QED
    BY <1>2, <1>3, <1>5, <1>6, <1>8, <1>9, <1>11 DEF ActionsArriveInOrder

\* An update is of an object that is linked, so its create is on the way or
\* was read.
LEMMA ReplicateUpdateKeeps ==
    ASSUME ReplicationInvariant, NEW obj \in GameObjects, ReplicateUpdate(obj)
    PROVE  ReplicationInvariant'
<1> USE DEF ReplicationInvariant, TypeOK
<1> DEFINE id == sender.context.mGameObjectToIdMap[obj]
           message == [action |-> "RA_Update", networkId |-> id,
                       value |-> sender.value[obj]]
<1>1. /\ sender.uses = "actions"
      /\ sender.phase = "idle"
      /\ sender.sent < MaxMessages
      /\ obj \in LinkedObjects(sender.context)
      /\ sender' = [sender EXCEPT !.sent = @ + 1]
      /\ wire' = Append(wire, message)
      /\ shown' = Put(shown, id, sender.value[obj])
      /\ UNCHANGED <<receiver, heap>>
    BY DEF ReplicateUpdate, MayWrite, GetId
<1>2. /\ DOMAIN sender' = DOMAIN sender
      /\ sender'.uses = sender.uses
      /\ sender'.context = sender.context
      /\ sender'.value = sender.value
      /\ sender'.phase = sender.phase
      /\ sender'.toWrite = sender.toWrite
      /\ sender'.objects = sender.objects
      /\ sender'.sent = sender.sent + 1
    BY <1>1 DEF SenderTypeOK
<1>3. id \in NetworkId /\ id \in LinkedIds(sender.context)
    BY <1>1 DEF SenderTypeOK, ContextType, ContextsAreConsistent, MapsAreInverse
<1>4. message \in Message
    BY <1>3 DEF Message, SenderTypeOK
<1>5. SenderTypeOK' /\ ReceiverTypeOK'
    BY <1>1, <1>2, WorldAssumption DEF SenderTypeOK, ReceiverTypeOK
<1>6. StreamTypeOK'
    BY <1>1, <1>3, <1>4 DEF StreamTypeOK, Put, SenderTypeOK
<1>7. ContextsAreConsistent' /\ SenderIsSound' /\ ReceiverReachesWhatLives'
    BY <1>1, <1>2 DEF ContextsAreConsistent, SenderIsSound, ReceiverReachesWhatLives
<1>8. Reaches(id, Len(wire) + 1) /\ id < sender.context.mNextId
    BY <1>1, <1>3 DEF ActionsArriveInOrder, EveryActionFits, SenderIsSound
<1>9. EveryActionFits' /\ LastActionsAreShown' /\ SettledIdsAreShown'
    <2>1. /\ message.action = "RA_Update" /\ message.networkId = id
          /\ message.value = sender.value[obj]
        OBVIOUS
    <2> HIDE DEF message
    <2>2. /\ \A i \in (DOMAIN shown \cup DOMAIN shown') \ {id} :
                 /\ i \in DOMAIN shown /\ i \in DOMAIN shown'
                 /\ shown'[i] = shown[i]
          /\ id \in DOMAIN shown' /\ shown'[id] = sender.value[obj]
        BY <1>1 DEF Put
    <2>3. /\ sender'.context.mNextId \in NetworkId
          /\ sender'.context.mNextId >= sender.context.mNextId
        BY <1>2 DEF SenderTypeOK, ContextType, NetworkId
    <2> HIDE DEF id
    <2>4. QED
        BY <1>1, <1>2, <1>4, <1>8, <2>1, <2>2, <2>3, AppendKeepsOrder
<1>10. QED
    BY <1>1, <1>2, <1>5, <1>6, <1>7, <1>9 DEF ActionsArriveInOrder

\* A destroy unlinks its object at once, so no later action names its id.
LEMMA ReplicateDestroyKeeps ==
    ASSUME ReplicationInvariant, NEW obj \in GameObjects, ReplicateDestroy(obj)
    PROVE  ReplicationInvariant'
<1> USE DEF ReplicationInvariant, TypeOK
<1> DEFINE id == sender.context.mGameObjectToIdMap[obj]
           context == RemoveGameObject(sender.context, obj)
           message == [action |-> "RA_Destroy", networkId |-> id]
<1>1. /\ sender.uses = "actions"
      /\ sender.phase = "idle"
      /\ sender.sent < MaxMessages
      /\ obj \in LinkedObjects(sender.context)
      /\ sender' = [sender EXCEPT !.context = context, !.sent = @ + 1]
      /\ wire' = Append(wire, message)
      /\ shown' = Erase(shown, id)
      /\ UNCHANGED <<receiver, heap>>
    BY DEF ReplicateDestroy, MayWrite, GetId
<1>2. /\ ContextType(context, GameObjects)
      /\ MapsAreInverse(context)
      /\ context.mNextId = sender.context.mNextId
      /\ LinkedIds(context) = LinkedIds(sender.context) \ {id}
    BY <1>1, RemoveGameObjectFields DEF SenderTypeOK, ContextsAreConsistent
<1> HIDE DEF context
<1>3. /\ DOMAIN sender' = DOMAIN sender
      /\ sender'.uses = sender.uses
      /\ sender'.context = context
      /\ sender'.value = sender.value
      /\ sender'.phase = sender.phase
      /\ sender'.toWrite = sender.toWrite
      /\ sender'.objects = sender.objects
      /\ sender'.sent = sender.sent + 1
    BY <1>1 DEF SenderTypeOK
<1>4. id \in NetworkId /\ id \in LinkedIds(sender.context)
    BY <1>1 DEF SenderTypeOK, ContextType, ContextsAreConsistent, MapsAreInverse
<1>5. message \in Message
    BY <1>4 DEF Message
<1>6. SenderTypeOK' /\ ReceiverTypeOK'
    BY <1>1, <1>2, <1>3, WorldAssumption DEF SenderTypeOK, ReceiverTypeOK
<1>7. StreamTypeOK'
    BY <1>1, <1>5 DEF StreamTypeOK, Erase, Restrict
<1>8. ContextsAreConsistent' /\ SenderIsSound' /\ ReceiverReachesWhatLives'
    BY <1>1, <1>2, <1>3
       DEF ContextsAreConsistent, SenderIsSound, ReceiverReachesWhatLives
<1>9. Reaches(id, Len(wire) + 1) /\ id < sender.context.mNextId
    BY <1>1, <1>4 DEF ActionsArriveInOrder, EveryActionFits, SenderIsSound
<1>10. EveryActionFits' /\ LastActionsAreShown' /\ SettledIdsAreShown'
    <2>1. message.action = "RA_Destroy" /\ message.networkId = id
        OBVIOUS
    <2> HIDE DEF message
    <2>2. /\ \A i \in (DOMAIN shown \cup DOMAIN shown') \ {id} :
                 /\ i \in DOMAIN shown /\ i \in DOMAIN shown'
                 /\ shown'[i] = shown[i]
          /\ id \notin DOMAIN shown'
        BY <1>1 DEF Erase, Restrict
    <2>3. /\ sender'.context.mNextId \in NetworkId
          /\ sender'.context.mNextId >= sender.context.mNextId
        BY <1>2, <1>3 DEF ContextType, NetworkId
    <2> HIDE DEF id
    <2>4. QED
        BY <1>1, <1>2, <1>3, <1>5, <1>9, <2>1, <2>2, <2>3, AppendKeepsOrder
<1>11. QED
    BY <1>1, <1>3, <1>6, <1>7, <1>8, <1>10 DEF ActionsArriveInOrder

----------------------------------------------------------------------------
\* The receiver.

\* Reading the first message moves every other one place forward.
LEMMA TailFields ==
    ASSUME wire \in Seq(Message), wire # << >>, wire' = Tail(wire)
    PROVE  /\ Len(wire) \in Nat \ {0}
           /\ DOMAIN wire = 1 .. Len(wire)
           /\ DOMAIN wire' = 1 .. Len(wire) - 1
           /\ Len(wire') = Len(wire) - 1
           /\ wire' \in Seq(Message)
           /\ Head(wire) = wire[1]
           /\ Head(wire) \in Message
           /\ \A i \in 1 .. Len(wire) - 1 : wire'[i] = wire[i + 1]
           /\ \A i \in 1 .. Len(wire) : wire[i] \in Message
OBVIOUS

\* What is in a sequence is its head or in its tail.
LEMMA RangeOfTail ==
    ASSUME NEW S, NEW s \in Seq(S), s # << >>
    PROVE  Range(s) = {Head(s)} \cup Range(Tail(s))
<1>1. /\ Len(s) \in Nat \ {0}
      /\ Head(s) = s[1]
      /\ DOMAIN s = 1 .. Len(s)
      /\ DOMAIN Tail(s) = 1 .. Len(s) - 1
      /\ \A i \in 1 .. Len(s) - 1 : Tail(s)[i] = s[i + 1]
    OBVIOUS
<1>2. \A i \in DOMAIN s : i = 1 \/ (i - 1 \in 1 .. Len(s) - 1 /\ (i - 1) + 1 = i)
    BY <1>1
<1>3. Range(s) \subseteq {Head(s)} \cup Range(Tail(s))
    BY <1>1, <1>2 DEF Range
<1>4. {Head(s)} \cup Range(Tail(s)) \subseteq Range(s)
    BY <1>1 DEF Range
<1>5. QED
    BY <1>3, <1>4

\* Reading into an object changes its value and no other object.
LEMMA DeserializeFields ==
    ASSUME heap \in Seq([value : Values, destroyed : BOOLEAN]),
           NEW obj \in DOMAIN heap, NEW value \in Values, Deserialize(obj, value)
    PROVE  /\ heap' \in Seq([value : Values, destroyed : BOOLEAN])
           /\ DOMAIN heap' = DOMAIN heap
           /\ heap'[obj].value = value
           /\ heap'[obj].destroyed = heap[obj].destroyed
           /\ \A o \in DOMAIN heap \ {obj} : heap'[o] = heap[o]
<1> DEFINE new == [heap[obj] EXCEPT !.value = value]
<1>1. heap[obj] \in [value : Values, destroyed : BOOLEAN]
    <2>1. obj \in 1 .. Len(heap)
        BY LenProperties
    <2> HIDE DEF new
    <2>2. QED
        BY <2>1, ElementOfSeq
<1>2. /\ new \in [value : Values, destroyed : BOOLEAN]
      /\ new.value = value /\ new.destroyed = heap[obj].destroyed
    BY <1>1
<1>3. heap' = [heap EXCEPT ![obj] = new]
    BY DEF Deserialize
<1> HIDE DEF new
<1>4. heap' \in Seq([value : Values, destroyed : BOOLEAN])
    BY <1>2, <1>3, ExceptSeq
<1>5. QED
    BY <1>2, <1>3, <1>4

\* What a set of entries shows, so does a part of it that leaves out no id.
LEMMA ShowsPart ==
    ASSUME NEW whole, NEW part \in SUBSET whole, Shows(whole),
           \A e \in whole : \E f \in part : f.networkId = e.networkId
    PROVE  Shows(part)
BY DEF Shows

\* An object that is made for a new id is a new one, linked under that id:
\* AddGameObject does not throw.
LEMMA MakeObjectFields ==
    ASSUME ReceiverTypeOK, MapsAreInverse(receiver.context),
           NEW r, DOMAIN r = DOMAIN receiver, r.context = receiver.context,
           NEW id \in NetworkId, id \notin LinkedIds(receiver.context),
           NEW value \in Values, MakeObject(r, id, value)
    PROVE  LET obj == Len(heap) + 1
           IN  /\ heap' \in Seq([value : Values, destroyed : BOOLEAN])
               /\ DOMAIN heap' = DOMAIN heap \cup {obj}
               /\ obj \notin DOMAIN heap
               /\ heap'[obj] = [value |-> value, destroyed |-> FALSE]
               /\ \A o \in DOMAIN heap : heap'[o] = heap[o]
               /\ DOMAIN receiver' = DOMAIN receiver
               /\ receiver'.mReplicatedObjects = r.mReplicatedObjects
               /\ receiver'.phase = r.phase
               /\ receiver'.toRead = r.toRead
               /\ receiver'.receivedObjects = r.receivedObjects
               /\ ContextType(receiver'.context, DOMAIN heap')
               /\ MapsAreInverse(receiver'.context)
               /\ LinkedObjects(receiver'.context)
                      = LinkedObjects(receiver.context) \cup {obj}
               /\ LinkedIds(receiver'.context)
                      = LinkedIds(receiver.context) \cup {id}
               /\ receiver'.context.mGameObjectToIdMap[obj] = id
               /\ GetGameObject(receiver'.context, id) = obj
               /\ \A o \in LinkedObjects(receiver.context) :
                      receiver'.context.mGameObjectToIdMap[o]
                          = receiver.context.mGameObjectToIdMap[o]
               /\ \A i \in LinkedIds(receiver.context) :
                      GetGameObject(receiver'.context, i)
                          = GetGameObject(receiver.context, i)
<1> DEFINE obj == Len(heap) + 1
           new == [value |-> value, destroyed |-> FALSE]
           context == Link(receiver.context, id, obj)
<1>1. heap' = Append(heap, new)
    BY DEF MakeObject
<1>2. /\ heap' \in Seq([value : Values, destroyed : BOOLEAN])
      /\ DOMAIN heap' = DOMAIN heap \cup {obj}
      /\ obj \notin DOMAIN heap
      /\ heap'[obj] = new
      /\ \A o \in DOMAIN heap : heap'[o] = heap[o]
    BY <1>1 DEF ReceiverTypeOK
<1>3. /\ obj \notin LinkedObjects(receiver.context)
      /\ ContextType(receiver.context, DOMAIN heap')
    BY <1>2, ContextTypeIsMonotonic DEF ReceiverTypeOK, ContextType
<1>4. /\ ContextType(context, DOMAIN heap')
      /\ MapsAreInverse(context)
      /\ LinkedObjects(context) = LinkedObjects(receiver.context) \cup {obj}
      /\ LinkedIds(context) = LinkedIds(receiver.context) \cup {id}
      /\ context.mGameObjectToIdMap[obj] = id
      /\ GetGameObject(context, id) = obj
      /\ \A o \in LinkedObjects(receiver.context) :
             context.mGameObjectToIdMap[o]
                 = receiver.context.mGameObjectToIdMap[o]
      /\ \A i \in LinkedIds(receiver.context) :
             GetGameObject(context, i) = GetGameObject(receiver.context, i)
    BY <1>2, <1>3, LinkFields
<1>5. ~AddThrows(r.context, id, obj)
    BY <1>3 DEF AddThrows, NetworkId
<1>6. receiver' = [r EXCEPT !.context = context]
    BY <1>5 DEF MakeObject
<1> HIDE DEF context
<1>7. /\ DOMAIN receiver' = DOMAIN receiver
      /\ receiver'.context = context
      /\ receiver'.mReplicatedObjects = r.mReplicatedObjects
      /\ receiver'.phase = r.phase
      /\ receiver'.toRead = r.toRead
      /\ receiver'.receivedObjects = r.receivedObjects
    BY <1>6 DEF ReceiverTypeOK
<1>8. QED
    BY <1>2, <1>4, <1>7

\* The world that is read next is the one the wire no longer holds.
LEMMA ReceiveWorldKeeps ==
    ASSUME ReplicationInvariant, ReceiveWorld
    PROVE  ReplicationInvariant'
<1> USE DEF ReplicationInvariant, TypeOK
<1>1. /\ receiver.phase = "idle"
      /\ wire # << >> /\ Head(wire).action = "world"
      /\ wire' = Tail(wire)
      /\ receiver' = [receiver EXCEPT !.phase = "reading",
                                      !.toRead = Head(wire).objects,
                                      !.receivedObjects = {}]
      /\ UNCHANGED <<sender, heap, shown>>
    BY DEF ReceiveWorld
<1>2. /\ Len(wire) \in Nat \ {0}
      /\ DOMAIN wire = 1 .. Len(wire)
      /\ DOMAIN wire' = 1 .. Len(wire) - 1
      /\ Len(wire') = Len(wire) - 1
      /\ wire' \in Seq(Message)
      /\ Head(wire) = wire[1]
      /\ Head(wire) \in Message
      /\ \A i \in 1 .. Len(wire) - 1 : wire'[i] = wire[i + 1]
    BY <1>1, TailFields DEF StreamTypeOK
<1>3. sender.uses = "world"
    BY <1>1, <1>2 DEF SenderTypeOK, ActionsArriveInOrder, EveryActionFits
<1>4. /\ DOMAIN receiver' = DOMAIN receiver
      /\ receiver'.context = receiver.context
      /\ receiver'.mReplicatedObjects = receiver.mReplicatedObjects
      /\ receiver'.phase = "reading"
      /\ receiver'.toRead = wire[1].objects
      /\ receiver'.receivedObjects = {}
    BY <1>1, <1>2 DEF ReceiverTypeOK
<1>5. wire[1].objects \in Seq(Entry)
    BY <1>1, <1>2 DEF Message
<1>6. SenderTypeOK' /\ ReceiverTypeOK' /\ StreamTypeOK'
    BY <1>1, <1>2, <1>4, <1>5 DEF SenderTypeOK, ReceiverTypeOK, StreamTypeOK
<1>7. ContextsAreConsistent' /\ SenderIsSound' /\ ReceiverReachesWhatLives'
    BY <1>1, <1>4 DEF ContextsAreConsistent, SenderIsSound, ReceiverReachesWhatLives
<1>8. WorldsArriveWhole'
    <2>1. \A i \in DOMAIN wire' : wire'[i].action = "world"
        BY <1>2, <1>3 DEF WorldsArriveWhole
    <2>2. LinkedObjects(receiver.context) = receiver.mReplicatedObjects
        BY <1>1, <1>3 DEF WorldsArriveWhole, ReceiverReachesWhatLives
    <2>3. CASE wire' # << >>
        <3>1. Len(wire) > 1 /\ wire'[Len(wire')] = wire[Len(wire)]
            BY <1>2, <2>3
        <3>2. Shows(Range(wire[Len(wire)].objects))
            BY <1>1, <1>3 DEF WorldsArriveWhole
        <3>3. Shows(Range(wire[Len(wire)].objects))'
            BY <1>1, <3>1, <3>2 DEF Shows
        <3>4. QED
            BY <1>1, <1>3, <1>4, <2>1, <2>2, <2>3, <3>3 DEF WorldsArriveWhole
    <2>4. CASE wire' = << >>
        <3>1. wire[Len(wire)] = wire[1]
            <4>1. Len(wire') = 0
                BY <2>4
            <4>2. \A n \in Nat : n - 1 = 0 => n = 1
                OBVIOUS
            <4>3. QED
                BY <1>2, <4>1, <4>2
        <3>2. Shows(Range(receiver'.toRead))
            BY <1>1, <1>3, <1>4, <3>1 DEF WorldsArriveWhole
        <3>3. Settled' = {}
            BY <1>4 DEF Settled
        <3>4. Shows(Range(receiver.toRead) \cup {EntryOf(obj) : obj \in Settled})'
            BY <1>1, <3>2, <3>3 DEF Shows
        <3>5. QED
            BY <1>1, <1>3, <1>4, <2>1, <2>2, <2>4, <3>4 DEF WorldsArriveWhole
    <2>5. QED
        BY <2>3, <2>4
<1>9. QED
    BY <1>1, <1>3, <1>6, <1>7, <1>8

\* An entry of the last world is read into its object, or into a new one.
LEMMA RecieveGameObjectKeeps ==
    ASSUME ReplicationInvariant, RecieveGameObject
    PROVE  ReplicationInvariant'
<1> USE DEF ReplicationInvariant, TypeOK
<1> DEFINE e == Head(receiver.toRead)
           known == e.networkId \in LinkedIds(receiver.context)
           existing == GetGameObject(receiver.context, e.networkId)
           rest == [receiver EXCEPT !.toRead = Tail(@)]
<1>1. /\ receiver.phase = "reading"
      /\ receiver.toRead # << >>
      /\ UNCHANGED <<sender, wire, shown>>
    BY DEF RecieveGameObject
<1>2. /\ receiver.toRead \in Seq(Entry)
      /\ e \in Entry
      /\ e.networkId \in NetworkId /\ e.value \in Values
      /\ Tail(receiver.toRead) \in Seq(Entry)
      /\ Range(receiver.toRead) = {e} \cup Range(Tail(receiver.toRead))
    <2>1. receiver.toRead \in Seq(Entry)
        BY DEF ReceiverTypeOK
    <2>2. Range(receiver.toRead) = {e} \cup Range(Tail(receiver.toRead))
        BY <1>1, <2>1, RangeOfTail
    <2>3. e \in Entry /\ Tail(receiver.toRead) \in Seq(Entry)
        BY <1>1, <2>1
    <2> HIDE DEF e
    <2>4. QED
        BY <2>1, <2>2, <2>3 DEF Entry
<1>3. sender.uses = "world"
    BY <1>1 DEF SenderTypeOK, ActionsArriveInOrder
<1> HIDE DEF e
\* Which object the entry is read into, and what becomes of the others.
<1>4. PICK obj :
          /\ heap' \in Seq([value : Values, destroyed : BOOLEAN])
          /\ DOMAIN heap' = DOMAIN heap \cup {obj}
          /\ heap'[obj].value = e.value /\ ~heap'[obj].destroyed
          /\ \A o \in DOMAIN heap \ {obj} : heap'[o] = heap[o]
          /\ DOMAIN receiver' = DOMAIN receiver
          /\ receiver'.mReplicatedObjects = receiver.mReplicatedObjects
          /\ receiver'.phase = "reading"
          /\ receiver'.toRead = Tail(receiver.toRead)
          /\ receiver'.receivedObjects = receiver.receivedObjects \cup {obj}
          /\ ContextType(receiver'.context, DOMAIN heap')
          /\ MapsAreInverse(receiver'.context)
          /\ LinkedObjects(receiver'.context)
                 = LinkedObjects(receiver.context) \cup {obj}
          /\ receiver'.context.mGameObjectToIdMap[obj] = e.networkId
          /\ \A o \in LinkedObjects(receiver.context) :
                 receiver'.context.mGameObjectToIdMap[o]
                     = receiver.context.mGameObjectToIdMap[o]
    <2>1. CASE known
        <3>1. /\ heap' = [heap EXCEPT ![existing].value = e.value]
              /\ receiver' = [rest EXCEPT !.receivedObjects = @ \cup {existing}]
            BY <2>1 DEF RecieveGameObject, Deserialize, e
        <3>2. /\ existing \in LinkedObjects(receiver.context)
              /\ existing \in DOMAIN heap
              /\ receiver.context.mGameObjectToIdMap[existing] = e.networkId
            BY <2>1 DEF ContextsAreConsistent, MapsAreInverse, ReceiverTypeOK,
                        ContextType
        <3> HIDE DEF existing
        <3>3. ~heap[existing].destroyed
            BY <3>2 DEF ReceiverReachesWhatLives
        <3>4. /\ heap' \in Seq([value : Values, destroyed : BOOLEAN])
              /\ DOMAIN heap' = DOMAIN heap
              /\ heap'[existing].value = e.value /\ ~heap'[existing].destroyed
              /\ \A o \in DOMAIN heap \ {existing} : heap'[o] = heap[o]
            BY <1>2, <3>1, <3>2, <3>3, DeserializeFields
               DEF ReceiverTypeOK, Deserialize
        <3>5. /\ DOMAIN receiver' = DOMAIN receiver
              /\ receiver'.context = receiver.context
              /\ receiver'.mReplicatedObjects = receiver.mReplicatedObjects
              /\ receiver'.phase = "reading"
              /\ receiver'.toRead = Tail(receiver.toRead)
              /\ receiver'.receivedObjects
                     = receiver.receivedObjects \cup {existing}
            BY <1>1, <3>1 DEF ReceiverTypeOK
        <3>6. QED
            BY <3>2, <3>4, <3>5 DEF ContextsAreConsistent, ReceiverTypeOK
    <2>2. CASE ~known
        <3> DEFINE obj == Len(heap) + 1
                   r == [rest EXCEPT !.receivedObjects = @ \cup {obj}]
        <3>1. MakeObject(r, e.networkId, e.value)
            BY <2>2 DEF RecieveGameObject, e
        <3>2. /\ DOMAIN r = DOMAIN receiver
              /\ r.context = receiver.context
              /\ r.mReplicatedObjects = receiver.mReplicatedObjects
              /\ r.phase = "reading"
              /\ r.toRead = Tail(receiver.toRead)
              /\ r.receivedObjects = receiver.receivedObjects \cup {obj}
            BY <1>1 DEF ReceiverTypeOK
        <3> HIDE DEF r
        <3>3. ReceiverTypeOK /\ MapsAreInverse(receiver.context)
            BY DEF ContextsAreConsistent
        <3>4. /\ heap' \in Seq([value : Values, destroyed : BOOLEAN])
              /\ DOMAIN heap' = DOMAIN heap \cup {obj}
              /\ obj \notin DOMAIN heap
              /\ heap'[obj] = [value |-> e.value, destroyed |-> FALSE]
              /\ \A o \in DOMAIN heap : heap'[o] = heap[o]
              /\ DOMAIN receiver' = DOMAIN receiver
              /\ receiver'.mReplicatedObjects = r.mReplicatedObjects
              /\ receiver'.phase = r.phase
              /\ receiver'.toRead = r.toRead
              /\ receiver'.receivedObjects = r.receivedObjects
              /\ ContextType(receiver'.context, DOMAIN heap')
              /\ MapsAreInverse(receiver'.context)
              /\ LinkedObjects(receiver'.context)
                     = LinkedObjects(receiver.context) \cup {obj}
              /\ receiver'.context.mGameObjectToIdMap[obj] = e.networkId
              /\ \A o \in LinkedObjects(receiver.context) :
                     receiver'.context.mGameObjectToIdMap[o]
                         = receiver.context.mGameObjectToIdMap[o]
            BY <1>2, <2>2, <3>1, <3>2, <3>3, MakeObjectFields
        <3> HIDE DEF obj
        <3>5. QED
            BY <3>2, <3>4
    <2>3. QED
        BY <2>1, <2>2
<1>5. SenderTypeOK' /\ StreamTypeOK'
    BY <1>1 DEF SenderTypeOK, StreamTypeOK
<1>6. ReceiverTypeOK'
    BY <1>2, <1>4 DEF ReceiverTypeOK
<1>7. ContextsAreConsistent' /\ SenderIsSound'
    BY <1>1, <1>4 DEF ContextsAreConsistent, SenderIsSound
<1>8. ReceiverReachesWhatLives'
    BY <1>4 DEF ReceiverReachesWhatLives
<1>9. WorldsArriveWhole'
    <2>1. LinkedObjects(receiver'.context)
              = receiver'.mReplicatedObjects \cup receiver'.receivedObjects
        BY <1>3, <1>4 DEF WorldsArriveWhole
    <2>2. CASE wire = << >>
        <3>1. Shows(Range(receiver.toRead) \cup {EntryOf(o) : o \in Settled})
            BY <1>3, <2>2 DEF WorldsArriveWhole
        <3>2. Settled = receiver.receivedObjects
                /\ Settled' = receiver.receivedObjects \cup {obj}
            BY <1>1, <1>4 DEF Settled
        <3>3. EntryOf(obj)' = e
            BY <1>2, <1>4 DEF EntryOf, Entry
        <3>4. \A o \in receiver.receivedObjects :
                  \/ EntryOf(o)' = EntryOf(o)
                  \/ EntryOf(o)' = e /\ EntryOf(o).networkId = e.networkId
            BY <1>4, <3>3 DEF EntryOf, ReceiverTypeOK, ReceiverReachesWhatLives
        <3> DEFINE before == Range(receiver.toRead) \cup {EntryOf(o) : o \in Settled}
                   after == Range(receiver'.toRead)
                                \cup {EntryOf(o)' : o \in Settled'}
        <3>5. after \subseteq before
            BY <1>2, <1>4, <3>2, <3>3, <3>4
        <3>6. \A f \in before : \E g \in after : g.networkId = f.networkId
            BY <1>2, <1>4, <3>2, <3>3, <3>4
        <3>7. Shows(after)
            BY <3>1, <3>5, <3>6, ShowsPart
        <3>8. Shows(Range(receiver.toRead) \cup {EntryOf(o) : o \in Settled})'
            BY <1>1, <3>7 DEF Shows
        <3>9. QED
            BY <1>1, <1>3, <2>1, <2>2, <3>8 DEF WorldsArriveWhole
    <2>3. CASE wire # << >>
        BY <1>1, <1>3, <2>1, <2>3 DEF WorldsArriveWhole, Shows
    <2>4. QED
        BY <2>2, <2>3
<1>10. QED
    BY <1>1, <1>3, <1>5, <1>6, <1>7, <1>8, <1>9

\* Unlinking a set of objects keeps the links of the others.
LEMMA RemoveAllFields ==
    ASSUME NEW objects, NEW context, ContextType(context, objects),
           MapsAreInverse(context), NEW gone \in SUBSET LinkedObjects(context)
    PROVE  LET d == RemoveAll(context, gone)
           IN  /\ ContextType(d, objects)
               /\ MapsAreInverse(d)
               /\ LinkedObjects(d) = LinkedObjects(context) \ gone
               /\ \A o \in LinkedObjects(d) :
                      d.mGameObjectToIdMap[o] = context.mGameObjectToIdMap[o]
<1> DEFINE d == RemoveAll(context, gone)
           ids == {context.mGameObjectToIdMap[obj] : obj \in gone}
<1>1. /\ DOMAIN d = {"mNextId", "mGameObjectToIdMap", "mIdToGameObjectMap"}
      /\ d.mNextId = context.mNextId
      /\ d.mGameObjectToIdMap = Restrict(context.mGameObjectToIdMap,
                                         LinkedObjects(context) \ gone)
      /\ d.mIdToGameObjectMap = Restrict(context.mIdToGameObjectMap,
                                         LinkedIds(context) \ ids)
    <2>1. gone \cap LinkedObjects(context) = gone
        OBVIOUS
    <2>2. QED
        BY <2>1 DEF RemoveAll, ContextType, LinkedObjects, LinkedIds
<1> HIDE DEF d
<1>2. /\ LinkedObjects(d) = LinkedObjects(context) \ gone
      /\ LinkedIds(d) = LinkedIds(context) \ ids
      /\ \A o \in LinkedObjects(d) :
             d.mGameObjectToIdMap[o] = context.mGameObjectToIdMap[o]
      /\ \A i \in LinkedIds(d) : GetGameObject(d, i) = GetGameObject(context, i)
    BY <1>1 DEF Restrict, LinkedObjects, LinkedIds, GetGameObject
<1>3. ContextType(d, objects)
    <2>1. /\ d.mGameObjectToIdMap \in [LinkedObjects(d) -> NetworkId]
          /\ d.mIdToGameObjectMap \in [LinkedIds(d) -> objects]
        BY <1>1 DEF ContextType, Restrict, LinkedObjects, LinkedIds
    <2>2. QED
        BY <1>1, <1>2, <2>1 DEF ContextType
<1>4. MapsAreInverse(d)
    BY <1>2 DEF MapsAreInverse
<1>5. QED
    BY <1>2, <1>3, <1>4 DEF d

\* Destroying objects changes nothing else of the heap.
LEMMA DestroyedFields ==
    ASSUME heap \in Seq([value : Values, destroyed : BOOLEAN]), NEW gone
    PROVE  /\ Destroyed(gone) \in Seq([value : Values, destroyed : BOOLEAN])
           /\ DOMAIN Destroyed(gone) = DOMAIN heap
           /\ \A o \in DOMAIN heap :
                  /\ Destroyed(gone)[o].value = heap[o].value
                  /\ Destroyed(gone)[o].destroyed
                         <=> (o \in gone \/ heap[o].destroyed)
<1> DEFINE Object == [value : Values, destroyed : BOOLEAN]
           after == Destroyed(gone)
<1>1. /\ Len(heap) \in Nat
      /\ DOMAIN heap = 1 .. Len(heap)
      /\ \A o \in DOMAIN heap : heap[o] \in Object
    BY LenProperties, ElementOfSeq
<1>2. \A o \in DOMAIN heap :
          /\ after[o] \in Object
          /\ after[o].value = heap[o].value
          /\ after[o].destroyed <=> (o \in gone \/ heap[o].destroyed)
    <2> SUFFICES ASSUME NEW o \in DOMAIN heap
                 PROVE  /\ after[o] \in Object
                        /\ after[o].value = heap[o].value
                        /\ after[o].destroyed <=> (o \in gone \/ heap[o].destroyed)
        OBVIOUS
    <2>1. heap[o] \in Object
        BY <1>1
    <2>2. CASE o \in gone
        <3>1. after[o] = [heap[o] EXCEPT !.destroyed = TRUE]
            BY <2>2 DEF Destroyed
        <3>2. QED
            BY <2>1, <2>2, <3>1
    <2>3. CASE o \notin gone
        <3>1. after[o] = heap[o]
            BY <2>3 DEF Destroyed
        <3>2. QED
            BY <2>1, <2>3, <3>1
    <2>4. QED
        BY <2>2, <2>3
<1>3. DOMAIN after = DOMAIN heap /\ after = [o \in DOMAIN heap |-> after[o]]
    BY DEF Destroyed
<1> HIDE DEF after, Object
<1>4. after \in [1 .. Len(heap) -> Object]
    BY <1>1, <1>2, <1>3
<1>5. after \in Seq(Object)
    BY <1>1, <1>4
<1>6. QED
    BY <1>2, <1>3, <1>5 DEF after, Object

\* The objects of the last world stay, and those of the one before that it
\* does not name are unlinked and destroyed.
LEMMA RemoveAbsentObjectsKeeps ==
    ASSUME ReplicationInvariant, RemoveAbsentObjects
    PROVE  ReplicationInvariant'
<1> USE DEF ReplicationInvariant, TypeOK
<1> DEFINE absent == receiver.mReplicatedObjects \ receiver.receivedObjects
           context == RemoveAll(receiver.context, absent)
<1>1. /\ receiver.phase = "reading"
      /\ receiver.toRead = << >>
      /\ receiver' = [receiver EXCEPT
             !.phase = "idle", !.receivedObjects = {},
             !.context = context,
             !.mReplicatedObjects = receiver.receivedObjects]
      /\ heap' = Destroyed(absent)
      /\ UNCHANGED <<sender, wire, shown>>
    BY DEF RemoveAbsentObjects
<1>2. sender.uses = "world"
    BY <1>1 DEF SenderTypeOK, ActionsArriveInOrder
<1>3. LinkedObjects(receiver.context)
          = receiver.mReplicatedObjects \cup receiver.receivedObjects
    BY <1>2 DEF WorldsArriveWhole
<1>4. /\ ContextType(context, DOMAIN heap)
      /\ MapsAreInverse(context)
      /\ LinkedObjects(context) = receiver.receivedObjects
      /\ \A o \in LinkedObjects(context) :
             context.mGameObjectToIdMap[o] = receiver.context.mGameObjectToIdMap[o]
    <2>1. absent \in SUBSET LinkedObjects(receiver.context)
        BY <1>3
    <2>2. ContextType(receiver.context, DOMAIN heap)
            /\ MapsAreInverse(receiver.context)
        BY DEF ReceiverTypeOK, ContextsAreConsistent
    <2>3. LinkedObjects(receiver.context) \ absent = receiver.receivedObjects
        BY <1>3
    <2> HIDE DEF absent
    <2>4. /\ ContextType(context, DOMAIN heap)
          /\ MapsAreInverse(context)
          /\ LinkedObjects(context) = LinkedObjects(receiver.context) \ absent
          /\ \A o \in LinkedObjects(context) :
                 context.mGameObjectToIdMap[o]
                     = receiver.context.mGameObjectToIdMap[o]
        BY <2>1, <2>2, RemoveAllFields
    <2>5. QED
        BY <2>3, <2>4
<1> HIDE DEF context
<1>5. /\ DOMAIN receiver' = DOMAIN receiver
      /\ receiver'.context = context
      /\ receiver'.mReplicatedObjects = receiver.receivedObjects
      /\ receiver'.phase = "idle"
      /\ receiver'.toRead = << >>
      /\ receiver'.receivedObjects = {}
    BY <1>1 DEF ReceiverTypeOK
<1>6. /\ heap' \in Seq([value : Values, destroyed : BOOLEAN])
      /\ DOMAIN heap' = DOMAIN heap
      /\ \A o \in DOMAIN heap :
             /\ heap'[o].value = heap[o].value
             /\ heap'[o].destroyed <=> (o \in absent \/ heap[o].destroyed)
    BY <1>1, DestroyedFields DEF ReceiverTypeOK
<1>7. SenderTypeOK' /\ StreamTypeOK'
    BY <1>1 DEF SenderTypeOK, StreamTypeOK
<1>8. ReceiverTypeOK'
    BY <1>4, <1>5, <1>6 DEF ReceiverTypeOK
<1>9. ContextsAreConsistent' /\ SenderIsSound'
    BY <1>1, <1>4, <1>5 DEF ContextsAreConsistent, SenderIsSound
<1>10. ReceiverReachesWhatLives'
    BY <1>3, <1>4, <1>5, <1>6 DEF ReceiverReachesWhatLives
<1>11. WorldsArriveWhole'
    <2>1. CASE wire = << >>
        <3>1. /\ Settled = receiver.receivedObjects
              /\ Settled' = receiver.receivedObjects
            BY <1>1, <1>4, <1>5 DEF Settled
        <3>2. \A o \in receiver.receivedObjects : EntryOf(o)' = EntryOf(o)
            BY <1>4, <1>5, <1>6 DEF EntryOf, ReceiverTypeOK
        <3>3. {EntryOf(o) : o \in Settled}' = {EntryOf(o) : o \in Settled}
            BY <3>1, <3>2
        <3>4. Shows(Range(receiver.toRead) \cup {EntryOf(o) : o \in Settled})
            BY <1>2, <2>1 DEF WorldsArriveWhole
        <3>5. Shows(Range(receiver.toRead) \cup {EntryOf(o) : o \in Settled})'
            BY <1>1, <1>5, <3>3, <3>4 DEF Shows
        <3>6. QED
            BY <1>1, <1>2, <1>4, <1>5, <2>1, <3>5 DEF WorldsArriveWhole
    <2>2. CASE wire # << >>
        BY <1>1, <1>2, <1>4, <1>5, <2>2 DEF WorldsArriveWhole, Shows
    <2>3. QED
        BY <2>1, <2>2
<1>12. QED
    BY <1>1, <1>2, <1>7, <1>8, <1>9, <1>10, <1>11

\* A receiver that does what the first action says keeps what holds of the
\* stream: the later actions on the same id find it done.
LEMMA TailKeepsOrder ==
    ASSUME ReplicationInvariant, sender.uses = "actions",
           wire # << >>, wire' = Tail(wire), UNCHANGED <<sender, shown>>,
           IF Head(wire).action = "RA_Destroy"
           THEN LinkedIds(receiver'.context)
                    = LinkedIds(receiver.context) \ {Head(wire).networkId}
           ELSE /\ LinkedIds(receiver'.context)
                       = LinkedIds(receiver.context) \cup {Head(wire).networkId}
                /\ heap'[GetGameObject(receiver'.context, Head(wire).networkId)].value
                       = Head(wire).value,
           \A id \in LinkedIds(receiver'.context) \ {Head(wire).networkId} :
               heap'[GetGameObject(receiver'.context, id)].value
                   = heap[GetGameObject(receiver.context, id)].value
    PROVE  /\ EveryActionFits'
           /\ LastActionsAreShown'
           /\ SettledIdsAreShown'
<1> USE DEF ReplicationInvariant, TypeOK, ActionsArriveInOrder
<1> DEFINE header == wire[1]
<1>1. /\ Len(wire) \in Nat \ {0}
      /\ DOMAIN wire = 1 .. Len(wire)
      /\ DOMAIN wire' = 1 .. Len(wire) - 1
      /\ Len(wire') = Len(wire) - 1
      /\ Head(wire) = header
      /\ \A i \in 1 .. Len(wire) - 1 : wire'[i] = wire[i + 1]
      /\ \A i \in 1 .. Len(wire) : wire[i] \in Message
    BY TailFields DEF StreamTypeOK
<1>2. /\ \A i \in DOMAIN wire : wire[i].networkId \in NetworkId
      /\ header.action \in {"RA_Create", "RA_Update", "RA_Destroy"}
    BY <1>1 DEF Message, EveryActionFits
<1>3. /\ header.networkId < sender.context.mNextId
      /\ IF header.action = "RA_Create" THEN IsFresh(header.networkId, 1)
                                        ELSE Reaches(header.networkId, 1)
    BY <1>1 DEF EveryActionFits
<1>4. /\ header.action = "RA_Destroy" =>
             LinkedIds(receiver'.context)
                 = LinkedIds(receiver.context) \ {header.networkId}
      /\ header.action # "RA_Destroy" =>
             /\ LinkedIds(receiver'.context)
                    = LinkedIds(receiver.context) \cup {header.networkId}
             /\ heap'[GetGameObject(receiver'.context, header.networkId)].value
                    = header.value
      /\ \A id \in LinkedIds(receiver'.context) \ {header.networkId} :
             heap'[GetGameObject(receiver'.context, id)].value
                 = heap[GetGameObject(receiver.context, id)].value
    BY <1>1
<1>5. ASSUME NEW n \in 1 .. Len(wire), NEW id \in NetworkId
      PROVE  /\ IsFresh(id, n + 1) => IsFresh(id, n)'
             /\ Reaches(id, n + 1) => Reaches(id, n)'
    <2>1. /\ 1 \in 1 .. (n + 1) - 1
          /\ \A j \in 1 .. n - 1 : /\ j + 1 \in 1 .. (n + 1) - 1
                                   /\ wire'[j] = wire[j + 1]
          /\ \A j \in 1 .. (n + 1) - 1 :
                 j = 1 \/ (j - 1 \in 1 .. n - 1 /\ (j - 1) + 1 = j)
        BY <1>1
    <2>2. IsFresh(id, n + 1) => IsFresh(id, n)'
        BY <1>4, <2>1 DEF IsFresh
    <2>3. ASSUME Reaches(id, n + 1)
          PROVE  Reaches(id, n)'
        <3>1. ~(header.action = "RA_Destroy" /\ header.networkId = id)
            BY <2>1, <2>3 DEF Reaches
        <3>2. \/ id \in LinkedIds(receiver'.context)
              \/ \E j \in 1 .. n - 1 :
                     wire'[j].action = "RA_Create" /\ wire'[j].networkId = id
            <4>1. CASE id \in LinkedIds(receiver.context)
                BY <1>2, <1>4, <3>1, <4>1
            <4>2. CASE \E j \in 1 .. (n + 1) - 1 :
                           wire[j].action = "RA_Create" /\ wire[j].networkId = id
                BY <1>4, <2>1, <4>2
            <4>3. QED
                BY <2>3, <4>1, <4>2 DEF Reaches
        <3>3. \A j \in 1 .. n - 1 :
                  wire'[j].networkId = id => wire'[j].action # "RA_Destroy"
            BY <2>1, <2>3 DEF Reaches
        <3>4. QED
            BY <3>2, <3>3 DEF Reaches
    <2>4. QED
        BY <2>2, <2>3
<1>6. EveryActionFits'
    <2>1. ASSUME NEW i \in DOMAIN wire'
          PROVE  (/\ wire[i].action # "world"
                  /\ wire[i].networkId < sender.context.mNextId
                  /\ IF wire[i].action = "RA_Create"
                     THEN IsFresh(wire[i].networkId, i)
                     ELSE Reaches(wire[i].networkId, i))'
        <3>1. /\ wire'[i] = wire[i + 1]
              /\ i + 1 \in DOMAIN wire
              /\ i \in 1 .. Len(wire)
            BY <1>1
        <3>2. PICK id \in NetworkId : id = wire[i + 1].networkId
            BY <1>2, <3>1
        <3>3. IF wire[i + 1].action = "RA_Create" THEN IsFresh(id, i)'
                                                  ELSE Reaches(id, i)'
            BY <1>5, <3>1, <3>2 DEF EveryActionFits
        <3>4. IF wire'[i].action = "RA_Create" THEN IsFresh(wire[i].networkId, i)'
                                               ELSE Reaches(wire[i].networkId, i)'
            BY <3>1, <3>2, <3>3
        <3>5. QED
            BY <3>1, <3>4 DEF EveryActionFits
    <2>2. \A id \in LinkedIds(receiver'.context) : id < sender.context.mNextId
        BY <1>2, <1>3, <1>4 DEF EveryActionFits
    <2>3. ASSUME NEW id \in LinkedIds(sender.context)
          PROVE  Reaches(id, Len(wire) + 1)'
        <3>1. /\ id \in NetworkId
              /\ Len(wire) \in 1 .. Len(wire)
            BY <1>1 DEF SenderTypeOK, ContextType
        <3>2. Reaches(id, Len(wire) + 1)
            BY DEF EveryActionFits
        <3>3. PICK n \in 1 .. Len(wire) : n = Len(wire)
            BY <3>1
        <3>4. Reaches(id, n)'
            BY <1>5, <3>1, <3>2, <3>3
        <3>5. Len(wire') + 1 = n
            BY <1>1, <3>3
        <3>6. QED
            BY <3>4, <3>5
    <2>4. QED
        BY <2>1, <2>2, <2>3 DEF EveryActionFits
<1>7. LastActionsAreShown'
    <2> SUFFICES ASSUME NEW i \in DOMAIN wire',
                        \A j \in i + 1 .. Len(wire') :
                            wire'[j].networkId # wire'[i].networkId
                 PROVE  IF wire'[i].action = "RA_Destroy"
                        THEN wire'[i].networkId \notin DOMAIN shown
                        ELSE /\ wire'[i].networkId \in DOMAIN shown
                             /\ shown[wire'[i].networkId] = wire'[i].value
        BY DEF LastActionsAreShown
    <2>1. /\ wire'[i] = wire[i + 1]
          /\ i + 1 \in DOMAIN wire
          /\ \A j \in (i + 1) + 1 .. Len(wire) :
                 j - 1 \in i + 1 .. Len(wire') /\ wire'[j - 1] = wire[j]
        BY <1>1
    <2>2. \A j \in (i + 1) + 1 .. Len(wire) :
              wire[j].networkId # wire[i + 1].networkId
        BY <2>1
    <2>3. QED
        BY <2>1, <2>2 DEF LastActionsAreShown
<1>8. SettledIdsAreShown'
    <2> SUFFICES ASSUME NEW id \in DOMAIN shown \cup LinkedIds(receiver'.context),
                        \A i \in DOMAIN wire' : wire'[i].networkId # id
                 PROVE  /\ id \in DOMAIN shown /\ id \in LinkedIds(receiver'.context)
                        /\ shown[id] =
                               heap'[GetGameObject(receiver'.context, id)].value
        BY DEF SettledIdsAreShown
    <2>1. \A j \in 2 .. Len(wire) :
              j - 1 \in DOMAIN wire' /\ wire'[j - 1] = wire[j]
        BY <1>1
    <2>2. \A j \in 2 .. Len(wire) : wire[j].networkId # id
        BY <2>1
    <2>3. CASE id = header.networkId
        <3>1. IF header.action = "RA_Destroy"
              THEN id \notin DOMAIN shown
              ELSE id \in DOMAIN shown /\ shown[id] = header.value
            BY <1>1, <2>2, <2>3 DEF LastActionsAreShown
        <3>2. QED
            BY <1>4, <2>3, <3>1
    <2>4. CASE id # header.networkId
        <3>1. \A i \in DOMAIN wire : i = 1 \/ i \in 2 .. Len(wire)
            BY <1>1
        <3>2. \A i \in DOMAIN wire : wire[i].networkId # id
            BY <2>2, <2>4, <3>1
        <3>3. /\ id \in DOMAIN shown /\ id \in LinkedIds(receiver.context)
              /\ shown[id] = heap[GetGameObject(receiver.context, id)].value
            BY <1>4, <2>4, <3>2 DEF SettledIdsAreShown
        <3>4. QED
            BY <1>4, <2>4, <3>3
    <2>5. QED
        BY <2>3, <2>4
<1>9. QED
    BY <1>6, <1>7, <1>8

\* A create makes an object, an update or a destroy finds one.
LEMMA ProcessReplicationActionKeeps ==
    ASSUME ReplicationInvariant, ProcessReplicationAction
    PROVE  ReplicationInvariant'
<1> USE DEF ReplicationInvariant, TypeOK
<1> DEFINE header == Head(wire)
           id == header.networkId
           obj == GetGameObject(receiver.context, id)
<1>1. /\ receiver.phase = "idle"
      /\ wire # << >> /\ header.action # "world"
      /\ wire' = Tail(wire)
      /\ UNCHANGED <<sender, shown>>
    BY DEF ProcessReplicationAction
<1>2. /\ wire' \in Seq(Message)
      /\ header \in Message
      /\ header = wire[1]
      /\ 1 \in DOMAIN wire
    BY <1>1, TailFields DEF StreamTypeOK
<1>3. sender.uses = "actions"
    BY <1>1, <1>2 DEF SenderTypeOK, WorldsArriveWhole
<1>4. /\ id \in NetworkId
      /\ header.action \in {"RA_Create", "RA_Update", "RA_Destroy"}
      /\ header.action # "RA_Destroy" => header.value \in Values
    BY <1>1, <1>2 DEF Message
<1>5. IF header.action = "RA_Create" THEN id \notin LinkedIds(receiver.context)
                                     ELSE id \in LinkedIds(receiver.context)
    <2>1. IF header.action = "RA_Create" THEN IsFresh(id, 1) ELSE Reaches(id, 1)
        BY <1>2, <1>3 DEF ActionsArriveInOrder, EveryActionFits
    <2>2. QED
        BY <2>1 DEF IsFresh, Reaches
<1>6. SenderTypeOK' /\ StreamTypeOK' /\ SenderIsSound'
    BY <1>1, <1>2 DEF SenderTypeOK, StreamTypeOK, SenderIsSound
<1>7. /\ receiver.mReplicatedObjects = {} /\ receiver.receivedObjects = {}
      /\ receiver.toRead = << >>
    BY <1>1, <1>3 DEF ActionsArriveInOrder, ReceiverReachesWhatLives
<1>8. id \in LinkedIds(receiver.context) =>
          /\ obj \in LinkedObjects(receiver.context)
          /\ obj \in DOMAIN heap
          /\ receiver.context.mGameObjectToIdMap[obj] = id
          /\ \A i \in LinkedIds(receiver.context) \ {id} :
                 /\ GetGameObject(receiver.context, i) # obj
                 /\ GetGameObject(receiver.context, i) \in DOMAIN heap
    BY DEF ContextsAreConsistent, MapsAreInverse, ReceiverTypeOK, ContextType
\* What the receiver is afterwards, whatever the action.
<1> DEFINE ReceiverIsGood ==
               /\ ReceiverTypeOK
               /\ MapsAreInverse(receiver.context)
               /\ ReceiverReachesWhatLives
               /\ receiver.phase # "reading"
               /\ receiver.mReplicatedObjects = {}
           ActionIsDone ==
               /\ IF header.action = "RA_Destroy"
                  THEN LinkedIds(receiver'.context)
                           = LinkedIds(receiver.context) \ {id}
                  ELSE /\ LinkedIds(receiver'.context)
                              = LinkedIds(receiver.context) \cup {id}
                       /\ heap'[GetGameObject(receiver'.context, id)].value
                              = header.value
               /\ \A i \in LinkedIds(receiver'.context) \ {id} :
                      heap'[GetGameObject(receiver'.context, i)].value
                          = heap[GetGameObject(receiver.context, i)].value
<1>9. ASSUME header.action = "RA_Create"
      PROVE  ReceiverIsGood' /\ ActionIsDone
    <2>1. MakeObject(receiver, id, header.value)
        BY <1>9 DEF ProcessReplicationAction
    <2>2. ReceiverTypeOK /\ MapsAreInverse(receiver.context)
        BY DEF ContextsAreConsistent
    <2> DEFINE new == Len(heap) + 1
    <2>3. /\ heap' \in Seq([value : Values, destroyed : BOOLEAN])
          /\ DOMAIN heap' = DOMAIN heap \cup {new}
          /\ new \notin DOMAIN heap
          /\ heap'[new] = [value |-> header.value, destroyed |-> FALSE]
          /\ \A o \in DOMAIN heap : heap'[o] = heap[o]
          /\ DOMAIN receiver' = DOMAIN receiver
          /\ receiver'.mReplicatedObjects = receiver.mReplicatedObjects
          /\ receiver'.phase = receiver.phase
          /\ receiver'.toRead = receiver.toRead
          /\ receiver'.receivedObjects = receiver.receivedObjects
          /\ ContextType(receiver'.context, DOMAIN heap')
          /\ MapsAreInverse(receiver'.context)
          /\ LinkedObjects(receiver'.context)
                 = LinkedObjects(receiver.context) \cup {new}
          /\ LinkedIds(receiver'.context) = LinkedIds(receiver.context) \cup {id}
          /\ GetGameObject(receiver'.context, id) = new
          /\ \A i \in LinkedIds(receiver.context) :
                 GetGameObject(receiver'.context, i)
                     = GetGameObject(receiver.context, i)
        BY <1>4, <1>5, <1>9, <2>1, <2>2, MakeObjectFields
    <2> HIDE DEF new
    <2>4. ReceiverTypeOK'
        BY <1>7, <2>3 DEF ReceiverTypeOK
    <2>5. ReceiverReachesWhatLives'
        BY <1>1, <1>7, <2>3 DEF ReceiverReachesWhatLives
    <2>6. ActionIsDone
        BY <1>9, <2>3 DEF ReceiverTypeOK, ContextType, GetGameObject
    <2>7. QED
        BY <1>1, <1>7, <2>3, <2>4, <2>5, <2>6
<1>10. ASSUME header.action = "RA_Update"
       PROVE  ReceiverIsGood' /\ ActionIsDone
    <2>1. Deserialize(obj, header.value) /\ UNCHANGED receiver
        BY <1>5, <1>10 DEF ProcessReplicationAction
    <2>2. obj \in DOMAIN heap
        BY <1>5, <1>8, <1>10
    <2>3. /\ heap' \in Seq([value : Values, destroyed : BOOLEAN])
          /\ DOMAIN heap' = DOMAIN heap
          /\ heap'[obj].value = header.value
          /\ heap'[obj].destroyed = heap[obj].destroyed
          /\ \A o \in DOMAIN heap \ {obj} : heap'[o] = heap[o]
        BY <1>4, <1>10, <2>1, <2>2, DeserializeFields DEF ReceiverTypeOK
    <2>4. ReceiverTypeOK'
        BY <2>1, <2>3 DEF ReceiverTypeOK
    <2>5. MapsAreInverse(receiver'.context)
        BY <2>1 DEF ContextsAreConsistent
    <2>6. ReceiverReachesWhatLives'
        BY <2>1, <2>3 DEF ReceiverReachesWhatLives
    <2>7. ActionIsDone
        BY <1>5, <1>8, <1>10, <2>1, <2>3
    <2>8. QED
        BY <1>1, <1>7, <2>1, <2>4, <2>5, <2>6, <2>7
<1>11. ASSUME header.action = "RA_Destroy"
       PROVE  ReceiverIsGood' /\ ActionIsDone
    <2> DEFINE context == RemoveGameObject(receiver.context, obj)
    <2>1. /\ receiver' = [receiver EXCEPT !.context = context]
          /\ heap' = Destroyed({obj})
        BY <1>5, <1>11 DEF ProcessReplicationAction
    <2>2. /\ obj \in LinkedObjects(receiver.context)
          /\ receiver.context.mGameObjectToIdMap[obj] = id
        BY <1>5, <1>8, <1>11
    <2>3. ContextType(receiver.context, DOMAIN heap)
            /\ MapsAreInverse(receiver.context)
        BY DEF ReceiverTypeOK, ContextsAreConsistent
    <2>4. /\ ContextType(context, DOMAIN heap)
          /\ MapsAreInverse(context)
          /\ LinkedObjects(context) = LinkedObjects(receiver.context) \ {obj}
          /\ LinkedIds(context) = LinkedIds(receiver.context) \ {id}
          /\ \A i \in LinkedIds(context) :
                 GetGameObject(context, i) = GetGameObject(receiver.context, i)
        BY <2>2, <2>3, RemoveGameObjectFields
    <2> HIDE DEF context
    <2>5. /\ DOMAIN receiver' = DOMAIN receiver
          /\ receiver'.context = context
          /\ receiver'.mReplicatedObjects = receiver.mReplicatedObjects
          /\ receiver'.phase = receiver.phase
          /\ receiver'.toRead = receiver.toRead
          /\ receiver'.receivedObjects = receiver.receivedObjects
        BY <2>1 DEF ReceiverTypeOK
    <2>6. /\ heap' \in Seq([value : Values, destroyed : BOOLEAN])
          /\ DOMAIN heap' = DOMAIN heap
          /\ \A o \in DOMAIN heap :
                 /\ heap'[o].value = heap[o].value
                 /\ heap'[o].destroyed <=> (o \in {obj} \/ heap[o].destroyed)
        BY <2>1, DestroyedFields DEF ReceiverTypeOK
    <2>7. ReceiverTypeOK'
        BY <2>4, <2>5, <2>6 DEF ReceiverTypeOK
    <2>8. ReceiverReachesWhatLives'
        BY <1>7, <2>4, <2>5, <2>6 DEF ReceiverReachesWhatLives
    <2>9. ActionIsDone
        BY <1>5, <1>8, <1>11, <2>4, <2>5, <2>6
    <2>10. QED
        BY <1>1, <1>7, <2>4, <2>5, <2>7, <2>8, <2>9
<1>12. ReceiverIsGood' /\ ActionIsDone
    BY <1>4, <1>9, <1>10, <1>11
<1>13. EveryActionFits' /\ LastActionsAreShown' /\ SettledIdsAreShown'
    BY <1>1, <1>3, <1>12, TailKeepsOrder
<1>14. ContextsAreConsistent'
    BY <1>1, <1>12 DEF ContextsAreConsistent
<1>15. ActionsArriveInOrder'
    BY <1>1, <1>3, <1>12, <1>13 DEF ActionsArriveInOrder
<1>16. QED
    BY <1>1, <1>3, <1>6, <1>12, <1>14, <1>15

----------------------------------------------------------------------------
\* ReplicationInvariant implies what the runs check.
LEMMA InvariantImplies ==
    ASSUME ReplicationInvariant
    PROVE  /\ TypeOK
           /\ ContextsAreConsistent
           /\ QuietReceiverShowsTheWorld
           /\ NoDestroyedObjectIsReached
           /\ NothingIsThrown
<1> USE DEF ReplicationInvariant, TypeOK
<1>1. NothingIsThrown
    BY DEF NothingIsThrown, ReceiverReachesWhatLives
<1>2. NoDestroyedObjectIsReached
    BY DEF NoDestroyedObjectIsReached, ReceiverReachesWhatLives, ReceiverTypeOK,
           ContextType
<1>3. ASSUME wire = << >>, receiver.phase = "idle"
      PROVE  View = shown
    <2>1. /\ DOMAIN shown = LinkedIds(receiver.context)
          /\ \A id \in LinkedIds(receiver.context) :
                 shown[id] = heap[GetGameObject(receiver.context, id)].value
        <3>1. CASE sender.uses = "world"
            <4> DEFINE linked == LinkedObjects(receiver.context)
            <4>1. Shows(Range(receiver.toRead) \cup {EntryOf(obj) : obj \in linked})
                BY <1>3, <3>1 DEF WorldsArriveWhole, Settled
            <4>2. Range(receiver.toRead) = {}
                BY <1>3 DEF ReceiverReachesWhatLives, Range
            <4>3. Shows({EntryOf(obj) : obj \in linked})
                BY <4>1, <4>2
            <4>4. \A id \in LinkedIds(receiver.context) :
                      /\ GetGameObject(receiver.context, id) \in linked
                      /\ EntryOf(GetGameObject(receiver.context, id)).networkId = id
                      /\ EntryOf(GetGameObject(receiver.context, id)).value
                             = heap[GetGameObject(receiver.context, id)].value
                BY DEF ContextsAreConsistent, MapsAreInverse, EntryOf
            <4>5. \A obj \in linked :
                      EntryOf(obj).networkId \in LinkedIds(receiver.context)
                BY DEF ContextsAreConsistent, MapsAreInverse, EntryOf
            <4> HIDE DEF linked
            <4>6. /\ DOMAIN shown = {EntryOf(obj).networkId : obj \in linked}
                  /\ \A obj \in linked :
                         shown[EntryOf(obj).networkId] = EntryOf(obj).value
                BY <4>3 DEF Shows
            <4>7. DOMAIN shown = LinkedIds(receiver.context)
                <5>1. DOMAIN shown \subseteq LinkedIds(receiver.context)
                    BY <4>5, <4>6
                <5>2. LinkedIds(receiver.context) \subseteq DOMAIN shown
                    BY <4>4, <4>6
                <5>3. QED
                    BY <5>1, <5>2
            <4>8. \A id \in LinkedIds(receiver.context) :
                      shown[id] = heap[GetGameObject(receiver.context, id)].value
                BY <4>4, <4>6
            <4>9. QED
                BY <4>7, <4>8
        <3>2. CASE sender.uses = "actions"
            <4>1. DOMAIN wire = {}
                BY <1>3
            <4>2. \A id \in DOMAIN shown \cup LinkedIds(receiver.context) :
                      /\ id \in DOMAIN shown /\ id \in LinkedIds(receiver.context)
                      /\ shown[id] =
                             heap[GetGameObject(receiver.context, id)].value
                BY <3>2, <4>1 DEF ActionsArriveInOrder, SettledIdsAreShown
            <4>3. QED
                BY <4>2
        <3>3. QED
            BY <3>1, <3>2 DEF SenderTypeOK
    <2>2. shown = [id \in DOMAIN shown |-> shown[id]]
        BY DEF StreamTypeOK
    <2>3. QED
        BY <2>1, <2>2 DEF View
<1>4. QuietReceiverShowsTheWorld
    BY <1>3 DEF QuietReceiverShowsTheWorld, ReceiverReachesWhatLives
<1>5. QED
    BY <1>1, <1>2, <1>4

\* Every step keeps the invariant.
LEMMA NextKeeps ==
    ASSUME ReplicationInvariant, [Next]_vars
    PROVE  ReplicationInvariant'
<1>1. CASE UNCHANGED vars
    BY <1>1
       DEF vars, ReplicationInvariant, TypeOK, SenderTypeOK, ReceiverTypeOK,
           StreamTypeOK, ContextsAreConsistent, SenderIsSound,
           ReceiverReachesWhatLives, WorldsArriveWhole, Shows, Settled, EntryOf,
           ActionsArriveInOrder, EveryActionFits, LastActionsAreShown,
           SettledIdsAreShown, IsFresh, Reaches
<1>2. CASE Next
    BY <1>2, ChangeValueKeeps, ReplicateWorldKeeps, ReplicateGameObjectKeeps,
       SendWorldKeeps, ReplicateCreateKeeps, ReplicateUpdateKeeps,
       ReplicateDestroyKeeps, ReceiveWorldKeeps, RecieveGameObjectKeeps,
       RemoveAbsentObjectsKeeps, ProcessReplicationActionKeeps
       DEF Next
<1>3. QED
    BY <1>1, <1>2

\* The stream and the two ends are at every step what ReplicationInvariant says.
THEOREM InvariantHolds == Spec => []ReplicationInvariant
<1>1. Init => ReplicationInvariant
    BY InitKeeps
<1>2. ReplicationInvariant /\ [Next]_vars => ReplicationInvariant'
    BY NextKeeps
<1>3. QED
    BY <1>1, <1>2, PTL DEF Spec

\* Every variable has its type.
THEOREM TypeCorrect == Spec => []TypeOK
<1>1. ReplicationInvariant => TypeOK
    BY InvariantImplies
<1>2. QED
    BY <1>1, InvariantHolds, PTL

\* The two maps of a LinkingContext stay inverse to each other at both ends,
\* through every way of linking and unlinking (LinkingContext.cpp:9-55).
THEOREM ContextsStayConsistent == Spec => []ContextsAreConsistent
<1>1. ReplicationInvariant => ContextsAreConsistent
    BY InvariantImplies
<1>2. QED
    BY <1>1, InvariantHolds, PTL

\* A receiver that has read the whole stream shows what was sent, and has
\* destroyed whatever else it made (ReplicationManager.cpp:41-61, 112-147).
THEOREM ReceiverShowsTheWorld == Spec => []QuietReceiverShowsTheWorld
<1>1. ReplicationInvariant => QuietReceiverShowsTheWorld
    BY InvariantImplies
<1>2. QED
    BY <1>1, InvariantHolds, PTL

\* No object that Destroy deleted can be reached through the context or the
\* sets of replicated objects (ReplicationManager.cpp:52-59, 133-137).
THEOREM DestroyedIsUnreachable == Spec => []NoDestroyedObjectIsReached
<1>1. ReplicationInvariant => NoDestroyedObjectIsReached
    BY InvariantImplies
<1>2. QED
    BY <1>1, InvariantHolds, PTL

\* AddGameObject never throws at a receiver (LinkingContext.cpp:31-42).
THEOREM NoCreateThrows == Spec => []NothingIsThrown
<1>1. ReplicationInvariant => NothingIsThrown
    BY InvariantImplies
<1>2. QED
    BY <1>1, InvariantHolds, PTL
=============================================================================
