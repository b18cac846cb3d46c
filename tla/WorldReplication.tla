-------------------------- MODULE WorldReplication --------------------------
(***************************************************************************)
(* A sender that replicates game objects to a receiver over a reliable,    *)
(* ordered stream: examples/replication_socket.cpp, continued over several *)
(* messages.  Each side has a ReplicationManager and a LinkingContext.     *)
(*                                                                         *)
(* ReplicationManager offers two protocols, and sender.uses says which one *)
(* a connection uses: whole worlds (ReplicateWorld, ReceiveWorld), or      *)
(* single actions (ReplicateCreate, -Update, -Destroy and                  *)
(* ProcessReplicationAction).  They cannot share a receiver: only          *)
(* ReceiveWorld keeps mReplicatedObjects, and it would go on to destroy    *)
(* objects that a destroy action has deleted.                              *)
(*                                                                         *)
(* The state of an object is one value, which Serialize writes and         *)
(* Deserialize reads.  All objects are of registered classes.  The objects *)
(* the receiver makes are named by their order, and heap[n] is object n.   *)
(*                                                                         *)
(* shown is a history variable: the objects, by network id, that a         *)
(* receiver of everything sent so far should have, and their values.       *)
(***************************************************************************)
EXTENDS LinkingContext, Sequences, FiniteSets

CONSTANTS
    GameObjects,   \* the sender's objects
    Values,        \* the states an object can be in
    MaxMessages    \* bound: messages sent

ASSUME WorldAssumption == MaxMessages \in Nat /\ Values # {}

VARIABLES
    sender,     \* its context, its objects' values, the message being written
    receiver,   \* its context, mReplicatedObjects, the message being read
    heap,       \* the objects the receiver has made
    wire,       \* the messages in the stream
    shown

vars == <<sender, receiver, heap, wire, shown>>

Entry == [networkId : NetworkId, value : Values]

Message ==
    [action : {"world"}, objects : Seq(Entry)]
        \cup [action : {"RA_Create", "RA_Update"},
              networkId : NetworkId, value : Values]
        \cup [action : {"RA_Destroy"}, networkId : NetworkId]

Init ==
    /\ \E protocol \in {"world", "actions"}, v \in [GameObjects -> Values] :
           sender = [uses    |-> protocol,
                     context |-> EmptyContext,
                     value   |-> v,
                     phase   |-> "idle",
                     toWrite |-> {},
                     objects |-> << >>,
                     sent    |-> 0]
    /\ receiver = [context            |-> EmptyContext,
                   mReplicatedObjects |-> {},
                   phase              |-> "idle",
                   toRead             |-> << >>,
                   receivedObjects    |-> {}]
    /\ heap = << >>
    /\ wire = << >>
    /\ shown = << >>

----------------------------------------------------------------------------
\* The sender.

MayWrite(protocol) ==
    /\ sender.uses = protocol
    /\ sender.phase = "idle"
    /\ sender.sent < MaxMessages

\* SetHealth, SetName, ...
ChangeValue(obj) ==
    /\ sender.phase = "idle"
    /\ \E v \in Values : sender' = [sender EXCEPT !.value[obj] = v]
    /\ UNCHANGED <<receiver, heap, wire, shown>>

\* ReplicateWorld is called with a vector of distinct objects.
ReplicateWorld ==
    /\ MayWrite("world")
    /\ \E world \in SUBSET GameObjects :
           sender' = [sender EXCEPT !.phase = "writing", !.toWrite = world,
                                    !.objects = << >>]
    /\ UNCHANGED <<receiver, heap, wire, shown>>

\* One turn of its loop; the order of the vector is arbitrary.
ReplicateGameObject(obj) ==
    LET context == WithId(sender.context, obj)
        entry == [networkId |-> GetId(context, obj), value |-> sender.value[obj]]
    IN  /\ sender.phase = "writing"
        /\ obj \in sender.toWrite
        /\ sender' = [sender EXCEPT !.context = context,
                                    !.toWrite = @ \ {obj},
                                    !.objects = Append(@, entry)]
        /\ UNCHANGED <<receiver, heap, wire, shown>>

\* The stream is complete and is sent.
SendWorld ==
    LET entries == Range(sender.objects)
    IN  /\ sender.phase = "writing"
        /\ sender.toWrite = {}
        /\ sender' = [sender EXCEPT !.phase = "idle", !.sent = @ + 1]
        /\ wire' = Append(wire, [action |-> "world", objects |-> sender.objects])
        /\ shown' = [id \in {e.networkId : e \in entries} |->
                        (CHOOSE e \in entries : e.networkId = id).value]
        /\ UNCHANGED <<receiver, heap>>

\* The object gets its id first, as AddWorldObject gives it.
ReplicateCreate(obj) ==
    LET context == WithId(sender.context, obj)
        id == GetId(context, obj)
    IN  /\ MayWrite("actions")
        /\ obj \notin LinkedObjects(sender.context)
        /\ sender' = [sender EXCEPT !.context = context, !.sent = @ + 1]
        /\ wire' = Append(wire, [action |-> "RA_Create", networkId |-> id,
                                 value |-> sender.value[obj]])
        /\ shown' = Put(shown, id, sender.value[obj])
        /\ UNCHANGED <<receiver, heap>>

ReplicateUpdate(obj) ==
    LET id == GetId(sender.context, obj)
    IN  /\ MayWrite("actions")
        /\ obj \in LinkedObjects(sender.context)
        /\ sender' = [sender EXCEPT !.sent = @ + 1]
        /\ wire' = Append(wire, [action |-> "RA_Update", networkId |-> id,
                                 value |-> sender.value[obj]])
        /\ shown' = Put(shown, id, sender.value[obj])
        /\ UNCHANGED <<receiver, heap>>

\* Mutant: the caller forgets to remove the object.
ReplicateDestroy_StillLinked(obj) ==
    LET id == GetId(sender.context, obj)
    IN  /\ MayWrite("actions")
        /\ obj \in LinkedObjects(sender.context)
        /\ sender' = [sender EXCEPT !.sent = @ + 1]
        /\ wire' = Append(wire, [action |-> "RA_Destroy", networkId |-> id])
        /\ shown' = Erase(shown, id)
        /\ UNCHANGED <<receiver, heap>>

\* Removing the object is left to the caller, who does it now.  The object
\* may be linked again, as another one at the same address.
ReplicateDestroy(obj) ==
    LET id == GetId(sender.context, obj)
    IN  /\ MayWrite("actions")
        /\ obj \in LinkedObjects(sender.context)
        /\ sender' = [sender EXCEPT !.context = RemoveGameObject(@, obj),
                                    !.sent = @ + 1]
        /\ wire' = Append(wire, [action |-> "RA_Destroy", networkId |-> id])
        /\ shown' = Erase(shown, id)
        /\ UNCHANGED <<receiver, heap>>

----------------------------------------------------------------------------
\* The receiver.

\* CreateGameObject, Deserialize, AddGameObject: r is the receiver so far.  An
\* exception leaves the new object unlinked, and ends the program.
MakeObject(r, id, value) ==
    LET obj == Len(heap) + 1
    IN  /\ heap' = Append(heap, [value |-> value, destroyed |-> FALSE])
        /\ receiver' = IF AddThrows(r.context, id, obj)
                       THEN [r EXCEPT !.phase = "thrown"]
                       ELSE [r EXCEPT !.context = Link(@, id, obj)]

Deserialize(obj, value) == heap' = [heap EXCEPT ![obj].value = value]

ReceiveWorld ==
    /\ receiver.phase = "idle"
    /\ wire # << >> /\ Head(wire).action = "world"
    /\ wire' = Tail(wire)
    /\ receiver' = [receiver EXCEPT !.phase = "reading",
                                    !.toRead = Head(wire).objects,
                                    !.receivedObjects = {}]
    /\ UNCHANGED <<sender, heap, shown>>

\* One turn of the loop of ReceiveWorld.
RecieveGameObject ==
    LET e == Head(receiver.toRead)
        rest == [receiver EXCEPT !.toRead = Tail(@)]
        existing == GetGameObject(receiver.context, e.networkId)
    IN  /\ receiver.phase = "reading"
        /\ receiver.toRead # << >>
        /\ IF e.networkId \in LinkedIds(receiver.context)
           THEN /\ Deserialize(existing, e.value)
                /\ receiver' =
                       [rest EXCEPT !.receivedObjects = @ \cup {existing}]
           ELSE MakeObject([rest EXCEPT !.receivedObjects = @ \cup {Len(heap) + 1}],
                           e.networkId, e.value)
        /\ UNCHANGED <<sender, wire, shown>>

\* Unlinks a set of objects, whose order does not matter.
RemoveAll(context, objects) ==
    LET unlinked == objects \cap LinkedObjects(context)
        ids == {context.mGameObjectToIdMap[obj] : obj \in unlinked}
    IN  [context EXCEPT
            !.mGameObjectToIdMap = Restrict(@, DOMAIN @ \ unlinked),
            !.mIdToGameObjectMap = Restrict(@, DOMAIN @ \ ids)]

Destroyed(objects) ==
    [obj \in DOMAIN heap |->
        IF obj \in objects THEN [heap[obj] EXCEPT !.destroyed = TRUE] ELSE heap[obj]]

\* Mutants: the set of replicated objects is not replaced, or only grows.
RemoveAbsentObjects_NotReplaced ==
    LET absent == receiver.mReplicatedObjects \ receiver.receivedObjects
    IN  /\ receiver.phase = "reading"
        /\ receiver.toRead = << >>
        /\ receiver' = [receiver EXCEPT
               !.phase = "idle", !.receivedObjects = {},
               !.context = RemoveAll(@, absent)]
        /\ heap' = Destroyed(absent)
        /\ UNCHANGED <<sender, wire, shown>>
RemoveAbsentObjects_Merged ==
    LET absent == receiver.mReplicatedObjects \ receiver.receivedObjects
    IN  /\ receiver.phase = "reading"
        /\ receiver.toRead = << >>
        /\ receiver' = [receiver EXCEPT
               !.phase = "idle", !.receivedObjects = {},
               !.context = RemoveAll(@, absent),
               !.mReplicatedObjects = @ \cup receiver.receivedObjects]
        /\ heap' = Destroyed(absent)
        /\ UNCHANGED <<sender, wire, shown>>

\* The second loop of ReceiveWorld, and its last line.
RemoveAbsentObjects ==
    LET absent == receiver.mReplicatedObjects \ receiver.receivedObjects
    IN  /\ receiver.phase = "reading"
        /\ receiver.toRead = << >>
        /\ receiver' = [receiver EXCEPT
               !.phase = "idle", !.receivedObjects = {},
               !.context = RemoveAll(@, absent),
               !.mReplicatedObjects = receiver.receivedObjects]
        /\ heap' = Destroyed(absent)
        /\ UNCHANGED <<sender, wire, shown>>

\* An update or a destroy of an object that is not linked is only logged.
ProcessReplicationAction ==
    LET header == Head(wire)
        known == header.networkId \in LinkedIds(receiver.context)
        obj == GetGameObject(receiver.context, header.networkId)
    IN  /\ receiver.phase = "idle"
        /\ wire # << >> /\ header.action # "world"
        /\ wire' = Tail(wire)
        /\ \/ /\ header.action = "RA_Create"
              /\ MakeObject(receiver, header.networkId, header.value)
           \/ /\ header.action = "RA_Update" /\ known
              /\ Deserialize(obj, header.value)
              /\ UNCHANGED receiver
           \/ /\ header.action = "RA_Destroy" /\ known
              /\ receiver' = [receiver EXCEPT !.context = RemoveGameObject(@, obj)]
              /\ heap' = Destroyed({obj})
           \/ /\ header.action # "RA_Create" /\ ~known
              /\ UNCHANGED <<receiver, heap>>
        /\ UNCHANGED <<sender, shown>>

----------------------------------------------------------------------------
Next ==
    \/ \E obj \in GameObjects :
           \/ ChangeValue(obj) \/ ReplicateGameObject(obj)
           \/ ReplicateCreate(obj) \/ ReplicateUpdate(obj) \/ ReplicateDestroy(obj)
    \/ ReplicateWorld \/ SendWorld
    \/ ReceiveWorld \/ RecieveGameObject \/ RemoveAbsentObjects
    \/ ProcessReplicationAction

Spec == Init /\ [][Next]_vars

----------------------------------------------------------------------------
SenderTypeOK ==
    /\ DOMAIN sender = {"uses", "context", "value", "phase", "toWrite", "objects",
                        "sent"}
    /\ sender.uses \in {"world", "actions"}
    /\ ContextType(sender.context, GameObjects)
    /\ sender.value \in [GameObjects -> Values]
    /\ sender.phase \in {"idle", "writing"}
    /\ sender.toWrite \subseteq GameObjects
    /\ sender.objects \in Seq(Entry)
    /\ sender.sent \in 0 .. MaxMessages

ReceiverTypeOK ==
    /\ heap \in Seq([value : Values, destroyed : BOOLEAN])
    /\ DOMAIN receiver = {"context", "mReplicatedObjects", "phase", "toRead",
                          "receivedObjects"}
    /\ ContextType(receiver.context, DOMAIN heap)
    /\ receiver.mReplicatedObjects \subseteq DOMAIN heap
    /\ receiver.phase \in {"idle", "reading", "thrown"}
    /\ receiver.toRead \in Seq(Entry)
    /\ receiver.receivedObjects \subseteq DOMAIN heap

StreamTypeOK ==
    /\ wire \in Seq(Message)
    /\ DOMAIN shown \subseteq NetworkId
    /\ shown \in [DOMAIN shown -> Values]

TypeOK == SenderTypeOK /\ ReceiverTypeOK /\ StreamTypeOK

\* The two maps of either side's context stay inverse to each other, through
\* all ways in which objects are linked and unlinked (LinkingContext.cpp:9-55).
ContextsAreConsistent ==
    /\ MapsAreInverse(sender.context)
    /\ MapsAreInverse(receiver.context)

View == [id \in LinkedIds(receiver.context) |->
            heap[GetGameObject(receiver.context, id)].value]

\* A receiver that has read the whole stream has the objects it was sent, with
\* the values they were sent with, and no others, and every other object that
\* it made is destroyed (ReplicationManager.cpp:41-61 and 112-147).
QuietReceiverShowsTheWorld ==
    (wire = << >> /\ receiver.phase = "idle") =>
        /\ View = shown
        /\ \A obj \in DOMAIN heap :
               heap[obj].destroyed \/ obj \in LinkedObjects(receiver.context)

\* Destroy deletes the object: none that is destroyed can still be reached, to
\* be written to or destroyed again (GameObject.cpp:11,
\* ReplicationManager.cpp:52-59 and 133-137).
NoDestroyedObjectIsReached ==
    \A obj \in LinkedObjects(receiver.context)
                 \cup receiver.mReplicatedObjects \cup receiver.receivedObjects :
        ~heap[obj].destroyed

\* No create that a sender writes meets an id or an object that is linked, so
\* AddGameObject never throws (LinkingContext.cpp:31-42).
NothingIsThrown == receiver.phase # "thrown"

----------------------------------------------------------------------------
(***************************************************************************)
(* The inductive invariant.  Of whole worlds, only the last message counts *)
(* for what the receiver will show.  Of single actions, only the last one  *)
(* on each network id does; and an update never comes without its create.  *)
(***************************************************************************)
EntryOf(obj) == [networkId |-> receiver.context.mGameObjectToIdMap[obj],
                 value     |-> heap[obj].value]

Shows(entries) ==
    /\ DOMAIN shown = {e.networkId : e \in entries}
    /\ \A e \in entries : shown[e.networkId] = e.value

\* The objects of which the receiver will not read more.
Settled == IF receiver.phase = "reading" THEN receiver.receivedObjects
                                         ELSE LinkedObjects(receiver.context)

\* A message being written says what the objects are now.  The last message
\* shows, or once it is read, what is left of it together with what is settled.
WorldsArriveWhole ==
    /\ \A i \in DOMAIN wire : wire[i].action = "world"
    /\ sender.phase = "writing" => \A i \in DOMAIN sender.objects :
           LET e == sender.objects[i]
           IN  /\ e.networkId \in LinkedIds(sender.context)
               /\ e.value =
                      sender.value[GetGameObject(sender.context, e.networkId)]
    /\ LinkedObjects(receiver.context)
           = receiver.mReplicatedObjects \cup receiver.receivedObjects
    /\ IF wire # << >>
       THEN Shows(Range(wire[Len(wire)].objects))
       ELSE Shows(Range(receiver.toRead) \cup {EntryOf(obj) : obj \in Settled})

\* An action that is n-th in the stream will find its object.
Reaches(id, n) ==
    /\ \/ id \in LinkedIds(receiver.context)
       \/ \E j \in 1 .. n - 1 :
              wire[j].action = "RA_Create" /\ wire[j].networkId = id
    /\ \A j \in 1 .. n - 1 :
           wire[j].networkId = id => wire[j].action # "RA_Destroy"

\* A create that is n-th in the stream will find its id unused.
IsFresh(id, n) ==
    /\ id \notin LinkedIds(receiver.context)
    /\ \A j \in 1 .. n - 1 : wire[j].networkId # id

\* Creates are of new ids, and other actions find their objects: those in the
\* stream, and those that the sender could send next.
EveryActionFits ==
    /\ \A i \in DOMAIN wire :
           /\ wire[i].action # "world"
           /\ wire[i].networkId < sender.context.mNextId
           /\ IF wire[i].action = "RA_Create" THEN IsFresh(wire[i].networkId, i)
                                              ELSE Reaches(wire[i].networkId, i)
    /\ \A id \in LinkedIds(receiver.context) : id < sender.context.mNextId
    /\ \A id \in LinkedIds(sender.context) : Reaches(id, Len(wire) + 1)

\* The last action on an id says what is shown of it.
LastActionsAreShown ==
    \A i \in DOMAIN wire :
        (\A j \in i + 1 .. Len(wire) : wire[j].networkId # wire[i].networkId) =>
            IF wire[i].action = "RA_Destroy"
            THEN wire[i].networkId \notin DOMAIN shown
            ELSE /\ wire[i].networkId \in DOMAIN shown
                 /\ shown[wire[i].networkId] = wire[i].value

\* An id on which no action is left is shown as the receiver has it.
SettledIdsAreShown ==
    \A id \in DOMAIN shown \cup LinkedIds(receiver.context) :
        (\A i \in DOMAIN wire : wire[i].networkId # id) =>
            /\ id \in DOMAIN shown /\ id \in LinkedIds(receiver.context)
            /\ shown[id] = heap[GetGameObject(receiver.context, id)].value

ActionsArriveInOrder ==
    /\ sender.phase = "idle"
    /\ receiver.phase # "reading"
    /\ receiver.mReplicatedObjects = {}
    /\ EveryActionFits
    /\ LastActionsAreShown
    /\ SettledIdsAreShown

\* An object that was made is destroyed exactly when it is not linked any more.
ReceiverReachesWhatLives ==
    /\ receiver.phase # "thrown"
    /\ receiver.mReplicatedObjects \cup receiver.receivedObjects
           \subseteq LinkedObjects(receiver.context)
    /\ \A obj \in DOMAIN heap :
           heap[obj].destroyed <=> obj \notin LinkedObjects(receiver.context)
    /\ receiver.phase = "idle" =>
           receiver.toRead = << >> /\ receiver.receivedObjects = {}

\* The ids that are handed out were not handed out before.
SenderIsSound ==
    /\ \A id \in LinkedIds(sender.context) : id < sender.context.mNextId
    /\ sender.phase = "writing" => sender.sent < MaxMessages

\* What every step of the sender and of the receiver keeps true: the inductive
\* invariant of WorldReplicationProofs (ReplicationManager.cpp:20-147).
ReplicationInvariant ==
    /\ TypeOK
    /\ ContextsAreConsistent
    /\ SenderIsSound
    /\ ReceiverReachesWhatLives
    /\ sender.uses = "world" => WorldsArriveWhole
    /\ sender.uses = "actions" => ActionsArriveInOrder
=============================================================================
