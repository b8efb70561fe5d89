---------------------------- MODULE AdbListeners ----------------------------
(***************************************************************************)
(* The adb host server's port-forwarding listeners (system/core/adb/adb.c).*)
(*                                                                         *)
(* listener_list is a doubly linked list of alisteners; each has a local  *)
(* name (the port it listens on), a connect_to string and the transport   *)
(* its connections go to.  A forward is tied to its device by an          *)
(* adisconnect node on that transport's disconnect list: when the device  *)
(* goes offline, handle_offline runs the list and every listener_disconnect*)
(* frees its listener.  The one listener without a transport is the       *)
(* *smartsocket* listener main() installs on tcp:5037.                    *)
(*                                                                         *)
(* A listener object is an element of Ids (its address); lis maps the     *)
(* live ones to their fields.  Names and remotes are model values:        *)
(* string comparison is equality, and "starts with '*'" is membership of  *)
(* SmartSocket, the only connect_to that does.                            *)
(***************************************************************************)
EXTENDS Integers, Sequences, SequencesExt, Functions, TLC

CONSTANTS
    Ids,          \* addresses an alistener can be calloc'd at
    LocalNames,   \* local port names a forward request may name
    Remotes,      \* connect_to strings not starting with '*'
    Transports,   \* atransport objects (devices)
    SmartName,    \* "tcp:5037"
    SmartSocket,  \* "*smartsocket*"
    NONE          \* a NULL transport

ASSUME SmartName \in LocalNames /\ SmartSocket \notin Remotes

Targets == Remotes \cup {SmartSocket}

VARIABLES
    lst,      \* listener_list, in list order, as a sequence of Ids
    lis,      \* the live alisteners: Id -> [name, to, tr]
    disc,     \* each transport's disconnect list, as a sequence of Ids
    online,   \* transports the server currently holds
    opened,   \* local sockets accepted by a listener and connected onward
    last      \* the last forward/killforward request and its reply

vars == <<lst, lis, disc, online, opened, last>>

Listener == [name : LocalNames, to : Targets, tr : Transports \cup {NONE}]
Replies == {"OKAY", "malformed", "no device", "cannot rebind smartsocket",
            "cannot bind socket", "cannot remove listener"}

(* The listener of the given name, 0 if there is none: the loop over     *)
(* listener_list in install_listener.                                     *)
findByName(local) == SelectInSeq(lst, LAMBDA id : lis[id].name = local)

(* remove_listener's match: name, connect_to, and a non-NULL equal        *)
(* transport.                                                             *)
findExact(local, remote, t) ==
    SelectInSeq(lst, LAMBDA id : /\ lis[id].name = local
                                 /\ lis[id].to = remote
                                 /\ lis[id].tr # NONE /\ lis[id].tr = t)

(* add_transport_disconnect appends the node to t's list;                 *)
(* remove_transport_disconnect unlinks it from whatever list holds it.   *)
addDisconnect(d, t, id) == [d EXCEPT ![t] = Append(@, id)]
removeDisconnect(d, id) == [u \in Transports |-> Remove(d[u], id)]

(* Mutant: free_listener that leaves the listener linked in            *)
(* listener_list (the unlink skipped, as when l->next is NULL).           *)
freeListenersNoUnlink(F) ==
    /\ UNCHANGED lst
    /\ lis' = Restrict(lis, DOMAIN lis \ F)
    /\ disc' = [u \in Transports |-> SelectSeq(disc[u], LAMBDA id : id \notin F)]

(* free_listener for every listener in F at once: unlink from            *)
(* listener_list, close the fd, drop the disconnect node, free.          *)
freeListeners(F) ==
    /\ lst' = SelectSeq(lst, LAMBDA id : id \notin F)
    /\ lis' = Restrict(lis, DOMAIN lis \ F)
    /\ disc' = [u \in Transports |-> SelectSeq(disc[u], LAMBDA id : id \notin F)]

(* Mutants: a rebind that does not move the disconnect node, or keeps   *)
(* the old transport; an install that forgets to register the new        *)
(* forward with its device, or does not refuse to repurpose a smartsocket.*)
rebindKeepDisconnect(i, remote, t) ==
    LET id == lst[i] IN
    /\ lis' = [lis EXCEPT ![id] = [@ EXCEPT !.to = remote, !.tr = t]]
    /\ UNCHANGED <<lst, disc>>

rebindKeepTransport(i, remote, t) ==
    LET id == lst[i] IN
    /\ lis' = [lis EXCEPT ![id].to = remote]
    /\ UNCHANGED <<lst, disc>>

installListenerNoDisconnect(local, remote, t, bindOk, r) ==
    LET i == findByName(local) IN
    IF i # 0
    THEN IF lis[lst[i]].to = SmartSocket
         THEN r = -1 /\ UNCHANGED <<lst, lis, disc>>
         ELSE /\ r = 0
              /\ lis' = [lis EXCEPT ![lst[i]] = [@ EXCEPT !.to = remote, !.tr = t]]
              /\ disc' = IF lis[lst[i]].tr # t
                         THEN addDisconnect(removeDisconnect(disc, lst[i]), t, lst[i])
                         ELSE disc
              /\ UNCHANGED lst
    ELSE IF ~bindOk
         THEN r = -2 /\ UNCHANGED <<lst, lis, disc>>
         ELSE \E id \in Ids \ DOMAIN lis :
                /\ r = 0
                /\ lst' = Append(lst, id)
                /\ lis' = lis @@ (id :> [name |-> local, to |-> remote, tr |-> t])
                /\ UNCHANGED disc

installListenerNoSmartCheck(local, remote, t, bindOk, r) ==
    LET i == findByName(local) IN
    IF i # 0
    THEN r = 0 /\ lis' = [lis EXCEPT ![lst[i]] = [@ EXCEPT !.to = remote, !.tr = t]]
               /\ disc' = addDisconnect(removeDisconnect(disc, lst[i]), t, lst[i])
               /\ UNCHANGED lst
    ELSE IF ~bindOk
         THEN r = -2 /\ UNCHANGED <<lst, lis, disc>>
         ELSE \E id \in Ids \ DOMAIN lis :
                /\ r = 0
                /\ lst' = Append(lst, id)
                /\ lis' = lis @@ (id :> [name |-> local, to |-> remote, tr |-> t])
                /\ disc' = addDisconnect(disc, t, id)

(* The rebind branch of install_listener: new connect_to, and the       *)
(* disconnect node moved when the transport changes.                     *)
rebind(i, remote, t) ==
    LET id == lst[i]
        l  == lis[id]
    IN  /\ lis' = [lis EXCEPT ![id] = [l EXCEPT !.to = remote, !.tr = t]]
        /\ disc' = IF l.tr # t
                   THEN addDisconnect(removeDisconnect(disc, id), t, id)
                   ELSE disc
        /\ UNCHANGED lst

(* install_listener(local, remote, t) with its return value r.  A name   *)
(* already in the list is rebound, unless it is the smartsocket; else a  *)
(* new listener is bound, local_name_to_fd failing when the port is      *)
(* taken by another program (bindOk FALSE).  For a new listener calloc/  *)
(* strdup failures are fatal() and end the server; the rebind's strdup   *)
(* failure returns -1 with nothing changed and is not modelled.          *)
installListener(local, remote, t, bindOk, r) ==
    LET i == findByName(local) IN
    IF i # 0
    THEN IF lis[lst[i]].to = SmartSocket
         THEN r = -1 /\ UNCHANGED <<lst, lis, disc>>
         ELSE r = 0 /\ rebind(i, remote, t)
    ELSE IF ~bindOk
         THEN r = -2 /\ UNCHANGED <<lst, lis, disc>>
         ELSE \E id \in Ids \ DOMAIN lis :
                /\ r = 0
                /\ lst' = Append(lst, id)
                /\ lis' = lis @@ (id :> [name |-> local, to |-> remote, tr |-> t])
                /\ disc' = IF t # NONE THEN addDisconnect(disc, t, id) ELSE disc

removeListener(local, remote, t, r) ==
    LET i == findExact(local, remote, t) IN
    IF i # 0 THEN r = 0 /\ freeListeners({lst[i]})
             ELSE r = -1 /\ UNCHANGED <<lst, lis, disc>>

-----------------------------------------------------------------------------
(* main(): the smartsocket listener on tcp:5037 is installed first; if   *)
(* that fails the server exits.  No device is connected yet.             *)
Init ==
    \E id \in Ids :
        /\ lst = <<id>>
        /\ lis = id :> [name |-> SmartName, to |-> SmartSocket, tr |-> NONE]
        /\ disc = [t \in Transports |-> <<>>]
        /\ online = [t \in Transports |-> FALSE]
        /\ opened = {}
        /\ last = [op |-> "none", local |-> SmartName, remote |-> SmartSocket,
                   tr |-> NONE, reply |-> "OKAY"]

(* handle_host_request, "forward:local;remote" and "killforward:..."     *)
(* from an adb client.  The remote must not be empty or start with '*'.  *)
(* acquire_one_transport picks the device the request names, and fails   *)
(* when there is none online.                                            *)
Forward(create, local, remote) ==
    LET req(r, t) == [op |-> IF create THEN "forward" ELSE "killforward",
                      local |-> local, remote |-> remote, tr |-> t, reply |-> r]
    IN
    /\ UNCHANGED <<online, opened>>
    /\ \/ /\ remote = SmartSocket
          /\ last' = req("malformed", NONE)
          /\ UNCHANGED <<lst, lis, disc>>
       \/ /\ remote # SmartSocket
          /\ \A t \in Transports : ~online[t]
          /\ last' = req("no device", NONE)
          /\ UNCHANGED <<lst, lis, disc>>
       \/ \E t \in Transports, bindOk \in BOOLEAN, r \in {0, -1, -2} :
          /\ remote # SmartSocket /\ online[t]
          /\ IF create THEN installListener(local, remote, t, bindOk, r)
                       ELSE bindOk /\ removeListener(local, remote, t, r)
          /\ last' = req(CASE r = 0 -> "OKAY"
                           [] ~create -> "cannot remove listener"
                           [] r = -1 -> "cannot rebind smartsocket"
                           [] OTHER -> "cannot bind socket", t)

(* listener_event_func / ss_listener_event_func: a client connects to a  *)
(* listener's port.  The new local socket goes to the smartsocket, or is *)
(* given l->transport and connected to l->connect_to on it.              *)
Accept(id) ==
    /\ opened' = opened \cup {[tr |-> lis[id].tr, to |-> lis[id].to]}
    /\ UNCHANGED <<lst, lis, disc, online, last>>

(* A device appears (register_transport): a new atransport with an empty *)
(* disconnect list.                                                      *)
Online(t) ==
    /\ ~online[t]
    /\ online' = [online EXCEPT ![t] = TRUE]
    /\ disc' = [disc EXCEPT ![t] = <<>>]
    /\ UNCHANGED <<lst, lis, opened, last>>

(* handle_offline -> run_transport_disconnects(t): every node on t's     *)
(* list calls listener_disconnect -> free_listener.  The transport's     *)
(* sockets are closed with it.                                           *)
Offline(t) ==
    /\ online[t]
    /\ online' = [online EXCEPT ![t] = FALSE]
    /\ freeListeners(ToSet(disc[t]))
    /\ opened' = {s \in opened : s.tr # t}
    /\ UNCHANGED last

Next ==
    \/ \E create \in BOOLEAN, local \in LocalNames, remote \in Targets :
          Forward(create, local, remote)
    \/ \E id \in DOMAIN lis : Accept(id)
    \/ \E t \in Transports : Online(t) \/ Offline(t)

Spec == Init /\ [][Next]_vars

-----------------------------------------------------------------------------
TypeOK ==
    /\ lst \in Seq(Ids) /\ ToSet(lst) = DOMAIN lis
    /\ lis \in [DOMAIN lis -> Listener]
    /\ disc \in [Transports -> Seq(Ids)]
    /\ online \in [Transports -> BOOLEAN]
    /\ opened \subseteq [tr : Transports \cup {NONE}, to : Targets]
    /\ last \in [op : {"none", "forward", "killforward"}, local : LocalNames,
                 remote : Targets, tr : Transports \cup {NONE}, reply : Replies]

(* Every forward is tied to its device exactly once: a listener with a   *)
(* transport has one disconnect node, on that transport's list, and every *)
(* node belongs to a live listener.  install_listener's rebind must move  *)
(* the node when the transport changes; a node left behind is freed with  *)
(* the wrong device or dangles after free_listener.                       *)
DisconnectsMatchListeners ==
    /\ \A id \in DOMAIN lis :
          \A u \in Transports :
             Len(SelectSeq(disc[u], LAMBDA x : x = id)) =
                IF lis[id].tr = u THEN 1 ELSE 0
    /\ \A u \in Transports : ToSet(disc[u]) \subseteq DOMAIN lis

(* A socket accepted by listener_event_func is handed l->transport; that  *)
(* transport must be one the server still holds.  A forward that outlives *)
(* its device (its disconnect was never registered, or was lost) passes a *)
(* freed atransport to connect_to_remote.                                 *)
StreamsOnLiveTransports ==
    \A s \in opened : s.tr = NONE \/ online[s.tr]

(* The *smartsocket* listener on tcp:5037 survives every forward and      *)
(* killforward request: it is never rebound, moved to a device or freed. *)
SmartsocketKept ==
    \E id \in DOMAIN lis :
        lis[id] = [name |-> SmartName, to |-> SmartSocket, tr |-> NONE]

(* A forward answered OKAYOKAY is in force when the reply is sent: the    *)
(* listener of that local name now connects to that remote on that       *)
(* device.                                                                *)
ForwardHonoured ==
    [][ (last'.op = "forward" /\ last'.reply = "OKAY" /\ last' # last) =>
          \E id \in DOMAIN lis' :
             lis'[id] = [name |-> last'.local, to |-> last'.remote, tr |-> last'.tr]
      ]_vars

=============================================================================
