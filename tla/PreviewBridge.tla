---------------------------- MODULE PreviewBridge ----------------------------
(***************************************************************************)
(* The bridge between a previewed page and the page that frames it         *)
(* (lib/preview-host-bridge.ts): the host's address bar and its Back       *)
(* button follow the history of the frame, which the page, the browser and *)
(* the host all change.  Messages arrive in order but late; a traversal    *)
(* and the event that tells of it come after the call that asked for it.   *)
(* The frame begins with a history of its own.                             *)
(***************************************************************************)
EXTENDS Integers, Sequences

CONSTANTS
  Paths,         \* locations of the app
  MaxEntries,    \* bound on the length of the history
  MaxMoves,      \* bound on what the page, the user and the host start
  MaxMail        \* bound on messages to the page that are under way

ASSUME BridgeAssumption == {MaxEntries, MaxMoves, MaxMail} \subseteq Nat

Unknown == "unknown"

VARIABLES
  entries,    \* the history: location, document and root tag of each entry
  here,       \* the entry that is shown
  bridged,    \* the document that is shown has installed the bridge
  travels,    \* traversals that the bridge has asked for
  pending,    \* popstate and hashchange events that have not fired
  toHost,     \* locations reported and not received
  toGuest,    \* messages of the host that the page has not received
  hostPath,   \* what the host shows
  moves

bridgeVars == <<entries, here, bridged, travels, pending, toHost, toGuest, hostPath, moves>>

Entry(p, d, tag) == [path |-> p, doc |-> d, tag |-> tag]
Current == entries[here]
LastDoc == CHOOSE d \in {entries[i].doc : i \in 1 .. Len(entries)} :
             \A i \in 1 .. Len(entries) : entries[i].doc <= d

BridgeInit ==
  /\ entries \in {<<Entry(p, 1, "none")>> : p \in Paths}
  /\ here = 1 /\ bridged = FALSE /\ travels = <<>> /\ pending = 0
  /\ toHost = <<>> /\ toGuest = <<>> /\ hostPath = Unknown /\ moves = 0

Move == moves < MaxMoves /\ moves' = moves + 1

reportLocation(p) == toHost' = Append(toHost, p)

\* Only the first install in a fresh history stack is root.
StampedTag == IF Len(entries) = 1 THEN "root" ELSE "inner"

installPreviewHostBridge ==
  /\ ~bridged /\ bridged' = TRUE
  /\ entries' = [entries EXCEPT ![here].tag = IF @ = "none" THEN StampedTag ELSE @]
  /\ reportLocation(Current.path)
  /\ UNCHANGED <<here, travels, pending, toGuest, hostPath, moves>>

\* An entry after the one that is shown; those that followed are gone.
Enter(entry) ==
  /\ here < MaxEntries
  /\ entries' = Append(SubSeq(entries, 1, here), entry)
  /\ here' = here + 1

pushedTag(tag) == "inner"

\* The patched pushState; the state is the router's own or, in defaultNavigate, a copy.
pushState(p, tag) ==
  /\ Enter(Entry(p, Current.doc, pushedTag(tag)))
  /\ reportLocation(p)

\* isAtHistoryRoot: the patched replaceState keeps the tag of the floor.
replacedTag(tag) == IF tag = "root" THEN "root" ELSE "none"

AppNavigates ==
  /\ bridged /\ Move
  /\ \E p \in Paths :
       \/ pushState(p, "none")
       \/ /\ entries' = [entries EXCEPT ![here] = Entry(p, @.doc, replacedTag(@.tag))]
          /\ reportLocation(p) /\ UNCHANGED here
  /\ UNCHANGED <<bridged, travels, pending, toGuest, hostPath>>

\* A link to a fragment: an entry without state, and a hashchange event.
HashNavigates ==
  /\ Move
  /\ \E p \in Paths : Enter(Entry(p, Current.doc, "none"))
  /\ pending' = pending + 1
  /\ UNCHANGED <<bridged, travels, toHost, toGuest, hostPath>>

\* A link or a reload that loads a document; what the old one had pending is lost.
DocumentLoads ==
  /\ Move
  /\ \/ \E p \in Paths : Enter(Entry(p, LastDoc + 1, "none"))
     \/ UNCHANGED <<entries, here>>
  /\ bridged' = FALSE /\ travels' = <<>> /\ pending' = 0
  /\ UNCHANGED <<toHost, toGuest, hostPath>>

\* The history is traversed, within a document or back to another.
Traverse(d) ==
  IF here + d \notin 1 .. Len(entries) THEN UNCHANGED <<here, bridged, pending>>
  ELSE /\ here' = here + d
       /\ IF entries[here + d].doc = Current.doc
          THEN pending' = pending + 1 /\ UNCHANGED bridged
          ELSE pending' = 0 /\ bridged' = FALSE

UserTraverses ==
  /\ Move /\ \E d \in {-1, 1} : Traverse(d)
  /\ UNCHANGED <<entries, travels, toHost, toGuest, hostPath>>

Go ==
  /\ travels # <<>> /\ travels' = Tail(travels)
  /\ Traverse(Head(travels))
  /\ UNCHANGED <<entries, toHost, toGuest, hostPath, moves>>

\* Mutant: only popstate is listened to.
OnlyPopState == toHost
\* onPopState, onHashChange; a document without the bridge does not listen.
Reported == IF bridged THEN Append(toHost, Current.path) ELSE toHost

Event ==
  /\ pending > 0 /\ pending' = pending - 1
  /\ toHost' = Reported
  /\ UNCHANGED <<entries, here, bridged, travels, toGuest, hostPath, moves>>
-----------------------------------------------------------------------------
(* The host, which is external, and what the page does with its messages. *)

HostAsks ==
  /\ Move /\ Len(toGuest) < MaxMail
  /\ \/ \E m \in [type : {"navigate"}, path : Paths] \cup [type : {"history"}, delta : {-1, 1}] :
          toGuest' = Append(toGuest, m) /\ UNCHANGED hostPath
     \/ /\ hostPath' = Unknown      \* it is mounted again
        /\ toGuest' = Append(toGuest, [type |-> "hello"])
  /\ UNCHANGED <<entries, here, bridged, travels, pending, toHost>>

HostReceives ==
  /\ toHost # <<>> /\ toHost' = Tail(toHost)
  /\ hostPath' = Head(toHost)
  /\ UNCHANGED <<entries, here, bridged, travels, pending, toGuest, moves>>

\* Without the bridge the message is lost: installing it announces.
onMessage ==
  LET m == Head(toGuest) IN
  /\ toGuest # <<>> /\ toGuest' = Tail(toGuest)
  /\ CASE ~bridged -> UNCHANGED <<entries, here, travels, toHost>>
       [] bridged /\ m.type = "hello" ->
            reportLocation(Current.path) /\ UNCHANGED <<entries, here, travels>>
       [] bridged /\ m.type = "navigate" ->
            /\ \E tag \in {"none", Current.tag} :
                 Enter(Entry(m.path, Current.doc, pushedTag(tag)))
            /\ toHost' = toHost \o <<m.path, m.path>>     \* once by pushState, once after
            /\ UNCHANGED travels
       [] bridged /\ m.type = "history" ->
            /\ travels' = IF m.delta = -1 /\ Current.tag = "root" THEN travels
                        ELSE Append(travels, m.delta)
            /\ UNCHANGED <<entries, here, toHost>>
  /\ UNCHANGED <<bridged, pending, hostPath, moves>>

BridgeNext ==
  \/ installPreviewHostBridge \/ AppNavigates \/ HashNavigates \/ DocumentLoads
  \/ UserTraverses \/ Go \/ Event \/ HostAsks \/ HostReceives \/ onMessage

BridgeSpec == BridgeInit /\ [][BridgeNext]_bridgeVars
-----------------------------------------------------------------------------
\* When nothing is under way the host shows where the page is, whoever moved it and
\* by whatever means, and although host and page may load again at any time.
HostFollows ==
  bridged /\ toHost = <<>> /\ toGuest = <<>> /\ travels = <<>> /\ pending = 0
    => hostPath = Current.path
=============================================================================
