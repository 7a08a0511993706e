------------------------------ MODULE Admission ------------------------------
(***************************************************************************)
(* Who may speak to a project: the gates an update passes in               *)
(* InterfaceAdapterService._process_inbound_event_claimed before it is     *)
(* handled (src/zero/app/interface_service.py), the first-contact          *)
(* bootstrap that links the owner and binds the chat, and the requests     *)
(* that change memberships, links and bindings meanwhile                   *)
(* (identity_service.py, authorization_service.py).                        *)
(*                                                                         *)
(* Handlers of different chats run at once and read and write through      *)
(* transactions of their own, so every read is a step apart from the write *)
(* it decides.                                                             *)
(***************************************************************************)
EXTENDS Integers, Sequences, FiniteSets

CONSTANTS
  Senders,       \* accounts on the messenger
  Users,         \* users of the program
  Owner,         \* the user who owns the project
  Rooms,         \* the chats that messages may come from
  Doors,         \* the threads that handle updates
  AccessModes,   \* the modes access.mode may be set to
  AllowUsers,    \* access.allow_users
  ListedRooms,   \* the enabled groups of access.groups
  Muted,         \* the groups whose allowed_features leave "chat" out
  MaxArrivals,   \* bound: updates handled
  MaxRequests    \* bound: requests of administrators

ASSUME AdmissionAssumption ==
  /\ Owner \in Users
  /\ AllowUsers \subseteq Senders
  /\ ListedRooms \subseteq Rooms /\ Muted \subseteq Rooms
  /\ MaxArrivals \in Nat /\ MaxRequests \in Nat

VARIABLES
  links,     \* external_identities by created_at: who an account speaks for
  rights,    \* project_memberships: the role of each user, or "none"
  binding,   \* interface_bindings: "none", "disabled" or "enabled"
  polled,    \* the polling-only binding of chat "0" holds a token
  access,    \* access.mode of the configuration file, or "off" without one
  bootstrap, \* auto_link_owner_project_id is set
  door,      \* each handler: its update, and whether the owner was linked when it came
  desk,      \* requests authorised and not yet carried out
  arrivals,  \* updates that came
  asked,     \* requests that were made
  voices     \* accounts the gate let through in owner_only mode

admissionVars ==
  <<links, rights, binding, polled, access, bootstrap, door, desk, arrivals, asked, voices>>

-----------------------------------------------------------------------------
Roles == {"owner", "member", "viewer"}

\* ROLE_PERMISSIONS, as far as these operations ask: who may do what.
Permits(op) ==
  CASE op \in {"add", "remove"}    -> {"owner"}            \* member.manage
    [] op \in {"create", "switch"} -> {"owner", "member"}  \* agent.manage
    [] op = "view"                 -> Roles                \* project.view

Requests ==
  [op: {"add"}, user: Users, role: Roles] \cup
  [op: {"remove"}, user: Users] \cup
  [op: {"create", "switch"}, room: Rooms, on: BOOLEAN]

\* get_external_identity and require_verified_external_identity.
Linked(s) == \E i \in DOMAIN links : links[i].sender = s
BelongsTo(s, u) == \E i \in DOMAIN links : links[i].sender = s /\ links[i].user = u
Speaks(s, u) ==
  \E i \in DOMAIN links : links[i].sender = s /\ links[i].user = u /\ links[i].verified

\* list_external_identities_for_user(owner) holds a verified link.
OwnerLinked == \E i \in DOMAIN links : links[i].user = Owner /\ links[i].verified

\* A bootstrap that never ends.
FirstContactForEver == TRUE

\* The bootstrap is one-shot: it ends with the owner's first verified link.
FirstContact == ~OwnerLinked

\* A gate that takes any verified link of the owner for the owner's.
AnyOwnersVoice(s) == Speaks(s, Owner)

\* _owner_external: the earliest verified link of the owner.
OwnersVoice(s) ==
  \E i \in DOMAIN links :
    /\ links[i].sender = s /\ links[i].user = Owner /\ links[i].verified
    /\ \A j \in 1..(i - 1) : ~(links[j].user = Owner /\ links[j].verified)

\* decide and feature_gate.
Passes(s, c) ==
  \/ access = "off"
  \/ /\ c \notin Muted
     /\ \/ access = "public"
        \/ access \in {"owner_only", "users", "groups", "users_and_groups"} /\ OwnersVoice(s)
        \/ access \in {"users", "users_and_groups"} /\ s \in AllowUsers
        \/ access \in {"groups", "users_and_groups"} /\ c \in ListedRooms

Idle == [pc |-> "idle"]

Move(h, pc) == door' = [door EXCEPT ![h].pc = pc]
ToGate(h, u) == door' = [door EXCEPT ![h].pc = "gate", ![h].user = u]
Leave(h) == door' = [door EXCEPT ![h] = Idle]

-----------------------------------------------------------------------------
AdmissionInit ==
  /\ links = <<>>
  /\ rights = [u \in Users |-> IF u = Owner THEN "owner" ELSE "none"]
  /\ binding = [c \in Rooms |-> "none"]
  /\ polled \in BOOLEAN
  /\ access \in AccessModes
  /\ bootstrap = (access = "owner_only")
  /\ door = [h \in Doors |-> Idle]
  /\ desk = {}
  /\ arrivals = 0 /\ asked = 0
  /\ voices = {}

-----------------------------------------------------------------------------
(* The path of one update.                                                 *)

\* owned, what it found when it came, is only for the properties.
Knock(h, s, c) ==
  /\ door[h] = Idle
  /\ arrivals < MaxArrivals
  /\ arrivals' = arrivals + 1
  /\ door' = [door EXCEPT ![h] =
       [pc |-> "scope", sender |-> s, room |-> c, user |-> Owner, owned |-> OwnerLinked]]
  /\ UNCHANGED <<links, rights, binding, polled, access, bootstrap, desk, asked, voices>>

Reads == UNCHANGED <<links, rights, binding, polled, access, bootstrap, desk, arrivals, asked, voices>>

\* get_binding: a chat without a row may be bound at first contact.
FindScope(h) ==
  /\ door[h].pc = "scope"
  /\ \/ binding[door[h].room] = "enabled" /\ Move(h, "identity")
     \/ binding[door[h].room] = "none" /\ bootstrap /\ Move(h, "unbound")
     \/ binding[door[h].room] = "none" /\ ~bootstrap /\ Leave(h)
     \/ binding[door[h].room] = "disabled" /\ Leave(h)
  /\ Reads

\* _try_auto_create_binding up to its call of create_binding.
MayBind(h) ==
  /\ door[h].pc = "unbound"
  /\ IF polled /\ FirstContact THEN Move(h, "bind") ELSE Leave(h)
  /\ Reads

\* create_binding for the owner up to its insert: a row that is there is returned.
FindBinding(h) ==
  /\ door[h].pc = "bind"
  /\ \/ rights[Owner] \notin Permits("create") /\ Leave(h)
     \/ /\ rights[Owner] \in Permits("create")
        /\ Move(h, IF binding[door[h].room] = "none" THEN "insert" ELSE "rebound")
  /\ Reads

\* insert_binding; the unique index refuses a second row for a chat.
BindRoom(h) ==
  /\ door[h].pc = "insert"
  /\ IF binding[door[h].room] = "none"
       THEN binding' = [binding EXCEPT ![door[h].room] = "enabled"] /\ Move(h, "rebound")
       ELSE Leave(h) /\ UNCHANGED binding
  /\ UNCHANGED <<links, rights, polled, access, bootstrap, desk, arrivals, asked, voices>>

\* The binding is read again: it may be one that somebody disabled.
FindRoom(h) ==
  /\ door[h].pc = "rebound"
  /\ IF binding[door[h].room] = "enabled" THEN Move(h, "identity") ELSE Leave(h)
  /\ Reads

\* require_verified_external_identity.
FindIdentity(h) ==
  /\ door[h].pc = "identity"
  /\ \/ \E u \in Users : Speaks(door[h].sender, u) /\ ToGate(h, u)
     \/ (\A u \in Users : ~Speaks(door[h].sender, u)) /\ Move(h, "candidate")
  /\ Reads

\* verify_external_identity: verified_at is set once and never cleared.
Verified(s) == [i \in DOMAIN links |-> [links[i] EXCEPT !.verified = @ \/ links[i].sender = s]]

\* A sender who is linked and not verified proves the account by writing; one
\* who is not linked, or was verified meanwhile, goes on to the bootstrap.
VerifyCandidate(h) ==
  /\ door[h].pc = "candidate"
  /\ LET s == door[h].sender IN
     \/ /\ \A u \in Users : ~Speaks(s, u)
        /\ \E u \in Users : BelongsTo(s, u) /\ ToGate(h, u)
        /\ links' = Verified(s)
     \/ /\ Linked(s) => \E u \in Users : Speaks(s, u)
        /\ IF bootstrap THEN Move(h, "unlinked") ELSE Leave(h)
        /\ UNCHANGED links
  /\ UNCHANGED <<rights, binding, polled, access, bootstrap, desk, arrivals, asked, voices>>

\* _try_auto_link_owner up to its write: a row made meanwhile is verified and
\* taken; without one the owner's links decide.
MayLink(h) ==
  /\ door[h].pc = "unlinked"
  /\ LET s == door[h].sender IN
     \/ /\ \E u \in Users : BelongsTo(s, u) /\ ToGate(h, u)
        /\ links' = Verified(s)
     \/ /\ ~Linked(s)
        /\ IF FirstContact THEN Move(h, "link") ELSE Leave(h)
        /\ UNCHANGED links
  /\ UNCHANGED <<rights, binding, polled, access, bootstrap, desk, arrivals, asked, voices>>

\* insert_external_identity; UNIQUE(platform, external_id) refuses a second row.
LinkOwner(h) ==
  /\ door[h].pc = "link"
  /\ LET s == door[h].sender IN
     IF Linked(s) THEN Leave(h) /\ UNCHANGED links
     ELSE /\ links' = Append(links, [sender |-> s, user |-> Owner, verified |-> TRUE, auto |-> TRUE])
          /\ ToGate(h, Owner)
  /\ UNCHANGED <<rights, binding, polled, access, bootstrap, desk, arrivals, asked, voices>>

\* The policy gate reads the configuration anew for every update.
PassGate(h) ==
  /\ door[h].pc = "gate"
  /\ IF Passes(door[h].sender, door[h].room)
       THEN /\ Move(h, "member")
            /\ voices' = voices \cup IF access = "owner_only" THEN {door[h].sender} ELSE {}
       ELSE Leave(h) /\ UNCHANGED voices
  /\ UNCHANGED <<links, rights, binding, polled, access, bootstrap, desk, arrivals, asked>>

\* require_permission("project.view").
CheckMember(h) ==
  /\ door[h].pc = "member"
  /\ IF rights[door[h].user] \in Permits("view") THEN Move(h, "accepted") ELSE Leave(h)
  /\ Reads

\* The update goes on to _process_message, _process_callback or the log.
Handled(h) == door[h].pc = "accepted" /\ Leave(h) /\ Reads

-----------------------------------------------------------------------------
(* What administrators change meanwhile.                                   *)

\* Links of one's own account are made unverified.
LinkByHand(u, s) ==
  /\ asked < MaxRequests /\ asked' = asked + 1
  /\ ~Linked(s)
  /\ links' = Append(links, [sender |-> s, user |-> u, verified |-> FALSE, auto |-> FALSE])
  /\ UNCHANGED <<rights, binding, polled, access, bootstrap, door, desk, arrivals, voices>>

VerifyByHand(s) ==
  /\ asked < MaxRequests /\ asked' = asked + 1
  /\ Linked(s)
  /\ links' = Verified(s)
  /\ UNCHANGED <<rights, binding, polled, access, bootstrap, door, desk, arrivals, voices>>

\* require_permission, in a transaction of its own, and for a removal the
\* comparison with owner_user_id.
Ask(a, r) ==
  /\ asked < MaxRequests /\ asked' = asked + 1
  /\ rights[a] \in Permits(r.op)
  /\ r.op = "remove" => r.user # Owner
  /\ desk' = desk \cup {r}
  /\ UNCHANGED <<links, rights, binding, polled, access, bootstrap, door, arrivals, voices>>

\* insert_membership refuses a user who is a member; delete_membership finds
\* nothing to delete of one who is not.
NewRole(r, old) == IF r.op = "remove" THEN "none" ELSE IF old = "none" THEN r.role ELSE old

\* A chat's row is inserted once; update_binding_enabled switches one that is there.
NewState(r, old) ==
  IF (r.op = "create") = (old = "none") THEN IF r.on THEN "enabled" ELSE "disabled" ELSE old

\* add_member, remove_member, create_binding, enable_binding and
\* disable_binding after their check.
Carry(r) ==
  /\ r \in desk
  /\ desk' = desk \ {r}
  /\ \/ /\ r.op \in {"add", "remove"}
        /\ rights' = [rights EXCEPT ![r.user] = NewRole(r, @)]
        /\ UNCHANGED binding
     \/ /\ r.op \in {"create", "switch"}
        /\ binding' = [binding EXCEPT ![r.room] = NewState(r, @)]
        /\ UNCHANGED rights
  /\ UNCHANGED <<links, polled, access, bootstrap, door, arrivals, asked, voices>>

\* The operator edits access.mode; it is in force with the next update.
SetMode(m) ==
  /\ asked < MaxRequests /\ asked' = asked + 1
  /\ access' = m
  /\ UNCHANGED <<links, rights, binding, polled, bootstrap, door, desk, arrivals, voices>>

\* The service starts again: sync_management_config reads the mode.
Reboot ==
  /\ asked < MaxRequests /\ asked' = asked + 1
  /\ bootstrap' = (access = "owner_only")
  /\ door' = [h \in Doors |-> Idle]
  /\ desk' = {}
  /\ UNCHANGED <<links, rights, binding, polled, access, arrivals, voices>>

DoorStep(h) ==
  \/ \E s \in Senders, c \in Rooms : Knock(h, s, c)
  \/ FindScope(h) \/ MayBind(h) \/ FindBinding(h) \/ BindRoom(h) \/ FindRoom(h)
  \/ FindIdentity(h) \/ VerifyCandidate(h) \/ MayLink(h) \/ LinkOwner(h)
  \/ PassGate(h) \/ CheckMember(h) \/ Handled(h)

AdmissionNext ==
  \/ \E h \in Doors : DoorStep(h)
  \/ \E s \in Senders : VerifyByHand(s) \/ \E u \in Users : LinkByHand(u, s)
  \/ \E r \in Requests : Carry(r) \/ \E a \in Users : Ask(a, r)
  \/ \E m \in AccessModes : SetMode(m)
  \/ Reboot

-----------------------------------------------------------------------------
(* Properties.                                                             *)

\* An update goes in only as the user its account is linked to, verified; the
\* account is linked to no other.
Admitted ==
  /\ \A h \in Doors : door[h].pc \in {"gate", "member", "accepted"} =>
       Speaks(door[h].sender, door[h].user)
  /\ \A i, j \in DOMAIN links : links[i].sender = links[j].sender => i = j

\* First contact ends with the owner: an update that came when the owner was
\* linked neither binds its chat nor links its sender.
BootstrapEnds == \A h \in Doors : door[h].pc \in {"bind", "insert", "link"} => ~door[h].owned

\* In owner_only mode one account is heard and stays the one, however many
\* senders first contact linked at once, as long as nobody links the owner by
\* hand: the earliest verified link is never overtaken.
OneVoice ==
  (\A i \in DOMAIN links : links[i].user = Owner => links[i].auto) => Cardinality(voices) <= 1

\* Whatever is added and removed, the owner remains a member and the owner.
OwnerStays == rights[Owner] = "owner"

\* AdmissionSound: all of them.
AdmissionSound == Admitted /\ BootstrapEnds /\ OneVoice /\ OwnerStays
=============================================================================
