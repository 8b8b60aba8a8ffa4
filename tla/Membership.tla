------------------------------ MODULE Membership ------------------------------
(***************************************************************************)
(* Members, invitations and sessions of one organization                   *)
(* (src/src/identity-service.ts, src/src/session.ts,                       *)
(* src/src/authorization.ts).  What its users are elsewhere is left out: a *)
(* session is active here or in another organization.                      *)
(*                                                                         *)
(* One action is one statement or one transaction; a request carries what  *)
(* it read.  The optimistic versions of rows are modelled by what they     *)
(* tell a request: whether its row was written since it was read.          *)
(***************************************************************************)
EXTENDS Naturals

CONSTANTS
  Users,        \* verified identities
  Invitations,  \* Invitation rows that may be created
  Sessions,     \* Session rows in use at a time
  Requests,     \* concurrent requests (bounds the model)
  Environment,  \* what may happen besides normal execution
  None          \* nobody, nothing

(* Conflicting requests overlap; an owner accepts an invitation; a request *)
(* dies between two steps; invitations and sessions run out.               *)
EnvironmentKinds == {"overlap", "ownerAccepts", "failure", "expiry"}

ASSUME MembershipAssumption ==
  /\ Environment \subseteq EnvironmentKinds
  /\ None \notin Users \union Invitations \union Sessions \union Requests

VARIABLES
  member,   \* Membership of each user: status and role
  invite,   \* Invitation: status, invited user, role and whether it ran out
  session,  \* Session: its user, whether it is live and active here
  req       \* local state of each request

vars == <<member, invite, session, req>>

Roles == {"OWNER", "ADMIN", "MEMBER"}
(* ADMIN has every permission but ownership.transfer; a member, like a     *)
(* viewer, has none of those that change members.                          *)
Permits(role, op) == role = "OWNER" \/ (role = "ADMIN" /\ op # "transfer")

OwnerOps == {"role", "remove", "transfer"}
Ops == OwnerOps \union {"invite", "uninvite", "login", "switch"}
Request(op, pc, user, role, target, grant, fresh) ==
  [op |-> op, pc |-> pc, user |-> user, role |-> role, target |-> target, grant |-> grant,
   fresh |-> fresh]
NoRequest == Request("none", "idle", None, "MEMBER", None, "MEMBER", FALSE)
NoSession == [user |-> None, live |-> FALSE, here |-> FALSE]

TypeOK ==
  /\ member \in [Users -> [status: {"NONE", "ACTIVE", "REMOVED"}, role: Roles]]
  /\ invite \in [Invitations -> [status: {"NONE", "PENDING", "ACCEPTED", "REVOKED"},
                                 user: Users \union {None}, role: Roles \ {"OWNER"},
                                 expired: BOOLEAN]]
  /\ session \in [Sessions -> [user: Users \union {None}, live: BOOLEAN, here: BOOLEAN]]
  /\ req \in [Requests -> [op: Ops \union {"none"}, pc: {"idle", "authorized", "checked"},
                           user: Users \union {None}, role: Roles,
                           target: Users \union Invitations \union Sessions \union {None},
                           grant: Roles, fresh: BOOLEAN]]
  /\ \A s \in Sessions : session[s].live => session[s].user \in Users
  /\ \A r \in Requests :
       /\ req[r].op = "none" <=> req[r].pc = "idle"
       /\ req[r].op \in OwnerOps \union {"invite", "login"} => req[r].target \in Users
       /\ req[r].op \in OwnerOps => req[r].user \in Users
       /\ req[r].op = "invite" => req[r].grant # "OWNER"
       /\ req[r].op = "uninvite" => req[r].target \in Invitations
       /\ req[r].op = "switch" => req[r].target \in Sessions

Init ==
  /\ member = [u \in Users |-> [status |-> "NONE", role |-> "MEMBER"]]
  /\ invite = [v \in Invitations |-> [status |-> "NONE", user |-> None, role |-> "MEMBER",
                                      expired |-> FALSE]]
  /\ session = [s \in Sessions |-> NoSession]
  /\ req = [r \in Requests |-> NoRequest]

-----------------------------------------------------------------------------
(* Helpers.                                                                *)

IsMember(u) == member[u].status = "ACTIVE"
IsOwner(u) == member[u] = [status |-> "ACTIVE", role |-> "OWNER"]
Founded == \E u \in Users : member[u].status # "NONE"
Works(r, op, pc) == req[r].op = op /\ req[r].pc = pc

(* Requests whose row is written lose their claim to it; r ends.           *)
Touched(q, ops, targets) == req[q].op \in ops /\ req[q].target \in targets
With(q, pc, fresh) ==
  Request(req[q].op, pc, req[q].user, req[q].role, req[q].target, req[q].grant, fresh)
AfterWrite(r, ops, targets) ==
  req' = [q \in Requests |-> IF q = r THEN NoRequest
                             ELSE IF Touched(q, ops, targets) THEN With(q, req[q].pc, FALSE)
                             ELSE req[q]]
End(r) == req' = [req EXCEPT ![r] = NoRequest]

SetMember(u, status, role) == member' = [member EXCEPT ![u] = [status |-> status, role |-> role]]
SetInvite(v, status, expired) ==
  invite' = [invite EXCEPT ![v] = [status |-> status, user |-> invite[v].user,
                                   role |-> invite[v].role, expired |-> expired]]
SetSession(s, user, here) ==
  session' = [session EXCEPT ![s] = [user |-> user, live |-> TRUE, here |-> here]]

(* Two requests that the code does not protect from each other.            *)
Conflict(op, other) ==
  \/ op \in OwnerOps /\ other \in OwnerOps
  \/ op = "invite" /\ other = "invite"
  \/ {op, other} = {"remove", "login"}
Alone(r, op) ==
  "overlap" \in Environment \/ \A q \in Requests \ {r} : ~Conflict(op, req[q].op)

-----------------------------------------------------------------------------
(* Signing in, and the organization's beginning.                           *)

(* login reads the memberships: the organization of the oldest active one, *)
(* this one or another, becomes the session's.                             *)
LoginRead(r, u) ==
  /\ req[r] = NoRequest
  /\ Alone(r, "login")
  /\ \E here \in BOOLEAN :
       /\ here => IsMember(u)
       /\ req' = [req EXCEPT ![r] =
                    Request("login", "checked", None, "MEMBER", u, "MEMBER", here)]
  /\ UNCHANGED <<member, invite, session>>

CreateSession(r) ==
  /\ Works(r, "login", "checked")
  /\ \E s \in Sessions :
       /\ ~session[s].live
       /\ SetSession(s, req[r].target, req[r].fresh)
  /\ End(r)
  /\ UNCHANGED <<member, invite>>

(* createOrganization and the provisioning of a personal one.              *)
CreateOrganization(s) ==
  /\ session[s].live
  /\ ~Founded
  /\ SetMember(session[s].user, "ACTIVE", "OWNER")
  /\ UNCHANGED <<invite, session, req>>

\* Mistake: the session is only taken from its user.
RevokeUserOnly(s) == session' = [session EXCEPT ![s].user = None]
(* revoke writes the row, so a switch of this session has lost its version.*)
Revoke(s) == session' = [session EXCEPT ![s] = NoSession]

Logout(s) ==
  /\ session[s].live
  /\ Revoke(s)
  /\ AfterWrite(None, {"switch"}, {s})
  /\ UNCHANGED <<member, invite>>

SessionExpires(s) == "expiry" \in Environment /\ Logout(s)

-----------------------------------------------------------------------------
(* switchOrganization: authorize, then setActiveOrganization.              *)

SwitchRead(r, s) ==
  /\ req[r] = NoRequest
  /\ session[s].live
  /\ IsMember(session[s].user)
  /\ req' = [req EXCEPT ![r] =
               Request("switch", "checked", None, "MEMBER", s, "MEMBER", TRUE)]
  /\ UNCHANGED <<member, invite, session>>

Current(r) == req[r].fresh /\ session[req[r].target].live

SwitchOrganization(r) ==
  /\ Works(r, "switch", "checked")
  /\ LET s == req[r].target IN
     IF Current(r)
     THEN /\ SetSession(s, session[s].user, TRUE)
          /\ AfterWrite(r, {"switch"}, {s})
     ELSE End(r) /\ UNCHANGED session
  /\ UNCHANGED <<member, invite>>

(* The same towards another organization.                                  *)
SwitchElsewhere(s) ==
  /\ session[s].live
  /\ SetSession(s, session[s].user, FALSE)
  /\ AfterWrite(None, {"switch"}, {s})
  /\ UNCHANGED <<member, invite>>

-----------------------------------------------------------------------------
(* Requests that change members and invitations.                           *)

(* authorizeOrganization: the role of this moment is what the request will *)
(* act with.  The client names the version it saw of the member it aims at.*)
Authorize(r, s, op, target, grant) ==
  /\ req[r] = NoRequest
  /\ Alone(r, op)
  /\ session[s].live
  /\ LET u == session[s].user IN
     /\ IsMember(u) /\ Permits(member[u].role, op)
     /\ req' = [req EXCEPT ![r] =
                  Request(op, "authorized", u, member[u].role, target, grant, TRUE)]
  /\ UNCHANGED <<member, invite, session>>

\* Mistake: an owner is demoted or removed without a look at the others.
NeverProtected(u) == TRUE
(* assertNotLastOwner: more than one active owner.                         *)
NotLastOwner(u) == \E w \in Users \ {u} : IsOwner(w)

Protected(r) ==
  LET u == req[r].target IN
  /\ member[u].role = "OWNER"
  /\ req[r].op = "remove" \/ (req[r].op = "role" /\ req[r].grant # "OWNER")
  /\ ~NotLastOwner(u)

(* What each operation reads and refuses before it writes.                 *)
Acceptable(r) ==
  LET u == req[r].target IN
  CASE req[r].op = "role"     -> /\ member[u].status # "NONE" /\ ~Protected(r)
                                 /\ u = req[r].user => req[r].grant = req[r].role
    [] req[r].op = "remove"   -> member[u].status # "NONE" /\ ~Protected(r)
    [] req[r].op = "transfer" -> /\ IsMember(u) /\ u # req[r].user
                                 /\ member[req[r].user].role = "OWNER"
    [] req[r].op = "invite"   -> \A v \in Invitations : ~(/\ invite[v].status = "PENDING"
                                                          /\ invite[v].user = u
                                                          /\ ~invite[v].expired)
    [] OTHER                  -> invite[u].status = "PENDING"

Check(r) ==
  /\ req[r].pc = "authorized"
  /\ IF Acceptable(r) THEN req' = [req EXCEPT ![r] = With(r, "checked", req[r].fresh)]
     ELSE End(r)
  /\ UNCHANGED <<member, invite, session>>

(* The conditional update found no row.                                    *)
Refused(r) == End(r) /\ UNCHANGED <<member, invite, session>>

Unchanged(r) == req[r].fresh /\ IsMember(req[r].target)

ChangeRole(r) ==
  /\ Works(r, "role", "checked")
  /\ LET u == req[r].target IN
     IF Unchanged(r)
     THEN /\ SetMember(u, "ACTIVE", req[r].grant)
          /\ AfterWrite(r, OwnerOps, {u})
          /\ UNCHANGED <<invite, session>>
     ELSE Refused(r)

\* Mistake: sessions are left to the check of the membership.
RevokeNoSession(u) == session' = session
RevokeAllSessions(u) ==
  session' = [s \in Sessions |-> IF session[s].user = u THEN NoSession ELSE session[s]]

RemoveMembership(r) ==
  /\ Works(r, "remove", "checked")
  /\ LET u == req[r].target IN
     IF Unchanged(r)
     THEN /\ SetMember(u, "REMOVED", member[u].role)
          /\ RevokeAllSessions(u)
          /\ AfterWrite(r, OwnerOps \union {"switch"},
                        {u} \union {s \in Sessions : session[s].user = u})
          /\ UNCHANGED invite
     ELSE Refused(r)

TransferHolds(r) == Unchanged(r) /\ IsOwner(req[r].user)

TransferOwnership(r) ==
  /\ Works(r, "transfer", "checked")
  /\ LET u == req[r].target
         w == req[r].user IN
     IF TransferHolds(r)
     THEN /\ member' = [member EXCEPT ![u] = [status |-> "ACTIVE", role |-> "OWNER"],
                                     ![w] = [status |-> "ACTIVE", role |-> "ADMIN"]]
          /\ AfterWrite(r, OwnerOps, {u, w})
          /\ UNCHANGED <<invite, session>>
     ELSE Refused(r)

(* Invitations bounds how many are made.                                   *)
CreateInvitation(r) ==
  /\ Works(r, "invite", "checked")
  /\ \/ \E v \in Invitations :
          /\ invite[v].status = "NONE"
          /\ invite' = [invite EXCEPT ![v] = [status |-> "PENDING", user |-> req[r].target,
                                              role |-> req[r].grant, expired |-> FALSE]]
     \/ /\ \A v \in Invitations : invite[v].status # "NONE"
        /\ UNCHANGED invite
  /\ End(r)
  /\ UNCHANGED <<member, session>>

RevokeInvitation(r) ==
  /\ Works(r, "uninvite", "checked")
  /\ LET v == req[r].target IN
     IF invite[v].status = "PENDING"
     THEN SetInvite(v, "REVOKED", invite[v].expired) ELSE UNCHANGED invite
  /\ End(r)
  /\ UNCHANGED <<member, session>>

\* Mistake: an invitation that was used or revoked is good once more.
StillInvites(v) == invite[v].status # "NONE" /\ ~invite[v].expired
Invites(v) == invite[v].status = "PENDING" /\ ~invite[v].expired

(* acceptInvitation is one serializable transaction.  Repeated by the user *)
(* who accepted it, it answers with the membership and writes nothing; an  *)
(* expired one is refused, and the EXPIRED it writes is rolled back.       *)
AcceptInvitation(v) ==
  /\ Invites(v)
  /\ LET u == invite[v].user IN
     /\ IsOwner(u) => "ownerAccepts" \in Environment
     /\ SetInvite(v, "ACCEPTED", FALSE)
     /\ SetMember(u, "ACTIVE", invite[v].role)
     /\ AfterWrite(None, OwnerOps, {u})
  /\ UNCHANGED session

InvitationExpires(v) ==
  /\ "expiry" \in Environment
  /\ invite[v].status = "PENDING" /\ ~invite[v].expired
  /\ SetInvite(v, "PENDING", TRUE)
  /\ UNCHANGED <<member, session, req>>

(* A statement fails, or the process dies: the request ends where it is.   *)
RequestDies(r) ==
  /\ "failure" \in Environment
  /\ req[r] # NoRequest
  /\ End(r)
  /\ UNCHANGED <<member, invite, session>>

AuthorizeAny(r, s) ==
  \/ \E op \in OwnerOps, u \in Users, role \in Roles :
       (op # "role" => role = "MEMBER") /\ Authorize(r, s, op, u, role)
  \/ \E u \in Users, role \in Roles \ {"OWNER"} : Authorize(r, s, "invite", u, role)
  \/ \E v \in Invitations : Authorize(r, s, "uninvite", v, "MEMBER")

Next ==
  \/ \E r \in Requests :
       \/ \E u \in Users : LoginRead(r, u)
       \/ \E s \in Sessions : SwitchRead(r, s) \/ AuthorizeAny(r, s)
       \/ CreateSession(r) \/ SwitchOrganization(r) \/ Check(r) \/ ChangeRole(r)
       \/ RemoveMembership(r) \/ TransferOwnership(r) \/ CreateInvitation(r)
       \/ RevokeInvitation(r) \/ RequestDies(r)
  \/ \E s \in Sessions : CreateOrganization(s) \/ Logout(s) \/ SessionExpires(s) \/ SwitchElsewhere(s)
  \/ \E v \in Invitations : AcceptInvitation(v) \/ InvitationExpires(v)

Spec == Init /\ [][Next]_vars

-----------------------------------------------------------------------------
(* Properties.                                                             *)

(* An organization always has an active owner, as long as requests that    *)
(* change roles do not overlap and no owner accepts an invitation          *)
(* (assertNotLastOwner counts before the write; acceptInvitation does not  *)
(* count).                                                                 *)
OwnerRemains == Founded => \E u \in Users : IsOwner(u)

(* A session that is active in the organization is a member's: a switch    *)
(* that was authorized before a removal does not take effect after it, as  *)
(* long as no login overlaps the removal (setActiveOrganization compares   *)
(* the session's version).                                                 *)
SessionsFollowMembership ==
  \A s \in Sessions : session[s].live /\ session[s].here => IsMember(session[s].user)

(* Each admission after the founding uses up an invitation of that very    *)
(* user: no token works twice, not even for somebody who was removed, and  *)
(* none after its revocation (acceptInvitation).                           *)
AdmissionUsesInvitation ==
  [][\A u \in Users : ~IsMember(u) /\ IsMember(u)' /\ Founded =>
       \E v \in Invitations : /\ invite[v].status = "PENDING" /\ ~invite[v].expired
                              /\ invite[v].user = u
                              /\ invite'[v].status = "ACCEPTED"]_<<member, invite>>
=============================================================================
