--------------------------- MODULE MembershipProofs ---------------------------
(***************************************************************************)
(* What holds of an organization's members for any number of users,        *)
(* sessions, invitations and concurrent requests.                          *)
(***************************************************************************)
EXTENDS Membership, TLAPS

(* The parts of TypeOK.                                                    *)
MemberType == member \in [Users -> [status: {"NONE", "ACTIVE", "REMOVED"}, role: Roles]]
InviteType == invite \in [Invitations -> [status: {"NONE", "PENDING", "ACCEPTED", "REVOKED"},
                                          user: Users \union {None},
                                          role: Roles \ {"OWNER"}, expired: BOOLEAN]]
SessionType ==
  /\ session \in [Sessions -> [user: Users \union {None}, live: BOOLEAN, here: BOOLEAN]]
  /\ \A s \in Sessions : session[s].live => session[s].user \in Users
RequestRecord == [op: Ops \union {"none"}, pc: {"idle", "authorized", "checked"},
                  user: Users \union {None}, role: Roles,
                  target: Users \union Invitations \union Sessions \union {None},
                  grant: Roles, fresh: BOOLEAN]
WellFormed(q) == /\ q \in RequestRecord
                 /\ q.op = "none" <=> q.pc = "idle"
                 /\ q.op \in OwnerOps \union {"invite", "login"} => q.target \in Users
                 /\ q.op \in OwnerOps => q.user \in Users
                 /\ q.op = "invite" => q.grant # "OWNER"
                 /\ q.op = "uninvite" => q.target \in Invitations
                 /\ q.op = "switch" => q.target \in Sessions
RequestType == /\ req = [r \in Requests |-> req[r]]
               /\ \A r \in Requests : WellFormed(req[r])

LEMMA TypeParts == TypeOK <=> MemberType /\ InviteType /\ SessionType /\ RequestType
<1>1. req \in [Requests -> RequestRecord] <=>
        /\ req = [r \in Requests |-> req[r]]
        /\ \A r \in Requests : req[r] \in RequestRecord
  OBVIOUS
<1>2. QED
  BY <1>1 DEF TypeOK, MemberType, InviteType, SessionType, RequestType, WellFormed, RequestRecord

(* What may become of requests in a step: r's is q, the others' stay or    *)
(* lose their claim.                                                       *)
OthersKeep(r) ==
  \A p \in Requests : p # r => req'[p] = req[p] \/ req'[p] = With(p, req[p].pc, FALSE)

LEMMA NoRequestFits == WellFormed(NoRequest)
  BY DEF WellFormed, NoRequest, Request, RequestRecord, Ops, OwnerOps, Roles

LEMMA WithFits ==
  ASSUME NEW r \in Requests, WellFormed(req[r]), NEW pc \in {"authorized", "checked"},
         NEW b \in BOOLEAN, req[r].op # "none"
  PROVE  WellFormed(With(r, pc, b))
  BY DEF WellFormed, With, Request, RequestRecord

LEMMA EndFits ==
  ASSUME RequestType, NEW r \in Requests, End(r)
  PROVE  RequestType'
  BY NoRequestFits DEF RequestType, End

LEMMA AfterWriteFits ==
  ASSUME RequestType, NEW r, NEW ops, NEW targets, "none" \notin ops,
         AfterWrite(r, ops, targets)
  PROVE  RequestType'
<1>1. SUFFICES ASSUME NEW q \in Requests PROVE WellFormed(req'[q])
  BY DEF RequestType, AfterWrite
<1>2. req'[q] \in {NoRequest, With(q, req[q].pc, FALSE), req[q]}
      /\ (req'[q] = With(q, req[q].pc, FALSE) =>
            req[q].op # "none" \/ req'[q] \in {NoRequest, req[q]})
  BY DEF AfterWrite, Touched
<1>3. WellFormed(req[q])
  BY DEF RequestType
<1>4. req[q].op # "none" => req[q].pc \in {"authorized", "checked"}
  BY <1>3 DEF WellFormed, RequestRecord
<1>5. QED BY <1>2, <1>3, <1>4, NoRequestFits, WithFits

LEMMA PutFits ==
  ASSUME RequestType, NEW r \in Requests, NEW q, WellFormed(q), req' = [req EXCEPT ![r] = q]
  PROVE  RequestType'
  BY DEF RequestType

(* Rows that are written keep their types.                                 *)
LEMMA SetMemberFits ==
  ASSUME MemberType, NEW u \in Users, NEW status \in {"NONE", "ACTIVE", "REMOVED"},
         NEW role \in Roles, SetMember(u, status, role)
  PROVE  MemberType'
  BY DEF MemberType, SetMember

LEMMA SetInviteFits ==
  ASSUME InviteType, NEW v \in Invitations, NEW expired \in BOOLEAN,
         NEW status \in {"NONE", "PENDING", "ACCEPTED", "REVOKED"}, SetInvite(v, status, expired)
  PROVE  InviteType'
  BY DEF InviteType, SetInvite

LEMMA SetSessionFits ==
  ASSUME SessionType, NEW s \in Sessions, NEW u \in Users, NEW here \in BOOLEAN,
         SetSession(s, u, here)
  PROVE  SessionType'
  BY DEF SessionType, SetSession

(* Types are preserved: one step per action.                               *)
LEMMA TypeStep ==
  ASSUME TypeOK, Next
  PROVE  TypeOK'
<1>1. MemberType /\ InviteType /\ SessionType /\ RequestType
  BY TypeParts
<1>2. SUFFICES MemberType' /\ InviteType' /\ SessionType' /\ RequestType'
  BY TypeParts, PTL
<1> DEFINE Same == /\ UNCHANGED member => MemberType'
                   /\ UNCHANGED invite => InviteType'
                   /\ UNCHANGED session => SessionType'
<1>3. Same
  BY <1>1 DEF MemberType, InviteType, SessionType
<1> DEFINE Goal == MemberType' /\ InviteType' /\ SessionType' /\ RequestType'
<1> HIDE DEF Same
<1>4. \A r \in Requests : WellFormed(req[r])
  BY <1>1 DEF RequestType
<1>5. ASSUME NEW r \in Requests, NEW u \in Users, LoginRead(r, u) PROVE Goal
  <2>1. PICK here \in BOOLEAN :
          req' = [req EXCEPT ![r] = Request("login", "checked", None, "MEMBER", u, "MEMBER", here)]
    BY <1>5 DEF LoginRead
  <2>2. WellFormed(Request("login", "checked", None, "MEMBER", u, "MEMBER", here))
    BY DEF WellFormed, RequestRecord, Request, Ops, OwnerOps, Roles
  <2>3. RequestType'
    BY <1>1, <2>1, <2>2, PutFits
  <2>4. QED BY <1>3, <1>5, <2>3 DEF LoginRead, Same
<1>6. ASSUME NEW r \in Requests, CreateSession(r) PROVE Goal
  <2>1. req[r].target \in Users /\ req[r].fresh \in BOOLEAN
    BY <1>4, <1>6 DEF CreateSession, Works, WellFormed, RequestRecord
  <2>2. SessionType'
    BY <1>1, <1>6, <2>1, SetSessionFits DEF CreateSession
  <2>3. RequestType'
    BY <1>1, <1>6, EndFits DEF CreateSession
  <2>4. QED BY <1>3, <1>6, <2>2, <2>3 DEF CreateSession, Same
<1>7. ASSUME NEW s \in Sessions, CreateOrganization(s) PROVE Goal
  <2>1. session[s].user \in Users
    BY <1>1, <1>7 DEF CreateOrganization, SessionType
  <2>2. MemberType'
    BY <1>1, <1>7, <2>1, SetMemberFits DEF CreateOrganization, Roles
  <2>3. QED BY <1>1, <1>3, <1>7, <2>2 DEF CreateOrganization, Same, RequestType
<1>8. ASSUME NEW s \in Sessions, Logout(s) PROVE Goal
  <2>1. SessionType'
    BY <1>1, <1>8 DEF Logout, Revoke, SessionType, NoSession
  <2>2. RequestType'
    BY <1>1, <1>8, AfterWriteFits DEF Logout
  <2>3. QED BY <1>3, <1>8, <2>1, <2>2 DEF Logout, Same
<1>9. ASSUME NEW r \in Requests, NEW s \in Sessions, SwitchRead(r, s) PROVE Goal
  <2>1. WellFormed(Request("switch", "checked", None, "MEMBER", s, "MEMBER", TRUE))
    BY DEF WellFormed, RequestRecord, Request, Ops, OwnerOps, Roles
  <2>2. RequestType'
    BY <1>1, <1>9, <2>1, PutFits DEF SwitchRead
  <2>3. QED BY <1>3, <1>9, <2>2 DEF SwitchRead, Same
<1>10. ASSUME NEW r \in Requests, SwitchOrganization(r) PROVE Goal
  <2>1. req[r].target \in Sessions
    BY <1>4, <1>10 DEF SwitchOrganization, Works, WellFormed
  <2>2. CASE Current(r)
    <3>1. session[req[r].target].user \in Users
      BY <1>1, <2>1, <2>2 DEF Current, SessionType
    <3>2. SessionType'
      BY <1>1, <1>10, <2>1, <2>2, <3>1, SetSessionFits DEF SwitchOrganization
    <3>3. RequestType'
      BY <1>1, <1>10, <2>2, AfterWriteFits DEF SwitchOrganization
    <3>4. QED BY <1>3, <1>10, <3>2, <3>3 DEF SwitchOrganization, Same
  <2>3. CASE ~Current(r)
    <3>1. RequestType'
      BY <1>1, <1>10, <2>3, EndFits DEF SwitchOrganization
    <3>2. QED BY <1>3, <1>10, <2>3, <3>1 DEF SwitchOrganization, Same
  <2>4. QED BY <2>2, <2>3
<1>11. ASSUME NEW s \in Sessions, SwitchElsewhere(s) PROVE Goal
  <2>1. SessionType'
    BY <1>1, <1>11, SetSessionFits DEF SwitchElsewhere, SessionType
  <2>2. RequestType'
    BY <1>1, <1>11, AfterWriteFits DEF SwitchElsewhere
  <2>3. QED BY <1>3, <1>11, <2>1, <2>2 DEF SwitchElsewhere, Same
<1>12. ASSUME NEW r \in Requests, NEW s \in Sessions, AuthorizeAny(r, s) PROVE Goal
  <2>1. ASSUME NEW op \in Ops \ {"login", "switch"}, NEW target, NEW grant \in Roles,
               op \in OwnerOps \union {"invite"} => target \in Users,
               op = "uninvite" => target \in Invitations, op = "invite" => grant # "OWNER",
               Authorize(r, s, op, target, grant)
        PROVE  Goal
    <3>1. session[s].user \in Users /\ member[session[s].user].role \in Roles
      BY <1>1, <2>1 DEF Authorize, SessionType, MemberType
    <3>2. WellFormed(Request(op, "authorized", session[s].user, member[session[s].user].role,
                             target, grant, TRUE))
      BY <2>1, <3>1 DEF WellFormed, RequestRecord, Request, Ops, OwnerOps
    <3>3. RequestType'
      BY <1>1, <2>1, <3>2, PutFits DEF Authorize
    <3>4. QED BY <1>3, <2>1, <3>3 DEF Authorize, Same
  <2>2. QED BY <1>12, <2>1 DEF AuthorizeAny, Ops, OwnerOps, Roles
<1>13. ASSUME NEW r \in Requests, Check(r) PROVE Goal
  <2>1. req[r].op # "none" /\ req[r].fresh \in BOOLEAN
    BY <1>4, <1>13 DEF Check, WellFormed, RequestRecord
  <2>2. WellFormed(With(r, "checked", req[r].fresh))
    BY <1>4, <2>1, WithFits
  <2>3. RequestType'
    BY <1>1, <1>13, <2>2, PutFits, EndFits DEF Check
  <2>4. QED BY <1>3, <1>13, <2>3 DEF Check, Same
<1>14. ASSUME NEW r \in Requests, Refused(r) PROVE Goal
  BY <1>1, <1>3, <1>14, EndFits DEF Refused, Same
<1>15. ASSUME NEW r \in Requests, ChangeRole(r) PROVE Goal
  <2>1. req[r].target \in Users /\ req[r].grant \in Roles
    BY <1>4, <1>15 DEF ChangeRole, Works, WellFormed, RequestRecord, OwnerOps
  <2>2. CASE Unchanged(r)
    <3>1. MemberType'
      BY <1>1, <1>15, <2>1, <2>2, SetMemberFits DEF ChangeRole
    <3>2. RequestType'
      BY <1>1, <1>15, <2>2, AfterWriteFits DEF ChangeRole, OwnerOps
    <3>3. QED BY <1>3, <1>15, <2>2, <3>1, <3>2 DEF ChangeRole, Same
  <2>3. QED BY <1>14, <1>15, <2>2 DEF ChangeRole
<1>16. ASSUME NEW r \in Requests, RemoveMembership(r) PROVE Goal
  <2>1. req[r].target \in Users /\ member[req[r].target].role \in Roles
    BY <1>1, <1>4, <1>16 DEF RemoveMembership, Works, WellFormed, OwnerOps, MemberType
  <2>2. CASE Unchanged(r)
    <3>1. MemberType'
      BY <1>1, <1>16, <2>1, <2>2, SetMemberFits DEF RemoveMembership
    <3>2. RequestType'
      BY <1>1, <1>16, <2>2, AfterWriteFits DEF RemoveMembership, OwnerOps
    <3>3. SessionType'
      <4>1. RevokeAllSessions(req[r].target)
        BY <1>16, <2>2 DEF RemoveMembership
      <4>2. QED BY <1>1, <4>1 DEF RevokeAllSessions, SessionType, NoSession
    <3>4. QED BY <1>3, <1>16, <2>2, <3>1, <3>2, <3>3 DEF RemoveMembership, Same
  <2>3. QED BY <1>14, <1>16, <2>2 DEF RemoveMembership
<1>17. ASSUME NEW r \in Requests, TransferOwnership(r) PROVE Goal
  <2>1. CASE TransferHolds(r)
    <3>1. MemberType'
      BY <1>1, <1>17, <2>1 DEF TransferOwnership, MemberType, Roles
    <3>2. RequestType'
      BY <1>1, <1>17, <2>1, AfterWriteFits DEF TransferOwnership, OwnerOps
    <3>3. QED BY <1>3, <1>17, <2>1, <3>1, <3>2 DEF TransferOwnership, Same
  <2>2. QED BY <1>14, <1>17, <2>1 DEF TransferOwnership
<1>18. ASSUME NEW r \in Requests, CreateInvitation(r) PROVE Goal
  <2>1. req[r].target \in Users /\ req[r].grant \in Roles
    BY <1>4, <1>18 DEF CreateInvitation, Works, WellFormed, RequestRecord
  <2>2. RequestType'
    BY <1>1, <1>18, EndFits DEF CreateInvitation
  <2>3. InviteType'
    <3>1. req[r].grant \in Roles \ {"OWNER"}
      BY <1>4, <1>18, <2>1 DEF CreateInvitation, Works, WellFormed
    <3>2. CASE UNCHANGED invite
      BY <1>3, <3>2 DEF Same
    <3>3. ASSUME NEW v \in Invitations,
                 invite' = [invite EXCEPT ![v] = [status |-> "PENDING", user |-> req[r].target,
                                                  role |-> req[r].grant, expired |-> FALSE]]
          PROVE  InviteType'
      BY <1>1, <2>1, <3>1, <3>3 DEF InviteType
    <3>4. QED BY <1>18, <3>2, <3>3 DEF CreateInvitation
  <2>4. QED BY <1>3, <1>18, <2>2, <2>3 DEF CreateInvitation, Same
<1>19. ASSUME NEW r \in Requests, RevokeInvitation(r) PROVE Goal
  <2>1. req[r].target \in Invitations /\ invite[req[r].target].expired \in BOOLEAN
    BY <1>1, <1>4, <1>19 DEF RevokeInvitation, Works, WellFormed, InviteType
  <2>2. RequestType'
    BY <1>1, <1>19, EndFits DEF RevokeInvitation
  <2>3. InviteType'
    BY <1>1, <1>3, <1>19, <2>1, SetInviteFits DEF RevokeInvitation, Same
  <2>4. QED BY <1>3, <1>19, <2>2, <2>3 DEF RevokeInvitation, Same
<1>20. ASSUME NEW v \in Invitations, AcceptInvitation(v) PROVE Goal
  <2>1. InviteType'
    BY <1>1, <1>20, SetInviteFits DEF AcceptInvitation
  <2>2. MemberType'
    BY <1>1, <1>20 DEF AcceptInvitation, SetMember, InviteType, MemberType
  <2>3. RequestType'
    BY <1>1, <1>20, AfterWriteFits DEF AcceptInvitation, OwnerOps
  <2>4. QED BY <1>3, <1>20, <2>1, <2>2, <2>3 DEF AcceptInvitation, Same
<1>21. ASSUME NEW v \in Invitations, InvitationExpires(v) PROVE Goal
  <2>1. InviteType'
    BY <1>1, <1>21, SetInviteFits DEF InvitationExpires
  <2>2. QED BY <1>1, <1>3, <1>21, <2>1 DEF InvitationExpires, RequestType, Same
<1>22. ASSUME NEW r \in Requests, RequestDies(r) PROVE Goal
  BY <1>1, <1>3, <1>22, EndFits DEF RequestDies, Same
<1>23. QED
  BY <1>5, <1>6, <1>7, <1>8, <1>9, <1>10, <1>11, <1>12, <1>13, <1>15, <1>16, <1>17, <1>18,
     <1>19, <1>20, <1>21, <1>22
  DEF Next, SessionExpires

LEMMA InitTyped == Init => TypeOK
  BY DEF Init, TypeOK, NoSession, NoRequest, Request, Ops, OwnerOps, Roles

LEMMA TypeHolds == Spec => []TypeOK
<1>1. TypeOK /\ UNCHANGED vars => TypeOK'
  BY DEF TypeOK, vars
<1>2. TypeOK /\ [Next]_vars => TypeOK'
  BY <1>1, TypeStep
<1>3. QED BY InitTyped, <1>2, PTL DEF Spec

(* Members, invitations, sessions and requests keep their types in every   *)
(* environment (identity-service.ts and session.ts).                       *)
THEOREM TypeCorrect == Spec => []TypeOK
  BY TypeHolds

-----------------------------------------------------------------------------
(* Admissions.                                                             *)

(* The five operations that write a membership.                            *)
LEMMA MemberWriters ==
  ASSUME Next
  PROVE  \/ UNCHANGED member
         \/ \E s \in Sessions : CreateOrganization(s)
         \/ \E r \in Requests : ChangeRole(r) \/ RemoveMembership(r) \/ TransferOwnership(r)
         \/ \E v \in Invitations : AcceptInvitation(v)
<1>1. ASSUME NEW r \in Requests, NEW u \in Users, LoginRead(r, u) PROVE UNCHANGED member
  BY <1>1 DEF LoginRead
<1>2. ASSUME NEW r \in Requests, NEW s \in Sessions, SwitchRead(r, s) PROVE UNCHANGED member
  BY <1>2 DEF SwitchRead
<1>3. ASSUME NEW r \in Requests, NEW s \in Sessions, AuthorizeAny(r, s) PROVE UNCHANGED member
  BY <1>3 DEF AuthorizeAny, Authorize
<1>4. ASSUME NEW r \in Requests,
             \/ CreateSession(r) \/ SwitchOrganization(r) \/ Check(r)
             \/ CreateInvitation(r) \/ RevokeInvitation(r) \/ RequestDies(r)
      PROVE  UNCHANGED member
  BY <1>4
  DEF CreateSession, SwitchOrganization, Check, CreateInvitation, RevokeInvitation, RequestDies
<1>5. ASSUME NEW s \in Sessions, Logout(s) \/ SessionExpires(s) \/ SwitchElsewhere(s)
      PROVE  UNCHANGED member
  BY <1>5 DEF Logout, SessionExpires, SwitchElsewhere
<1>6. ASSUME NEW v \in Invitations, InvitationExpires(v) PROVE UNCHANGED member
  BY <1>6 DEF InvitationExpires
<1>7. QED BY <1>1, <1>2, <1>3, <1>4, <1>5, <1>6 DEF Next

(* Each admission after the founding uses up an invitation of that very    *)
(* user, in every environment: for all other operations the row they write *)
(* is an active member's (acceptInvitation).                               *)
THEOREM AdmissionUsesInvitationHolds == Spec => AdmissionUsesInvitation
<1> DEFINE Uses(u, v) == /\ invite[v].status = "PENDING" /\ ~invite[v].expired
                         /\ invite[v].user = u
                         /\ invite'[v].status = "ACCEPTED"
           Admits(u) == ~IsMember(u) /\ IsMember(u)' /\ Founded
           Goal == \A u \in Users : Admits(u) => \E v \in Invitations : Uses(u, v)
<1>1. ASSUME TypeOK, Next PROVE Goal
  <2>1. MemberType /\ InviteType /\ \A r \in Requests : WellFormed(req[r])
    BY <1>1, TypeParts DEF RequestType
  <2>2. ASSUME UNCHANGED member PROVE Goal
    BY <2>2 DEF IsMember
  <2>3. ASSUME NEW s \in Sessions, CreateOrganization(s) PROVE Goal
    BY <2>3 DEF CreateOrganization
  <2>4. ASSUME NEW r \in Requests, ChangeRole(r) PROVE Goal
    <3>1. CASE Unchanged(r)
      BY <2>1, <2>4, <3>1 DEF ChangeRole, Unchanged, SetMember, IsMember, MemberType
    <3>2. QED BY <2>2, <2>4, <3>1 DEF ChangeRole, Refused
  <2>5. ASSUME NEW r \in Requests, RemoveMembership(r) PROVE Goal
    <3>1. CASE Unchanged(r)
      BY <2>1, <2>5, <3>1 DEF RemoveMembership, SetMember, IsMember, MemberType
    <3>2. QED BY <2>2, <2>5, <3>1 DEF RemoveMembership, Refused
  <2>6. ASSUME NEW r \in Requests, TransferOwnership(r) PROVE Goal
    <3>1. CASE TransferHolds(r)
      BY <2>1, <2>6, <3>1
      DEF TransferOwnership, TransferHolds, Unchanged, IsMember, IsOwner, MemberType
    <3>2. QED BY <2>2, <2>6, <3>1 DEF TransferOwnership, Refused
  <2>7. ASSUME NEW v \in Invitations, AcceptInvitation(v) PROVE Goal
    <3>1. SUFFICES ASSUME NEW u \in Users, Admits(u) PROVE Uses(u, v)
      OBVIOUS
    <3>2. u = invite[v].user
      BY <2>1, <2>7, <3>1 DEF AcceptInvitation, SetMember, IsMember, MemberType
    <3>3. invite'[v].status = "ACCEPTED"
      BY <2>1, <2>7 DEF AcceptInvitation, SetInvite, InviteType
    <3>4. QED BY <2>7, <3>2, <3>3 DEF AcceptInvitation, Invites
  <2>8. QED BY <1>1, <2>2, <2>3, <2>4, <2>5, <2>6, <2>7, MemberWriters
<1>2. TypeOK /\ [Next]_vars => [Goal]_<<member, invite>>
  BY <1>1 DEF vars
<1>3. QED BY <1>2, TypeHolds, PTL DEF Spec, AdmissionUsesInvitation

-----------------------------------------------------------------------------
(* Requests that the code does not protect from each other.                *)

NoConflict == \A r, q \in Requests : r # q => ~Conflict(req[r].op, req[q].op)

(* The requests of the next state go on with what they are about, and none *)
(* regains the claim it lost.                                              *)
Continues(q) == /\ req'[q].op = req[q].op /\ req'[q].target = req[q].target
                /\ req'[q].user = req[q].user /\ req'[q].grant = req[q].grant
                /\ req'[q].fresh => req[q].fresh
Inherits(q) == req'[q].op = "none" \/ (Continues(q) /\ req'[q].pc = req[q].pc)

LEMMA EndInherits ==
  ASSUME NEW r \in Requests, RequestType, End(r)
  PROVE  /\ \A q \in Requests : Inherits(q)
         /\ req'[r].op = "none"
  BY DEF RequestType, End, Inherits, Continues, NoRequest, Request

LEMMA AfterWriteInherits ==
  ASSUME NEW r, NEW ops, NEW targets, RequestType, AfterWrite(r, ops, targets)
  PROVE  /\ \A q \in Requests : Inherits(q)
         /\ r \in Requests => req'[r].op = "none"
         /\ \A q \in Requests : Touched(q, ops, targets) => req'[q].op = "none" \/ ~req'[q].fresh
  BY DEF RequestType, AfterWrite, Inherits, Continues, NoRequest, Request, With

LEMMA WithInherits ==
  ASSUME NEW r \in Requests, RequestType, req' = [req EXCEPT ![r] = With(r, "checked", req[r].fresh)]
  PROVE  /\ \A q \in Requests : Continues(q)
         /\ \A q \in Requests : q # r => Inherits(q)
  BY DEF RequestType, Inherits, Continues, Request, With

LEMMA SameInherits ==
  ASSUME UNCHANGED req
  PROVE  \A q \in Requests : Inherits(q)
  BY DEF Inherits, Continues

LEMMA InitNoConflict == Init => NoConflict
<1>1. ~Conflict("none", "none")
  BY DEF Conflict, OwnerOps
<1>2. Init => \A r \in Requests : req[r].op = "none"
  BY DEF Init, NoRequest, Request
<1>3. QED BY <1>1, <1>2 DEF NoConflict

(* What a request that ends, or goes on, does to the other requests.       *)
LEMMA NoNewConflict ==
  ASSUME NoConflict, \A q \in Requests : Continues(q) \/ req'[q].op = "none"
  PROVE  NoConflict'
<1>1. ASSUME NEW op PROVE ~Conflict(op, "none") /\ ~Conflict("none", op)
  BY DEF Conflict, OwnerOps
<1>2. SUFFICES ASSUME NEW r \in Requests, NEW q \in Requests, r # q,
                      Conflict(req'[r].op, req'[q].op)
               PROVE  FALSE
  BY DEF NoConflict
<1>3. req'[r].op # "none" /\ req'[q].op # "none"
  BY <1>1, <1>2
<1>4. req'[r].op = req[r].op /\ req'[q].op = req[q].op
  BY <1>3 DEF Continues
<1>5. QED BY <1>2, <1>4 DEF NoConflict

(* A request starts, passes its check, or the step leaves every request    *)
(* with what it had.                                                       *)
LEMMA StepOfRequests ==
  ASSUME RequestType, Next
  PROVE  \/ \A q \in Requests : Inherits(q)
         \/ \E r \in Requests : Check(r)
         \/ \E r \in Requests, u \in Users : LoginRead(r, u)
         \/ \E r \in Requests, s \in Sessions : SwitchRead(r, s) \/ AuthorizeAny(r, s)
<1> DEFINE All == \A q \in Requests : Inherits(q)
<1>1. ASSUME NEW r \in Requests, CreateSession(r) \/ CreateInvitation(r) \/ RevokeInvitation(r)
                                 \/ RequestDies(r) \/ Refused(r)
      PROVE  All
  BY <1>1, EndInherits
  DEF CreateSession, CreateInvitation, RevokeInvitation, RequestDies, Refused
<1>2. ASSUME NEW r \in Requests, SwitchOrganization(r) PROVE All
  BY <1>2, EndInherits, AfterWriteInherits DEF SwitchOrganization
<1>3. ASSUME NEW r \in Requests, ChangeRole(r) PROVE All
  BY <1>1, <1>3, AfterWriteInherits DEF ChangeRole
<1>4. ASSUME NEW r \in Requests, RemoveMembership(r) PROVE All
  BY <1>1, <1>4, AfterWriteInherits DEF RemoveMembership
<1>5. ASSUME NEW r \in Requests, TransferOwnership(r) PROVE All
  BY <1>1, <1>5, AfterWriteInherits DEF TransferOwnership
<1>6. ASSUME NEW s \in Sessions, CreateOrganization(s) PROVE All
  BY <1>6, SameInherits DEF CreateOrganization
<1>7. ASSUME NEW s \in Sessions, Logout(s) \/ SessionExpires(s) \/ SwitchElsewhere(s) PROVE All
  BY <1>7, AfterWriteInherits DEF Logout, SessionExpires, SwitchElsewhere
<1>8. ASSUME NEW v \in Invitations, AcceptInvitation(v) PROVE All
  BY <1>8, AfterWriteInherits DEF AcceptInvitation
<1>9. ASSUME NEW v \in Invitations, InvitationExpires(v) PROVE All
  BY <1>9, SameInherits DEF InvitationExpires
<1>10. QED BY <1>1, <1>2, <1>3, <1>4, <1>5, <1>6, <1>7, <1>8, <1>9 DEF Next

(* A request that starts puts its record in its place.                     *)
LEMMA StartOfRequest ==
  ASSUME RequestType, NEW r \in Requests, NEW q, req' = [req EXCEPT ![r] = q]
  PROVE  req'[r] = q /\ \A p \in Requests : p # r => req'[p] = req[p]
  BY DEF RequestType

(* No request starts beside one that conflicts with it.                    *)
LEMMA NoConflictStep ==
  ASSUME TypeOK, NoConflict, Next, "overlap" \notin Environment
  PROVE  NoConflict'
<1>1. RequestType
  BY TypeParts
<1>2. ASSUME NEW r \in Requests, Alone(r, req'[r].op), req'[r].op \in Ops,
             \A p \in Requests : p # r => req'[p] = req[p]
      PROVE  NoConflict'
  <2>1. \A q \in Requests : q # r => ~Conflict(req'[r].op, req'[q].op)
    BY <1>2 DEF Alone
  <2>2. ASSUME NEW op \in Ops, NEW other, Conflict(other, op), ~Conflict(op, other) PROVE FALSE
    BY <2>2 DEF Conflict, OwnerOps
  <2>3. \A q \in Requests : q # r => ~Conflict(req'[q].op, req'[r].op)
    BY <1>2, <2>1, <2>2
  <2>4. QED BY <1>2, <2>1, <2>3 DEF NoConflict
<1>3. ASSUME NEW r \in Requests, Check(r) PROVE NoConflict'
  <2>1. \A q \in Requests : Continues(q) \/ req'[q].op = "none"
    BY <1>1, <1>3, WithInherits, EndInherits DEF Check, Inherits
  <2>2. QED BY <2>1, NoNewConflict
<1>4. ASSUME NEW r \in Requests, NEW u \in Users, LoginRead(r, u) PROVE NoConflict'
  <2>1. /\ req'[r].op = "login" /\ Alone(r, "login")
        /\ \A p \in Requests : p # r => req'[p] = req[p]
    <3>1. PICK here \in BOOLEAN :
            req' = [req EXCEPT ![r] = Request("login", "checked", None, "MEMBER", u, "MEMBER", here)]
      BY <1>4 DEF LoginRead
    <3>2. /\ req'[r] = Request("login", "checked", None, "MEMBER", u, "MEMBER", here)
          /\ \A p \in Requests : p # r => req'[p] = req[p]
      BY <1>1, <3>1, StartOfRequest
    <3>3. QED BY <1>4, <3>2 DEF LoginRead, Request
  <2>2. QED BY <1>2, <2>1 DEF Ops
<1>5. ASSUME NEW r \in Requests, NEW s \in Sessions, SwitchRead(r, s) PROVE NoConflict'
  <2>1. /\ req'[r].op = "switch"
        /\ \A p \in Requests : p # r => req'[p] = req[p]
    <3>1. /\ req'[r] = Request("switch", "checked", None, "MEMBER", s, "MEMBER", TRUE)
          /\ \A p \in Requests : p # r => req'[p] = req[p]
      BY <1>1, <1>5, StartOfRequest DEF SwitchRead
    <3>2. QED BY <3>1 DEF Request
  <2>2. \A op : ~Conflict("switch", op)
    BY DEF Conflict, OwnerOps
  <2>3. QED BY <1>2, <2>1, <2>2 DEF Ops, Alone
<1>6. ASSUME NEW r \in Requests, NEW s \in Sessions, AuthorizeAny(r, s) PROVE NoConflict'
  <2>1. ASSUME NEW op \in Ops, NEW target, NEW grant, Authorize(r, s, op, target, grant)
        PROVE  NoConflict'
    <3>1. /\ req'[r].op = op /\ Alone(r, op)
          /\ \A p \in Requests : p # r => req'[p] = req[p]
      <4>1. /\ req'[r] = Request(op, "authorized", session[s].user,
                                 member[session[s].user].role, target, grant, TRUE)
            /\ \A p \in Requests : p # r => req'[p] = req[p]
        BY <1>1, <2>1, StartOfRequest DEF Authorize
      <4>2. QED BY <2>1, <4>1 DEF Authorize, Request
    <3>2. QED BY <1>2, <3>1
  <2>2. QED BY <1>6, <2>1 DEF AuthorizeAny, Ops, OwnerOps
<1>7. ASSUME \A q \in Requests : Inherits(q) PROVE NoConflict'
  BY <1>7, NoNewConflict DEF Inherits
<1>8. QED BY <1>1, <1>3, <1>4, <1>5, <1>6, <1>7, StepOfRequests

-----------------------------------------------------------------------------
(* Sessions.  SessionInv strengthens SessionsFollowMembership: a switch    *)
(* that still has its version is about a live session of a member, and a   *)
(* login that chose this organization about a member.                      *)

SwitchesHold == \A r \in Requests : req[r].op = "switch" /\ req[r].fresh =>
                  session[req[r].target].live /\ IsMember(session[req[r].target].user)
LoginsHold == \A r \in Requests : req[r].op = "login" /\ req[r].fresh => IsMember(req[r].target)
SessionInv == NoConflict /\ SessionsFollowMembership /\ SwitchesHold /\ LoginsHold

MembersStay == \A u \in Users : IsMember(u) => IsMember(u)'

(* A step that removes nobody and touches no session keeps SessionInv.     *)
LEMMA QuietStep ==
  ASSUME TypeOK, SessionInv, NoConflict', MembersStay, UNCHANGED session,
         \A q \in Requests : Continues(q) \/ req'[q].op = "none" \/ ~req'[q].fresh
                               \/ req'[q].op \notin {"login", "switch"}
  PROVE  SessionInv'
<1>1. /\ \A s \in Sessions : session[s].live => session[s].user \in Users
      /\ \A r \in Requests : req[r].op = "login" => req[r].target \in Users
      /\ \A r \in Requests : req[r].op = "switch" => req[r].target \in Sessions
  BY DEF TypeOK
<1>2. SessionsFollowMembership'
  BY <1>1 DEF SessionInv, SessionsFollowMembership, MembersStay
<1>3. SwitchesHold'
  BY <1>1 DEF SessionInv, SwitchesHold, MembersStay, Continues
<1>4. LoginsHold'
  BY <1>1 DEF SessionInv, LoginsHold, MembersStay, Continues
<1>5. QED BY <1>2, <1>3, <1>4 DEF SessionInv

(* A session that is closed, or is written for a member, with its switches *)
(* losing their version.                                                   *)
LEMMA SessionWritten ==
  ASSUME TypeOK, SessionInv, NoConflict', MembersStay,
         NEW s \in Sessions, NEW to,
         session' = [session EXCEPT ![s] = to],
         to.live /\ to.here => IsMember(to.user)',
         \A q \in Requests : Inherits(q),
         \A q \in Requests : req[q].op = "switch" /\ req[q].target = s =>
                               req'[q].op = "none" \/ ~req'[q].fresh
  PROVE  SessionInv'
<1>1. /\ \A t \in Sessions : session[t].live => session[t].user \in Users
      /\ \A r \in Requests : req[r].op = "login" => req[r].target \in Users
      /\ \A r \in Requests : req[r].op = "switch" => req[r].target \in Sessions
      /\ session = [t \in Sessions |-> session[t]]
  BY DEF TypeOK
<1>2. session'[s] = to /\ \A t \in Sessions : t # s => session'[t] = session[t]
  BY <1>1
<1>3. SessionsFollowMembership'
  BY <1>1, <1>2 DEF SessionInv, SessionsFollowMembership, MembersStay
<1>4. SwitchesHold'
  BY <1>1, <1>2 DEF SessionInv, SwitchesHold, MembersStay, Continues, Inherits
<1>5. LoginsHold'
  BY <1>1 DEF SessionInv, LoginsHold, MembersStay, Continues, Inherits
<1>6. QED BY <1>3, <1>4, <1>5 DEF SessionInv

(* What RemoveMembership does to sessions and to requests about them.      *)
LEMMA RemovalClosesSessions ==
  ASSUME TypeOK, SessionInv, NoConflict', NEW r \in Requests, RemoveMembership(r), Unchanged(r)
  PROVE  SessionInv'
<1> DEFINE u == req[r].target
<1>1. /\ RequestType /\ u \in Users
      /\ \A t \in Sessions : session[t].live => session[t].user \in Users
      /\ \A q \in Requests : req[q].op = "login" => req[q].target \in Users
      /\ \A q \in Requests : req[q].op = "switch" => req[q].target \in Sessions
  BY TypeParts DEF TypeOK, RemoveMembership, Works, OwnerOps
<1>2. \A w \in Users : w # u => member'[w] = member[w]
  BY DEF RemoveMembership, SetMember, TypeOK
<1>3. \A t \in Sessions : session'[t] = IF session[t].user = u THEN NoSession ELSE session[t]
  BY DEF RemoveMembership, RevokeAllSessions
<1>4. AfterWrite(r, OwnerOps \union {"switch"}, {u} \union {s \in Sessions : session[s].user = u})
  BY DEF RemoveMembership
<1>5. /\ \A q \in Requests : Inherits(q)
      /\ \A q \in Requests : Touched(q, OwnerOps \union {"switch"},
                                     {u} \union {s \in Sessions : session[s].user = u})
                            => req'[q].op = "none" \/ ~req'[q].fresh
  BY <1>1, <1>4, AfterWriteInherits
<1>6. \A q \in Requests : req[q].op # "login"
  BY DEF SessionInv, NoConflict, Conflict, RemoveMembership, Works
<1>7. SessionsFollowMembership'
  BY <1>1, <1>2, <1>3 DEF SessionInv, SessionsFollowMembership, NoSession, IsMember
<1>8. SwitchesHold'
  <2>1. SUFFICES ASSUME NEW q \in Requests, req'[q].op = "switch", req'[q].fresh
                 PROVE  session'[req'[q].target].live
                        /\ (IsMember(session[req[q].target].user)
                            /\ session[req[q].target].user \in Users)'
    BY DEF SwitchesHold
  <2>2. req[q].op = "switch" /\ req[q].fresh /\ req'[q].target = req[q].target
    BY <1>5, <2>1 DEF Inherits, Continues
  <2>3. ~Touched(q, OwnerOps \union {"switch"}, {u} \union {s \in Sessions : session[s].user = u})
    BY <1>5, <2>1
  <2>4. req[q].target \in Sessions /\ session[req[q].target].user # u
    BY <1>1, <2>2, <2>3 DEF Touched
  <2>5. session'[req[q].target] = session[req[q].target]
    BY <1>3, <2>4
  <2>6. session[req[q].target].live /\ IsMember(session[req[q].target].user)
    BY <2>2 DEF SessionInv, SwitchesHold
  <2>7. QED BY <1>1, <1>2, <2>2, <2>4, <2>5, <2>6 DEF IsMember
<1>9. LoginsHold'
  BY <1>5, <1>6 DEF LoginsHold, Inherits, Continues
<1>10. QED BY <1>7, <1>8, <1>9 DEF SessionInv

LEMMA SessionStep ==
  ASSUME TypeOK, SessionInv, Next, "overlap" \notin Environment
  PROVE  SessionInv'
<1>1. NoConflict'
  BY NoConflictStep DEF SessionInv
<1>2. MemberType /\ InviteType /\ SessionType /\ RequestType
  BY TypeParts
<1>3. UNCHANGED member => MembersStay
  BY DEF MembersStay, IsMember
<1>4. ASSUME MembersStay, UNCHANGED session, \A q \in Requests : Inherits(q) PROVE SessionInv'
  BY <1>1, <1>4, QuietStep DEF Inherits
<1>5. ASSUME NEW r \in Requests, NEW u \in Users, LoginRead(r, u) PROVE SessionInv'
  <2>1. PICK here \in BOOLEAN :
          /\ here => IsMember(u)
          /\ req' = [req EXCEPT ![r] = Request("login", "checked", None, "MEMBER", u, "MEMBER", here)]
    BY <1>5 DEF LoginRead
  <2>2. /\ req'[r] = Request("login", "checked", None, "MEMBER", u, "MEMBER", here)
        /\ \A p \in Requests : p # r => req'[p] = req[p]
    BY <1>2, <2>1, StartOfRequest
  <2>3. req'[r].op = "login" /\ req'[r].target = u /\ req'[r].fresh = here
    BY <2>2 DEF Request
  <2>4. UNCHANGED <<member, session>>
    BY <1>5 DEF LoginRead
  <2>5. SwitchesHold'
    BY <2>2, <2>3, <2>4 DEF SessionInv, SwitchesHold, IsMember
  <2>6. LoginsHold'
    BY <2>1, <2>2, <2>3, <2>4 DEF SessionInv, LoginsHold, IsMember
  <2>7. SessionsFollowMembership'
    BY <2>4 DEF SessionInv, SessionsFollowMembership, IsMember
  <2>8. QED BY <1>1, <2>5, <2>6, <2>7 DEF SessionInv
<1>6. ASSUME NEW r \in Requests, NEW s \in Sessions, SwitchRead(r, s) PROVE SessionInv'
  <2>1. /\ req'[r] = Request("switch", "checked", None, "MEMBER", s, "MEMBER", TRUE)
        /\ \A p \in Requests : p # r => req'[p] = req[p]
    BY <1>2, <1>6, StartOfRequest DEF SwitchRead
  <2>2. req'[r].op = "switch" /\ req'[r].target = s
    BY <2>1 DEF Request
  <2>3. UNCHANGED <<member, session>> /\ session[s].live /\ IsMember(session[s].user)
    BY <1>6 DEF SwitchRead
  <2>4. SwitchesHold'
    BY <2>1, <2>2, <2>3 DEF SessionInv, SwitchesHold, IsMember
  <2>5. LoginsHold'
    BY <2>1, <2>2, <2>3 DEF SessionInv, LoginsHold, IsMember
  <2>6. SessionsFollowMembership'
    BY <2>3 DEF SessionInv, SessionsFollowMembership, IsMember
  <2>7. QED BY <1>1, <2>4, <2>5, <2>6 DEF SessionInv
<1>7. ASSUME NEW r \in Requests, NEW s \in Sessions, AuthorizeAny(r, s) PROVE SessionInv'
  <2>1. ASSUME NEW op \in Ops \ {"login", "switch"}, NEW target, NEW grant,
               Authorize(r, s, op, target, grant)
        PROVE  SessionInv'
    <3>1. /\ req'[r] = Request(op, "authorized", session[s].user,
                               member[session[s].user].role, target, grant, TRUE)
          /\ \A p \in Requests : p # r => req'[p] = req[p]
      BY <1>2, <2>1, StartOfRequest DEF Authorize
    <3>2. \A q \in Requests : Continues(q) \/ req'[q].op \notin {"login", "switch"}
      BY <2>1, <3>1 DEF Request, Continues
    <3>3. UNCHANGED <<member, session>>
      BY <2>1 DEF Authorize
    <3>4. QED BY <1>1, <1>3, <3>2, <3>3, QuietStep
  <2>2. QED BY <1>7, <2>1 DEF AuthorizeAny, Ops, OwnerOps
<1>8. ASSUME NEW r \in Requests, Check(r) PROVE SessionInv'
  <2>1. \A q \in Requests : Continues(q) \/ req'[q].op = "none"
    BY <1>2, <1>8, WithInherits, EndInherits DEF Check, Inherits
  <2>2. QED BY <1>1, <1>3, <1>8, <2>1, QuietStep DEF Check
<1>9. ASSUME NEW r \in Requests,
             CreateInvitation(r) \/ RevokeInvitation(r) \/ RequestDies(r) \/ Refused(r)
      PROVE  SessionInv'
  <2>1. UNCHANGED <<member, session>> /\ End(r)
    BY <1>9 DEF CreateInvitation, RevokeInvitation, RequestDies, Refused
  <2>2. QED BY <1>2, <1>3, <1>4, <2>1, EndInherits
<1>10. ASSUME NEW r \in Requests, CreateSession(r) PROVE SessionInv'
  <2>1. PICK s \in Sessions : ~session[s].live /\ SetSession(s, req[r].target, req[r].fresh)
    BY <1>10 DEF CreateSession
  <2>2. /\ \A q \in Requests : Inherits(q)
        /\ UNCHANGED member
    BY <1>2, <1>10, EndInherits DEF CreateSession
  <2>3. \A q \in Requests : req[q].op = "switch" /\ req[q].target = s => ~req[q].fresh
    BY <2>1 DEF SessionInv, SwitchesHold
  <2>4. \A q \in Requests : req[q].op = "switch" /\ req[q].target = s =>
                            req'[q].op = "none" \/ ~req'[q].fresh
    BY <2>2, <2>3 DEF Inherits, Continues
  <2>5. req[r].fresh => IsMember(req[r].target)
    BY <1>10 DEF CreateSession, Works, SessionInv, LoginsHold
  <2> DEFINE to == [user |-> req[r].target, live |-> TRUE, here |-> req[r].fresh]
  <2>6. /\ to.live /\ to.here => member'[to.user].status = "ACTIVE"
        /\ session' = [session EXCEPT ![s] = to]
    BY <2>1, <2>2, <2>5 DEF IsMember, SetSession
  <2>7. QED BY <1>1, <1>3, <2>2, <2>4, <2>6, SessionWritten DEF IsMember
<1>11. ASSUME NEW s \in Sessions, Logout(s) PROVE SessionInv'
  <2>1. /\ session' = [session EXCEPT ![s] = NoSession] /\ UNCHANGED member
        /\ AfterWrite(None, {"switch"}, {s})
    BY <1>11 DEF Logout, Revoke
  <2>2. /\ \A q \in Requests : Inherits(q)
        /\ \A q \in Requests : req[q].op = "switch" /\ req[q].target = s =>
                                req'[q].op = "none" \/ ~req'[q].fresh
    BY <1>2, <2>1, AfterWriteInherits DEF Touched
  <2>3. ~NoSession.live
    BY DEF NoSession
  <2>4. QED BY <1>1, <1>3, <2>1, <2>2, <2>3, SessionWritten
<1>12. ASSUME NEW r \in Requests, SwitchOrganization(r) PROVE SessionInv'
  <2> DEFINE s == req[r].target
             to == [user |-> session[s].user, live |-> TRUE, here |-> TRUE]
  <2>1. CASE Current(r)
    <3>1. s \in Sessions /\ UNCHANGED member
      BY <1>12 DEF SwitchOrganization, Works, TypeOK
    <3>2. SetSession(s, session[s].user, TRUE) /\ AfterWrite(r, {"switch"}, {s})
      BY <1>12, <2>1 DEF SwitchOrganization
    <3>3. /\ \A q \in Requests : Inherits(q)
          /\ \A q \in Requests : req[q].op = "switch" /\ req[q].target = s =>
                                  req'[q].op = "none" \/ ~req'[q].fresh
      BY <1>2, <3>2, AfterWriteInherits DEF Touched
    <3>4. IsMember(session[s].user)
      BY <1>12, <2>1 DEF Current, SwitchOrganization, Works, SessionInv, SwitchesHold
    <3>5. /\ member'[to.user].status = "ACTIVE"
          /\ session' = [session EXCEPT ![s] = to]
      BY <3>1, <3>2, <3>4 DEF IsMember, SetSession
    <3>6. QED BY <1>1, <1>3, <3>1, <3>3, <3>5, SessionWritten DEF IsMember
  <2>2. CASE ~Current(r)
    <3>1. End(r) /\ UNCHANGED <<member, session>>
      BY <1>12, <2>2 DEF SwitchOrganization
    <3>2. QED BY <1>2, <1>3, <1>4, <3>1, EndInherits
  <2>3. QED BY <2>1, <2>2
<1>13. ASSUME NEW s \in Sessions, SwitchElsewhere(s) PROVE SessionInv'
  <2> DEFINE to == [user |-> session[s].user, live |-> TRUE, here |-> FALSE]
  <2>1. SetSession(s, session[s].user, FALSE) /\ UNCHANGED member
        /\ AfterWrite(None, {"switch"}, {s})
    BY <1>13 DEF SwitchElsewhere
  <2>2. /\ \A q \in Requests : Inherits(q)
        /\ \A q \in Requests : req[q].op = "switch" /\ req[q].target = s =>
                                req'[q].op = "none" \/ ~req'[q].fresh
    BY <1>2, <2>1, AfterWriteInherits DEF Touched
  <2>3. session' = [session EXCEPT ![s] = to] /\ ~to.here
    BY <2>1 DEF SetSession
  <2>4. QED BY <1>1, <1>3, <2>1, <2>2, <2>3, SessionWritten
<1>14. ASSUME NEW s \in Sessions, CreateOrganization(s) PROVE SessionInv'
  <2>1. MembersStay
    BY <1>2, <1>14 DEF CreateOrganization, SetMember, MembersStay, IsMember, MemberType
  <2>2. QED BY <1>4, <1>14, <2>1, SameInherits DEF CreateOrganization
<1>15. ASSUME NEW r \in Requests, ChangeRole(r) PROVE SessionInv'
  <2>1. CASE Unchanged(r)
    <3>1. MembersStay
      BY <1>2, <1>15, <2>1
      DEF ChangeRole, SetMember, MembersStay, IsMember, MemberType
    <3>2. AfterWrite(r, OwnerOps, {req[r].target}) /\ UNCHANGED session
      BY <1>15, <2>1 DEF ChangeRole
    <3>3. QED BY <1>2, <1>4, <3>1, <3>2, AfterWriteInherits
  <2>2. QED BY <1>9, <1>15, <2>1 DEF ChangeRole
<1>16. ASSUME NEW r \in Requests, RemoveMembership(r) PROVE SessionInv'
  <2>1. CASE Unchanged(r)
    BY <1>1, <1>16, <2>1, RemovalClosesSessions
  <2>2. QED BY <1>9, <1>16, <2>1 DEF RemoveMembership
<1>17. ASSUME NEW r \in Requests, TransferOwnership(r) PROVE SessionInv'
  <2>1. CASE TransferHolds(r)
    <3>1. MembersStay
      BY <1>2, <1>17, <2>1 DEF TransferOwnership, MembersStay, IsMember, MemberType
    <3>2. AfterWrite(r, OwnerOps, {req[r].target, req[r].user}) /\ UNCHANGED session
      BY <1>17, <2>1 DEF TransferOwnership
    <3>3. QED BY <1>2, <1>4, <3>1, <3>2, AfterWriteInherits
  <2>2. QED BY <1>9, <1>17, <2>1 DEF TransferOwnership
<1>18. ASSUME NEW v \in Invitations, AcceptInvitation(v) PROVE SessionInv'
  <2>1. MembersStay
    BY <1>2, <1>18 DEF AcceptInvitation, SetMember, MembersStay, IsMember, MemberType
  <2>2. AfterWrite(None, OwnerOps, {invite[v].user}) /\ UNCHANGED session
    BY <1>18 DEF AcceptInvitation
  <2>3. QED BY <1>2, <1>4, <2>1, <2>2, AfterWriteInherits
<1>19. ASSUME NEW v \in Invitations, InvitationExpires(v) PROVE SessionInv'
  BY <1>3, <1>4, <1>19, SameInherits DEF InvitationExpires
<1>20. QED
  BY <1>5, <1>6, <1>7, <1>8, <1>9, <1>10, <1>11, <1>12, <1>13, <1>14, <1>15, <1>16, <1>17,
     <1>18, <1>19
  DEF Next, SessionExpires

(* A session that is active in the organization is a member's, as long as  *)
(* no login overlaps a removal: a switch that was authorized before takes  *)
(* no effect after it (setActiveOrganization, revokeAllUserSessions).      *)
THEOREM SessionsFollowMembershipHolds ==
  ASSUME "overlap" \notin Environment
  PROVE  Spec => []SessionsFollowMembership
<1>1. Init => SessionInv
  BY InitNoConflict
  DEF Init, SessionInv, SessionsFollowMembership, SwitchesHold, LoginsHold, NoRequest, Request,
      NoSession
<1>2. SessionInv /\ UNCHANGED vars => SessionInv'
  BY DEF vars, SessionInv, NoConflict, SessionsFollowMembership, SwitchesHold, LoginsHold, IsMember
<1>3. TypeOK /\ SessionInv /\ [Next]_vars => SessionInv'
  BY <1>2, SessionStep
<1>4. SessionInv => SessionsFollowMembership
  BY DEF SessionInv
<1>5. QED BY <1>1, <1>3, <1>4, TypeHolds, PTL DEF Spec

-----------------------------------------------------------------------------
(* Ownership.  OwnerInv strengthens OwnerRemains: while a request that has *)
(* counted the owners is under way, what it counted stays true, because no *)
(* other request that changes owners is.                                   *)

Counted == \A r \in Requests : req[r].pc = "checked" =>
             /\ req[r].op \in {"role", "remove"} => ~Protected(r)
             /\ req[r].op = "transfer" => req[r].target # req[r].user
RequestsFounded == \A r \in Requests : req[r].op \in Ops \ {"login", "switch"} => Founded
InvitesFounded == \A v \in Invitations : invite[v].status # "NONE" => Founded
OwnerInv == NoConflict /\ OwnerRemains /\ Counted /\ RequestsFounded /\ InvitesFounded

(* Every owner stays one, nobody's role becomes OWNER.                     *)
OwnersStay == /\ \A u \in Users : IsOwner(u) => IsOwner(u)'
              /\ \A u \in Users : member'[u].role = "OWNER" => member[u].role = "OWNER"

LEMMA CountStays ==
  ASSUME TypeOK, NEW r \in Requests, OwnersStay, Continues(r), req[r].op \in {"role", "remove"},
         ~Protected(r)
  PROVE  ~Protected(r)'
<1>1. req[r].target \in Users
  BY DEF TypeOK, OwnerOps
<1>2. SUFFICES ASSUME Protected(r)' PROVE FALSE
  OBVIOUS
<1>3. /\ member'[req[r].target].role = "OWNER"
      /\ req[r].op = "remove" \/ (req[r].op = "role" /\ req[r].grant # "OWNER")
      /\ ~(\E w \in Users \ {req[r].target} : IsOwner(w)')
  BY <1>2 DEF Protected, Continues, NotLastOwner, IsOwner
<1>4. member[req[r].target].role = "OWNER"
  BY <1>1, <1>3 DEF OwnersStay
<1>5. \E w \in Users \ {req[r].target} : IsOwner(w)
  BY <1>3, <1>4 DEF Protected, NotLastOwner
<1>6. QED BY <1>3, <1>5 DEF OwnersStay

(* A step that changes no owner keeps OwnerInv.                            *)
LEMMA QuietForOwners ==
  ASSUME TypeOK, OwnerInv, NoConflict', OwnersStay, Founded' <=> Founded,
         \A q \in Requests : Inherits(q),
         \A v \in Invitations : invite'[v].status # "NONE" => invite[v].status # "NONE" \/ Founded
  PROVE  OwnerInv'
<1>1. Founded' <=> Founded
  OBVIOUS
<1>2. OwnerRemains'
  BY <1>1 DEF OwnerInv, OwnerRemains, OwnersStay
<1>3. Counted'
  <2>1. SUFFICES ASSUME NEW r \in Requests, req'[r].pc = "checked"
                 PROVE  /\ req'[r].op \in {"role", "remove"} => ~Protected(r)'
                        /\ req'[r].op = "transfer" => req'[r].target # req'[r].user
    BY DEF Counted
  <2>2. CASE req'[r].op = "none"
    BY <2>2
  <2>3. CASE Continues(r) /\ req'[r].pc = req[r].pc
    <3>1. /\ req[r].op \in {"role", "remove"} => ~Protected(r)
          /\ req[r].op = "transfer" => req[r].target # req[r].user
      BY <2>1, <2>3 DEF OwnerInv, Counted
    <3>2. req[r].op \in {"role", "remove"} => ~Protected(r)'
      BY <2>3, <3>1, CountStays
    <3>3. QED BY <2>3, <3>1, <3>2 DEF Continues
  <2>4. QED BY <2>2, <2>3 DEF Inherits
<1>4. RequestsFounded'
  BY <1>1 DEF OwnerInv, RequestsFounded, Inherits, Continues, Ops, OwnerOps
<1>5. InvitesFounded'
  BY <1>1 DEF OwnerInv, InvitesFounded
<1>6. QED BY <1>2, <1>3, <1>4, <1>5 DEF OwnerInv

(* A step of the request that changes owners: the other requests have      *)
(* counted nothing.                                                        *)
LEMMA OwnerChanges ==
  ASSUME TypeOK, OwnerInv, NoConflict', NEW r \in Requests, req[r].op \in OwnerOps,
         \A q \in Requests : Inherits(q), req'[r].op = "none", UNCHANGED invite,
         \E u \in Users : IsOwner(u)'
  PROVE  OwnerInv'
<1>1. Founded'
  BY DEF Founded, IsOwner
<1>2. OwnerRemains'
  BY DEF OwnerRemains
<1>3. \A q \in Requests : req'[q].op \notin OwnerOps
  <2>1. \A q \in Requests : q # r => req[q].op \notin OwnerOps
    BY DEF OwnerInv, NoConflict, Conflict
  <2>2. QED BY <2>1 DEF Inherits, Continues, OwnerOps
<1>4. Counted'
  BY <1>3 DEF Counted, OwnerOps
<1>5. RequestsFounded' /\ InvitesFounded'
  BY <1>1 DEF RequestsFounded, InvitesFounded
<1>6. QED BY <1>2, <1>4, <1>5 DEF OwnerInv

LEMMA OwnerStep ==
  ASSUME TypeOK, OwnerInv, Next, Environment \intersect {"overlap", "ownerAccepts"} = {}
  PROVE  OwnerInv'
<1>1. "overlap" \notin Environment /\ "ownerAccepts" \notin Environment /\ NoConflict'
  BY NoConflictStep DEF OwnerInv
<1>2. MemberType /\ InviteType /\ SessionType /\ RequestType
  BY TypeParts
<1>3. UNCHANGED member => OwnersStay /\ (Founded' <=> Founded)
  BY DEF OwnersStay, IsOwner, Founded
<1>4. ASSUME UNCHANGED <<member, invite>>, \A q \in Requests : Inherits(q) PROVE OwnerInv'
  BY <1>1, <1>3, <1>4, QuietForOwners
<1>5. ASSUME NEW r \in Requests, UNCHANGED <<member, invite>>,
             \A p \in Requests : p # r => req'[p] = req[p],
             req'[r].pc # "checked" \/ req'[r].op \in {"login", "switch"},
             req'[r].op \in Ops \ {"login", "switch"} => Founded
      PROVE  OwnerInv'
  <2>1. OwnerRemains' /\ InvitesFounded' /\ (Founded' <=> Founded)
    BY <1>5 DEF OwnerInv, OwnerRemains, InvitesFounded, Founded, IsOwner
  <2>2. Counted'
    <3>1. SUFFICES ASSUME NEW q \in Requests, req'[q].pc = "checked",
                          req'[q].op \in {"role", "remove", "transfer"}
                   PROVE  /\ req'[q].op \in {"role", "remove"} => ~Protected(q)'
                          /\ req'[q].op = "transfer" => req'[q].target # req'[q].user
      BY DEF Counted
    <3>2. req'[q] = req[q]
      BY <1>5, <3>1
    <3>3. Protected(q)' <=> Protected(q)
      BY <1>5, <3>2 DEF Protected, NotLastOwner, IsOwner
    <3>4. QED BY <3>1, <3>2, <3>3 DEF OwnerInv, Counted
  <2>3. RequestsFounded'
    BY <1>5, <2>1 DEF OwnerInv, RequestsFounded
  <2>4. QED BY <1>1, <2>1, <2>2, <2>3 DEF OwnerInv
<1>6. ASSUME NEW r \in Requests, NEW u \in Users, LoginRead(r, u) PROVE OwnerInv'
  <2>1. PICK here \in BOOLEAN :
          req' = [req EXCEPT ![r] = Request("login", "checked", None, "MEMBER", u, "MEMBER", here)]
    BY <1>6 DEF LoginRead
  <2>2. /\ req'[r] = Request("login", "checked", None, "MEMBER", u, "MEMBER", here)
        /\ \A p \in Requests : p # r => req'[p] = req[p]
    BY <1>2, <2>1, StartOfRequest
  <2>3. req'[r].op = "login"
    BY <2>2 DEF Request
  <2>4. QED BY <1>5, <1>6, <2>2, <2>3 DEF LoginRead
<1>7. ASSUME NEW r \in Requests, NEW s \in Sessions, SwitchRead(r, s) PROVE OwnerInv'
  <2>1. /\ req'[r] = Request("switch", "checked", None, "MEMBER", s, "MEMBER", TRUE)
        /\ \A p \in Requests : p # r => req'[p] = req[p]
    BY <1>2, <1>7, StartOfRequest DEF SwitchRead
  <2>2. req'[r].op = "switch"
    BY <2>1 DEF Request
  <2>3. QED BY <1>5, <1>7, <2>1, <2>2 DEF SwitchRead
<1>8. ASSUME NEW r \in Requests, NEW s \in Sessions, AuthorizeAny(r, s) PROVE OwnerInv'
  <2>1. ASSUME NEW op, NEW target, NEW grant, Authorize(r, s, op, target, grant) PROVE OwnerInv'
    <3>1. /\ req'[r] = Request(op, "authorized", session[s].user,
                               member[session[s].user].role, target, grant, TRUE)
          /\ \A p \in Requests : p # r => req'[p] = req[p]
      BY <1>2, <2>1, StartOfRequest DEF Authorize
    <3>2. req'[r].pc # "checked"
      BY <3>1 DEF Request
    <3>3. Founded
      BY <1>2, <2>1 DEF Authorize, IsMember, Founded, SessionType
    <3>4. QED BY <1>5, <2>1, <3>1, <3>2, <3>3 DEF Authorize
  <2>2. QED BY <1>8, <2>1 DEF AuthorizeAny
<1>9. ASSUME NEW r \in Requests, Check(r) PROVE OwnerInv'
  <2>1. CASE ~Acceptable(r)
    BY <1>2, <1>4, <1>9, <2>1, EndInherits DEF Check
  <2>2. CASE Acceptable(r)
    <3>1. /\ \A q \in Requests : Continues(q)
          /\ \A q \in Requests : q # r => Inherits(q)
          /\ UNCHANGED <<member, invite>>
      BY <1>2, <1>9, <2>2, WithInherits DEF Check
    <3>2. OwnerRemains' /\ InvitesFounded' /\ (Founded' <=> Founded)
      BY <3>1 DEF OwnerInv, OwnerRemains, InvitesFounded, Founded, IsOwner
    <3>3. RequestsFounded'
      BY <3>1, <3>2 DEF OwnerInv, RequestsFounded, Continues
    <3>4. /\ req[r].op \in {"role", "remove"} => ~Protected(r)
          /\ req[r].op = "transfer" => req[r].target # req[r].user
      BY <2>2 DEF Acceptable
    <3>5. Counted'
      <4>1. SUFFICES ASSUME NEW q \in Requests, req'[q].pc = "checked"
                     PROVE  /\ req'[q].op \in {"role", "remove"} => ~Protected(q)'
                            /\ req'[q].op = "transfer" => req'[q].target # req'[q].user
        BY DEF Counted
      <4>2. \/ req'[q].op = "none"
            \/ /\ req[q].op \in {"role", "remove"} => ~Protected(q)
               /\ req[q].op = "transfer" => req[q].target # req[q].user
        BY <3>1, <3>4, <4>1 DEF OwnerInv, Counted, Inherits
      <4>3. req[q].op \in {"role", "remove"} /\ ~Protected(q) => ~Protected(q)'
        BY <1>3, <3>1, CountStays
      <4>4. QED BY <3>1, <4>2, <4>3 DEF Continues
    <3>6. QED BY <1>1, <3>2, <3>3, <3>5 DEF OwnerInv
  <2>3. QED BY <2>1, <2>2
<1>10. ASSUME NEW r \in Requests, CreateSession(r) \/ RequestDies(r) \/ Refused(r) PROVE OwnerInv'
  <2>1. UNCHANGED <<member, invite>> /\ End(r)
    BY <1>10 DEF CreateSession, RequestDies, Refused
  <2>2. QED BY <1>2, <1>4, <2>1, EndInherits
<1>11. ASSUME NEW r \in Requests, CreateInvitation(r) \/ RevokeInvitation(r) PROVE OwnerInv'
  <2>1. Founded /\ UNCHANGED member /\ End(r)
    BY <1>11 DEF CreateInvitation, RevokeInvitation, Works, OwnerInv, RequestsFounded, Ops
  <2>2. QED BY <1>1, <1>2, <1>3, <2>1, EndInherits, QuietForOwners
<1>12. ASSUME NEW r \in Requests, SwitchOrganization(r) PROVE OwnerInv'
  BY <1>2, <1>4, <1>12, EndInherits, AfterWriteInherits DEF SwitchOrganization
<1>13. ASSUME NEW s \in Sessions, Logout(s) \/ SwitchElsewhere(s) PROVE OwnerInv'
  BY <1>2, <1>4, <1>13, AfterWriteInherits DEF Logout, SwitchElsewhere
<1>14. ASSUME NEW s \in Sessions, CreateOrganization(s) PROVE OwnerInv'
  <2>1. ~Founded /\ UNCHANGED <<invite, req>> /\ session[s].user \in Users
        /\ SetMember(session[s].user, "ACTIVE", "OWNER")
    BY <1>2, <1>14 DEF CreateOrganization, SessionType
  <2>2. member'[session[s].user] = [status |-> "ACTIVE", role |-> "OWNER"]
    BY <1>2, <2>1 DEF SetMember, MemberType
  <2>3. OwnerRemains' /\ Founded'
    BY <2>1, <2>2 DEF OwnerRemains, IsOwner, Founded
  <2>4. Counted'
    BY <2>1 DEF OwnerInv, RequestsFounded, Counted, Ops, OwnerOps
  <2>5. RequestsFounded' /\ InvitesFounded'
    BY <2>3 DEF RequestsFounded, InvitesFounded
  <2>6. QED BY <1>1, <2>3, <2>4, <2>5 DEF OwnerInv
<1>15. ASSUME NEW r \in Requests, ChangeRole(r) PROVE OwnerInv'
  <2>1. CASE Unchanged(r)
    <3> DEFINE u == req[r].target
    <3>1. /\ u \in Users /\ IsMember(u) /\ req[r].op = "role" /\ ~Protected(r)
          /\ SetMember(u, "ACTIVE", req[r].grant) /\ UNCHANGED invite
          /\ AfterWrite(r, OwnerOps, {u})
      BY <1>15, <2>1
      DEF ChangeRole, Works, Unchanged, TypeOK, OwnerOps, OwnerInv, Counted
    <3>2. (\A q \in Requests : Inherits(q)) /\ req'[r].op = "none"
      BY <1>2, <3>1, AfterWriteInherits
    <3>3. \E w \in Users : IsOwner(w)
      BY <3>1 DEF IsMember, Founded, OwnerInv, OwnerRemains
    <3>4. \A w \in Users \ {u} : IsOwner(w) => IsOwner(w)'
      BY <1>2, <3>1 DEF SetMember, MemberType, IsOwner
    <3>5. req[r].grant = "OWNER" => member'[u] = [status |-> "ACTIVE", role |-> "OWNER"]
      BY <1>2, <3>1 DEF SetMember, MemberType
    <3>6. \E w \in Users : IsOwner(w)'
      <4>1. CASE req[r].grant = "OWNER"
        BY <3>1, <3>5, <4>1 DEF IsOwner
      <4>2. CASE member[u].role # "OWNER"
        BY <3>3, <3>4, <4>2 DEF IsOwner
      <4>3. CASE NotLastOwner(u)
        BY <3>4, <4>3 DEF NotLastOwner
      <4>4. QED BY <3>1, <4>1, <4>2, <4>3 DEF Protected
    <3>7. QED BY <1>1, <3>1, <3>2, <3>6, OwnerChanges DEF OwnerOps
  <2>2. QED BY <1>10, <1>15, <2>1 DEF ChangeRole
<1>16. ASSUME NEW r \in Requests, RemoveMembership(r) PROVE OwnerInv'
  <2>1. CASE Unchanged(r)
    <3> DEFINE u == req[r].target
    <3>1. /\ u \in Users /\ IsMember(u) /\ req[r].op = "remove" /\ ~Protected(r)
          /\ SetMember(u, "REMOVED", member[u].role) /\ UNCHANGED invite
          /\ AfterWrite(r, OwnerOps \union {"switch"},
                        {u} \union {s \in Sessions : session[s].user = u})
      BY <1>16, <2>1
      DEF RemoveMembership, Works, Unchanged, TypeOK, OwnerOps, OwnerInv, Counted
    <3>2. (\A q \in Requests : Inherits(q)) /\ req'[r].op = "none"
      BY <1>2, <3>1, AfterWriteInherits
    <3>3. \E w \in Users : IsOwner(w)
      BY <3>1 DEF IsMember, Founded, OwnerInv, OwnerRemains
    <3>4. \A w \in Users \ {u} : IsOwner(w) => IsOwner(w)'
      BY <1>2, <3>1 DEF SetMember, MemberType, IsOwner
    <3>5. \E w \in Users : IsOwner(w)'
      <4>1. CASE member[u].role # "OWNER"
        BY <3>3, <3>4, <4>1 DEF IsOwner
      <4>2. CASE NotLastOwner(u)
        BY <3>4, <4>2 DEF NotLastOwner
      <4>3. QED BY <3>1, <4>1, <4>2 DEF Protected
    <3>6. QED BY <1>1, <3>1, <3>2, <3>5, OwnerChanges DEF OwnerOps
  <2>2. QED BY <1>10, <1>16, <2>1 DEF RemoveMembership
<1>17. ASSUME NEW r \in Requests, TransferOwnership(r) PROVE OwnerInv'
  <2>1. CASE TransferHolds(r)
    <3> DEFINE u == req[r].target
               w == req[r].user
    <3>1. /\ u \in Users /\ u # w /\ req[r].op = "transfer" /\ UNCHANGED invite
          /\ member' = [member EXCEPT ![u] = [status |-> "ACTIVE", role |-> "OWNER"],
                                      ![w] = [status |-> "ACTIVE", role |-> "ADMIN"]]
          /\ AfterWrite(r, OwnerOps, {u, w})
      BY <1>17, <2>1
      DEF TransferOwnership, Works, TypeOK, OwnerOps, OwnerInv, Counted
    <3>2. (\A q \in Requests : Inherits(q)) /\ req'[r].op = "none"
      BY <1>2, <3>1, AfterWriteInherits
    <3>3. member'[u] = [status |-> "ACTIVE", role |-> "OWNER"]
      BY <1>2, <3>1 DEF MemberType
    <3>4. \E x \in Users : IsOwner(x)'
      BY <3>1, <3>3 DEF IsOwner
    <3>5. QED BY <1>1, <3>1, <3>2, <3>4, OwnerChanges DEF OwnerOps
  <2>2. QED BY <1>10, <1>17, <2>1 DEF TransferOwnership
<1>18. ASSUME NEW v \in Invitations, AcceptInvitation(v) PROVE OwnerInv'
  <2> DEFINE u == invite[v].user
  <2>1. /\ ~IsOwner(u) /\ invite[v].status = "PENDING" /\ SetMember(u, "ACTIVE", invite[v].role)
        /\ AfterWrite(None, OwnerOps, {u})
        /\ SetInvite(v, "ACCEPTED", FALSE) /\ invite[v].role # "OWNER"
    BY <1>1, <1>2, <1>18 DEF AcceptInvitation, Invites, InviteType
  <2>2. \A q \in Requests : Inherits(q)
    BY <1>2, <2>1, AfterWriteInherits
  <2>3. \A i \in Invitations : invite'[i].status # "NONE" => invite[i].status # "NONE"
    BY <1>2, <2>1 DEF SetInvite, InviteType
  <2>4. Founded
    BY <2>1 DEF OwnerInv, InvitesFounded
  <2>5. /\ \A x \in Users : IsOwner(x) => IsOwner(x)'
        /\ \A x \in Users : member'[x].role = "OWNER" => member[x].role = "OWNER"
        /\ \A x \in Users : member[x].status # "NONE" => member'[x].status # "NONE"
    BY <1>2, <2>1 DEF SetMember, MemberType, IsOwner
  <2>6. Founded'
    BY <2>4, <2>5 DEF Founded
  <2>7. QED BY <1>1, <2>2, <2>3, <2>4, <2>5, <2>6, QuietForOwners DEF OwnersStay
<1>19. ASSUME NEW v \in Invitations, InvitationExpires(v) PROVE OwnerInv'
  <2>1. UNCHANGED <<member, req>> /\ SetInvite(v, "PENDING", TRUE) /\ invite[v].status = "PENDING"
    BY <1>19 DEF InvitationExpires
  <2>2. \A i \in Invitations : invite'[i].status # "NONE" => invite[i].status # "NONE"
    BY <1>2, <2>1 DEF SetInvite, InviteType
  <2>3. QED BY <1>1, <1>3, <2>1, <2>2, SameInherits, QuietForOwners
<1>20. QED
  BY <1>6, <1>7, <1>8, <1>9, <1>10, <1>11, <1>12, <1>13, <1>14, <1>15, <1>16, <1>17, <1>18, <1>19
  DEF Next, SessionExpires

(* An organization keeps an active owner, as long as requests that change  *)
(* owners do not overlap and no owner accepts an invitation                *)
(* (assertNotLastOwner, transferOwnership, acceptInvitation).              *)
THEOREM OwnerRemainsHolds ==
  ASSUME Environment \intersect {"overlap", "ownerAccepts"} = {}
  PROVE  Spec => []OwnerRemains
<1>1. Init => OwnerInv
  BY InitNoConflict
  DEF Init, OwnerInv, OwnerRemains, Founded, Counted, RequestsFounded, InvitesFounded, NoRequest,
      Request, Ops, OwnerOps
<1>2. OwnerInv /\ UNCHANGED vars => OwnerInv'
  BY DEF vars, OwnerInv, NoConflict, OwnerRemains, Founded, Counted, RequestsFounded,
         InvitesFounded, Protected, NotLastOwner, IsOwner
<1>3. TypeOK /\ OwnerInv /\ [Next]_vars => OwnerInv'
  BY <1>2, OwnerStep
<1>4. OwnerInv => OwnerRemains
  BY DEF OwnerInv
<1>5. QED BY <1>1, <1>3, <1>4, TypeHolds, PTL DEF Spec
=============================================================================
