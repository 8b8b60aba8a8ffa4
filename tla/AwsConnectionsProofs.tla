------------------------- MODULE AwsConnectionsProofs -------------------------
(***************************************************************************)
(* What holds of AWS connections for any number of connections, accounts   *)
(* and concurrent requests.  ConnInv strengthens AccountsAreVerified: a    *)
(* request that is about to store an identity still holds the one its      *)
(* connection has, because no other request verifies that connection.      *)
(***************************************************************************)
EXTENDS AwsConnections, TLAPS

(* A connection that a request is about was created.                       *)
RequestsKnowConnections ==
  \A r \in Requests : call[r].conn # None => conns[call[r].conn].status # "NONE"

(* Two requests never verify the same connection.                          *)
RequestsApart ==
  \A r, q \in Requests : r # q /\ call[r].conn # None => call[r].conn # call[q].conn

(* The identity a request has seen is still its connection's.              *)
SeenIsCurrent ==
  \A r \in Requests :
    /\ call[r].pc = "asking" => call[r].seen = conns[call[r].conn].identity
    /\ call[r].pc = "storing" => conns[call[r].conn].identity \in {None, call[r].seen}

ConnInv == /\ ConnTypeOK
           /\ RequestsKnowConnections
           /\ RequestsApart
           /\ SeenIsCurrent
           /\ AccountsAreVerified

-----------------------------------------------------------------------------
(* Initially there is no row and no request.                               *)
LEMMA ConnInitInv == ConnInit => ConnInv
  BY ConnectionAssumption
  DEF ConnInit, ConnInv, ConnTypeOK, RequestsKnowConnections, RequestsApart, SeenIsCurrent,
      AccountsAreVerified, Free

(* A step of a request or of the breaker keeps the types.                  *)
LEMMA ConnTypeStep ==
  ASSUME ConnTypeOK, ConnNext
  PROVE  ConnTypeOK'
<1> USE ConnectionAssumption DEF ConnTypeOK, Free, Continue, SetConn, Answer
<1>1. ASSUME NEW r \in Requests, NEW c \in Connections, CreateConnection(r, c)
      PROVE  ConnTypeOK'
  BY <1>1 DEF CreateConnection
<1>2. ASSUME NEW r \in Requests, NEW c \in Connections, VerifyRead(r, c)
      PROVE  ConnTypeOK'
  BY <1>2 DEF VerifyRead
<1>3. ASSUME NEW r \in Requests, NEW a \in AwsAccounts, Identify(r, a)
      PROVE  ConnTypeOK'
<2>1. CASE SameIdentity(call[r].seen, a) /\ Unclaimed(call[r].conn, a)
  <3>1. /\ Continue(r, "storing", a) /\ call[r].pc = "asking"
        /\ UNCHANGED <<conns, accounts>>
    BY <1>3, <2>1, Zenon DEF Identify
  <3>2. QED BY <3>1
<2>2. CASE ~(SameIdentity(call[r].seen, a) /\ Unclaimed(call[r].conn, a))
  <3>1. /\ Continue(r, "failing", call[r].seen) /\ call[r].pc = "asking"
        /\ UNCHANGED <<conns, accounts>>
    BY <1>3, <2>2, Zenon DEF Identify
  <3>2. QED BY <3>1
<2>3. QED
  BY <2>1, <2>2
<1>4. ASSUME NEW r \in Requests, VerificationFails(r)
      PROVE  ConnTypeOK'
  BY <1>4 DEF VerificationFails
<1>5. ASSUME NEW r \in Requests, StoreVerified(r)
      PROVE  ConnTypeOK'
  BY <1>5 DEF StoreVerified
<1>6. ASSUME NEW r \in Requests, RecordVerificationFailure(r)
      PROVE  ConnTypeOK'
  BY <1>6 DEF RecordVerificationFailure
<1>7. ASSUME NEW c \in Connections, RevokeConnection(c)
      PROVE  ConnTypeOK'
  BY <1>7 DEF RevokeConnection, RevokeAccounts
<1>8. ASSUME NEW c \in Connections, BreakerOpens(c)
      PROVE  ConnTypeOK'
  BY <1>8 DEF BreakerOpens
<1>9. ASSUME ConnDies PROVE ConnTypeOK'
  BY <1>9 DEF ConnDies, RequestsDie
<1>10. QED
  BY <1>1, <1>2, <1>3, <1>4, <1>5, <1>6, <1>7, <1>8, <1>9 DEF ConnNext, ConnStep

(* The rest of ConnInv, where verifications of a connection do not overlap.*)
LEMMA ConnInvStep ==
  ASSUME ConnInv, ConnNext, "overlap" \notin Environment
  PROVE  ConnInv'
<1>0. ConnTypeOK /\ ConnTypeOK'
  BY ConnTypeStep DEF ConnInv
<1> USE <1>0, ConnectionAssumption
    DEF ConnTypeOK, Free, Continue, SetConn, Answer,
        RequestsKnowConnections, RequestsApart, SeenIsCurrent, AccountsAreVerified
<1>a. /\ RequestsKnowConnections /\ RequestsApart /\ SeenIsCurrent /\ AccountsAreVerified
      /\ "overlap" \notin Environment
  BY DEF ConnInv
<1>b. SUFFICES /\ RequestsKnowConnections' /\ RequestsApart' /\ SeenIsCurrent'
               /\ AccountsAreVerified'
  BY DEF ConnInv
<1> HIDE DEF AccountsAreVerified
<1>1. ASSUME NEW r \in Requests, NEW c \in Connections, CreateConnection(r, c)
      PROVE  /\ RequestsKnowConnections' /\ RequestsApart' /\ SeenIsCurrent'
             /\ AccountsAreVerified'
<2>1. RequestsKnowConnections' /\ RequestsApart' /\ SeenIsCurrent'
  BY <1>1, <1>a DEF CreateConnection
<2>2. AccountsAreVerified'
  BY <1>1, <1>a DEF CreateConnection, AccountsAreVerified
<2>3. QED BY <2>1, <2>2
<1>2. ASSUME NEW r \in Requests, NEW c \in Connections, VerifyRead(r, c)
      PROVE  /\ RequestsKnowConnections' /\ RequestsApart' /\ SeenIsCurrent'
             /\ AccountsAreVerified'
<2>1. RequestsKnowConnections' /\ RequestsApart' /\ SeenIsCurrent'
  BY <1>2, <1>a DEF VerifyRead
<2>2. AccountsAreVerified'
  BY <1>2, <1>a DEF VerifyRead, AccountsAreVerified
<2>3. QED BY <2>1, <2>2
<1>3. ASSUME NEW r \in Requests, NEW a \in AwsAccounts, Identify(r, a)
      PROVE  /\ RequestsKnowConnections' /\ RequestsApart' /\ SeenIsCurrent'
             /\ AccountsAreVerified'
<2>1. RequestsKnowConnections' /\ RequestsApart' /\ SeenIsCurrent'
  <3>1. CASE SameIdentity(call[r].seen, a) /\ Unclaimed(call[r].conn, a)
    <4>1. /\ Continue(r, "storing", a) /\ call[r].pc = "asking"
          /\ UNCHANGED <<conns, accounts>>
      BY <1>3, <3>1, Zenon DEF Identify
    <4>2. call[r].seen \in {None, a}
      BY <3>1 DEF SameIdentity
    <4>3. QED BY <4>1, <4>2, <1>a
  <3>2. CASE ~(SameIdentity(call[r].seen, a) /\ Unclaimed(call[r].conn, a))
    <4>1. /\ Continue(r, "failing", call[r].seen) /\ call[r].pc = "asking"
          /\ UNCHANGED <<conns, accounts>>
      BY <1>3, <3>2, Zenon DEF Identify
    <4>2. QED BY <4>1, <1>a
  <3>3. QED BY <3>1, <3>2
<2>2. AccountsAreVerified'
  BY <1>3, <1>a DEF Identify, AccountsAreVerified
<2>3. QED BY <2>1, <2>2
<1>4. ASSUME NEW r \in Requests, VerificationFails(r)
      PROVE  /\ RequestsKnowConnections' /\ RequestsApart' /\ SeenIsCurrent'
             /\ AccountsAreVerified'
<2>1. RequestsKnowConnections' /\ RequestsApart' /\ SeenIsCurrent'
  BY <1>4, <1>a DEF VerificationFails
<2>2. AccountsAreVerified'
  BY <1>4, <1>a DEF VerificationFails, AccountsAreVerified
<2>3. QED BY <2>1, <2>2
<1>5. ASSUME NEW r \in Requests, StoreVerified(r)
      PROVE  /\ RequestsKnowConnections' /\ RequestsApart' /\ SeenIsCurrent'
             /\ AccountsAreVerified'
<2>1. RequestsKnowConnections' /\ RequestsApart' /\ SeenIsCurrent'
  BY <1>5, <1>a DEF StoreVerified
<2>2. AccountsAreVerified'
  BY <1>5, <1>a DEF StoreVerified, AccountsAreVerified
<2>3. QED BY <2>1, <2>2
<1>6. ASSUME NEW r \in Requests, RecordVerificationFailure(r)
      PROVE  /\ RequestsKnowConnections' /\ RequestsApart' /\ SeenIsCurrent'
             /\ AccountsAreVerified'
<2>1. RequestsKnowConnections' /\ RequestsApart' /\ SeenIsCurrent'
  BY <1>6, <1>a DEF RecordVerificationFailure
<2>2. AccountsAreVerified'
  BY <1>6, <1>a DEF RecordVerificationFailure, AccountsAreVerified
<2>3. QED BY <2>1, <2>2
<1>7. ASSUME NEW c \in Connections, RevokeConnection(c)
      PROVE  /\ RequestsKnowConnections' /\ RequestsApart' /\ SeenIsCurrent'
             /\ AccountsAreVerified'
<2>1. RequestsKnowConnections' /\ RequestsApart' /\ SeenIsCurrent'
  BY <1>7, <1>a DEF RevokeConnection
<2>2. AccountsAreVerified'
  <3>1. SUFFICES ASSUME NEW a \in AwsAccounts, accounts'[a].status # "NONE"
                 PROVE  /\ conns'[accounts'[a].conn].identity = a
                        /\ accounts'[a].status = "ACTIVE" =>
                             conns'[accounts'[a].conn].status \in {"ACTIVE", "ERROR"}
    BY DEF AccountsAreVerified
  <3>2. CASE accounts[a].conn = c
    <4>1. accounts'[a] = [status |-> "REVOKED", conn |-> c]
      BY <1>7, <3>2 DEF RevokeConnection, RevokeAccounts
    <4>2. accounts[a].status # "NONE" => conns[c].identity = a
      BY <1>a, <3>2 DEF AccountsAreVerified
    <4>3. conns'[c].identity = conns[c].identity
      BY <1>7 DEF RevokeConnection
    <4>4. accounts[a].status # "NONE"
      BY <3>2, ConnectionAssumption
    <4>5. QED BY <4>1, <4>2, <4>3, <4>4
  <3>3. CASE accounts[a].conn # c
    BY <1>7, <1>a, <3>1, <3>3 DEF RevokeConnection, RevokeAccounts, AccountsAreVerified
  <3>4. QED BY <3>2, <3>3
<2>3. QED BY <2>1, <2>2
<1>8. ASSUME NEW c \in Connections, BreakerOpens(c)
      PROVE  /\ RequestsKnowConnections' /\ RequestsApart' /\ SeenIsCurrent'
             /\ AccountsAreVerified'
<2>1. RequestsKnowConnections' /\ RequestsApart' /\ SeenIsCurrent'
  BY <1>8, <1>a DEF BreakerOpens
<2>2. AccountsAreVerified'
  BY <1>8, <1>a DEF BreakerOpens, AccountsAreVerified
<2>3. QED BY <2>1, <2>2
<1>9. ASSUME ConnDies
      PROVE  /\ RequestsKnowConnections' /\ RequestsApart' /\ SeenIsCurrent'
             /\ AccountsAreVerified'
  BY <1>9, <1>a DEF ConnDies, RequestsDie, AccountsAreVerified
<1>10. QED
  BY <1>1, <1>2, <1>3, <1>4, <1>5, <1>6, <1>7, <1>8, <1>9 DEF ConnNext, ConnStep

-----------------------------------------------------------------------------
(* Connections, accounts and requests keep their types in every            *)
(* environment (the rows that verifyConnection, revokeConnection and the   *)
(* circuit breaker write).                                                 *)
THEOREM ConnTypeCorrect == ConnSpec => []ConnTypeOK
<1>1. ConnInit => ConnTypeOK
  BY ConnInitInv DEF ConnInv
<1>2. ConnTypeOK /\ [ConnNext]_connVars => ConnTypeOK'
  <2>1. ASSUME ConnTypeOK, UNCHANGED connVars PROVE ConnTypeOK'
    BY <2>1 DEF connVars, ConnTypeOK
  <2>2. QED BY <2>1, ConnTypeStep
<1>3. QED BY <1>1, <1>2, PTL DEF ConnSpec

(* Where verifications of one connection do not overlap, ConnInv holds.    *)
LEMMA ConnInvHolds ==
  ASSUME "overlap" \notin Environment
  PROVE  ConnSpec => []ConnInv
<1>1. ConnInv /\ [ConnNext]_connVars => ConnInv'
  <2>1. ASSUME ConnInv, UNCHANGED connVars PROVE ConnInv'
    BY <2>1 DEF connVars, ConnInv, ConnTypeOK, RequestsKnowConnections, RequestsApart,
                SeenIsCurrent, AccountsAreVerified
  <2>2. ASSUME ConnInv, ConnNext PROVE ConnInv'
    BY <2>2, ConnInvStep
  <2>3. QED BY <2>1, <2>2
<1>2. QED BY <1>1, ConnInitInv, PTL DEF ConnSpec

(* An account belongs to a connection that was verified as that account,   *)
(* and the connection of an active account is not revoked, however many    *)
(* connections are verified, revoked and broken at once (verifyConnection, *)
(* revokeConnection, handleFailure).                                       *)
THEOREM AccountsAreVerifiedHolds ==
  ASSUME "overlap" \notin Environment
  PROVE  ConnSpec => []AccountsAreVerified
<1>1. ConnInv => AccountsAreVerified
  BY DEF ConnInv
<1>2. QED BY <1>1, ConnInvHolds, PTL
=============================================================================
