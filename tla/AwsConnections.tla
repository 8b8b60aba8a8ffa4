---------------------------- MODULE AwsConnections ----------------------------
(***************************************************************************)
(* AWS connections and accounts of one organization: the requests that     *)
(* create, verify and revoke a connection, and the circuit breaker of its  *)
(* scans (src/src/aws-service.ts; the breaker is in src/src/scan-worker.ts *)
(* and its streak in ScanOrchestrator).                                    *)
(*                                                                         *)
(* One action is one statement, one transaction, or one answer of AWS; a   *)
(* request carries what it read to its next step in call.                  *)
(***************************************************************************)
EXTENDS Naturals

CONSTANTS
  Connections,  \* AwsConnection rows that may be created
  AwsAccounts,  \* 12-digit account ids that STS may answer with
  Requests,     \* concurrent HTTP requests (bounds the model)
  Environment,  \* what may happen besides normal execution
  None          \* no connection, no account

(* AWS or a statement fails, the process dies, the circuit breaker of a    *)
(* connection's scans opens, two verifications of one connection overlap.  *)
(* "refused" belongs to the schedules that extend this module.             *)
EnvironmentKinds == {"failure", "crash", "breaker", "overlap", "refused"}

ASSUME ConnectionAssumption ==
  /\ Environment \subseteq EnvironmentKinds
  /\ None \notin Connections \union AwsAccounts

VARIABLES
  conns,     \* AwsConnection: status and awsAccountId
  accounts,  \* AwsAccount of each account id: status and connectionId
  call       \* local state of each request

connVars == <<conns, accounts, call>>

Free == [pc |-> "free", conn |-> None, seen |-> None]

ConnTypeOK ==
  /\ conns \in [Connections -> [status: {"NONE", "PENDING", "ACTIVE", "ERROR", "REVOKED"},
                                identity: AwsAccounts \union {None}]]
  /\ accounts \in [AwsAccounts -> [status: {"NONE", "ACTIVE", "REVOKED"},
                                   conn: Connections \union {None}]]
  /\ call \in [Requests -> [pc: {"free", "created", "asking", "storing", "failing"},
                            conn: Connections \union {None},
                            seen: AwsAccounts \union {None}]]
  /\ \A a \in AwsAccounts : accounts[a].status = "NONE" <=> accounts[a].conn = None
  /\ \A c \in Connections : conns[c].status = "NONE" => conns[c].identity = None
  /\ \A r \in Requests :
       /\ call[r].pc = "free" <=> call[r].conn = None
       /\ call[r].pc = "storing" => call[r].seen # None

ConnInit ==
  /\ conns = [c \in Connections |-> [status |-> "NONE", identity |-> None]]
  /\ accounts = [a \in AwsAccounts |-> [status |-> "NONE", conn |-> None]]
  /\ call = [r \in Requests |-> Free]

-----------------------------------------------------------------------------
Answer(r) == call' = [call EXCEPT ![r] = Free]
Continue(r, pc, seen) ==
  call' = [call EXCEPT ![r] = [pc |-> pc, conn |-> call[r].conn, seen |-> seen]]
SetConn(c, status, identity) ==
  conns' = [conns EXCEPT ![c] = [status |-> status, identity |-> identity]]

(* createConnection inserts the row and goes on to verify it.              *)
CreateConnection(r, c) ==
  /\ call[r] = Free
  /\ conns[c].status = "NONE"
  /\ SetConn(c, "PENDING", None)
  /\ call' = [call EXCEPT ![r] = [pc |-> "created", conn |-> c, seen |-> None]]
  /\ UNCHANGED accounts

(* verifyConnection reads the row; a revoked connection is refused here    *)
(* and nowhere else.                                                       *)
VerifyRead(r, c) ==
  /\ call[r] = Free \/ call[r] = [pc |-> "created", conn |-> c, seen |-> None]
  /\ conns[c].status # "NONE"
  /\ "overlap" \in Environment \/ \A q \in Requests \ {r} : call[q].conn # c
  /\ call' = [call EXCEPT ![r] =
                IF conns[c].status = "REVOKED" THEN Free
                ELSE [pc |-> "asking", conn |-> c, seen |-> conns[c].identity]]
  /\ UNCHANGED <<conns, accounts>>

\* Mistake: the identity stored before is not compared.
AnyIdentity(seen, a) == TRUE
SameIdentity(seen, a) == seen = None \/ seen = a

Unclaimed(c, a) == accounts[a].status = "NONE" \/ accounts[a].conn = c

(* STS answers; the account must be the one seen before and must not       *)
(* belong to another connection.                                           *)
Identify(r, a) ==
  /\ call[r].pc = "asking"
  /\ IF SameIdentity(call[r].seen, a) /\ Unclaimed(call[r].conn, a)
     THEN Continue(r, "storing", a)
     ELSE Continue(r, "failing", call[r].seen)
  /\ UNCHANGED <<conns, accounts>>

(* The provider cannot be asked, or the transaction below fails.           *)
VerificationFails(r) ==
  /\ "failure" \in Environment
  /\ call[r].pc \in {"asking", "storing"}
  /\ Continue(r, "failing", call[r].seen)
  /\ UNCHANGED <<conns, accounts>>

(* Account and connection become ACTIVE, whatever they are by now.         *)
StoreVerified(r) ==
  /\ call[r].pc = "storing"
  /\ LET c == call[r].conn
         a == call[r].seen IN
     /\ accounts' = [accounts EXCEPT ![a] = [status |-> "ACTIVE", conn |-> c]]
     /\ SetConn(c, "ACTIVE", a)
  /\ Answer(r)

RecordVerificationFailure(r) ==
  /\ call[r].pc = "failing"
  /\ LET c == call[r].conn IN
     SetConn(c, IF conns[c].status = "REVOKED" THEN "REVOKED" ELSE "ERROR", conns[c].identity)
  /\ Answer(r)
  /\ UNCHANGED accounts

\* Mistake: the accounts stay active.
RevokeNoAccount(c) == UNCHANGED accounts
RevokeAccounts(c) ==
  accounts' = [a \in AwsAccounts |->
    IF accounts[a].conn = c THEN [status |-> "REVOKED", conn |-> c] ELSE accounts[a]]

RevokeConnection(c) ==
  /\ conns[c].status # "NONE"
  /\ SetConn(c, "REVOKED", conns[c].identity)
  /\ RevokeAccounts(c)
  /\ UNCHANGED call

(* The fifth scan in a row fails: handleFailure updates the connection by  *)
(* its id.  A scan was enqueued only after a verification.                 *)
BreakerOpens(c) ==
  /\ "breaker" \in Environment
  /\ conns[c].identity # None
  /\ SetConn(c, "ERROR", conns[c].identity)
  /\ UNCHANGED <<accounts, call>>

(* Requests die with the process.                                          *)
RequestsDie == call' = [r \in Requests |-> Free]

ConnStep ==
  \/ \E r \in Requests :
       \/ \E c \in Connections : CreateConnection(r, c) \/ VerifyRead(r, c)
       \/ \E a \in AwsAccounts : Identify(r, a)
       \/ VerificationFails(r) \/ StoreVerified(r) \/ RecordVerificationFailure(r)
  \/ \E c \in Connections : RevokeConnection(c) \/ BreakerOpens(c)

ConnDies == "crash" \in Environment /\ RequestsDie /\ UNCHANGED <<conns, accounts>>

ConnNext == ConnStep \/ ConnDies

ConnSpec == ConnInit /\ [][ConnNext]_connVars

-----------------------------------------------------------------------------
(* Properties.                                                             *)

(* An account belongs to a connection that was verified as that account,   *)
(* and an active account's connection is not revoked, whichever            *)
(* connections claim an account at once: scans and discoveries are         *)
(* admitted on the two rows (verifyConnection checks before its            *)
(* transaction that nobody else has the account).                          *)
AccountsAreVerified ==
  \A a \in AwsAccounts : accounts[a].status # "NONE" =>
    LET c == accounts[a].conn IN
    /\ conns[c].identity = a
    /\ accounts[a].status = "ACTIVE" => conns[c].status \in {"ACTIVE", "ERROR"}

(* An identity that was stored is never overwritten by another, as long as *)
(* verifications of one connection do not overlap.                         *)
IdentityStands ==
  [][\A c \in Connections :
       conns[c].identity # None => conns'[c].identity = conns[c].identity]_conns

(* A revoked connection stays revoked (verifyConnection and handleFailure  *)
(* do not look at the status they overwrite).                              *)
RevocationIsFinal ==
  [][\A c \in Connections :
       conns[c].status = "REVOKED" => conns'[c].status = "REVOKED"]_conns
=============================================================================
