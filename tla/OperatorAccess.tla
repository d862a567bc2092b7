--------------------------- MODULE OperatorAccess ---------------------------
(***************************************************************************)
(* Who may do what in the Control Room, and when that is asked: the        *)
(* operator registry (identity.mjs), the sessions (authn.mjs), the         *)
(* permissions (authz.mjs) and the requests of the server that act on them *)
(* (server.mjs).                                                           *)
(*                                                                         *)
(* The registry is one file that every writer reads, changes in memory and *)
(* replaces whole by a rename.  Commands of .control-room/cli.mjs are      *)
(* processes of their own; the server writes the registry too, when a      *)
(* login stamps last_seen_at.  A request is resolved to an actor when it   *)
(* arrives and acts when its body has: between the two the server serves   *)
(* others.                                                                 *)
(***************************************************************************)
EXTENDS FiniteSets

CONSTANTS
  Operator,     \* operators there are or may be provisioned
  Role,         \* the roles in use, a subset of those defined below
  FirstAdmin,   \* the operator the registry starts with
  Cli,          \* processes running .control-room/cli.mjs
  Request,      \* POST /api/review requests being served at a time
  Absent,       \* no operator of that name in the registry
  None          \* no command, no snapshot, no request

\* ROLE_PERMISSIONS, as far as a review needs them.
RolePermissions ==
  [viewer        |-> {},
   reviewer      |-> {"request_changes"},
   approver      |-> {"request_changes", "reject", "approve"},
   administrator |-> {"request_changes", "reject", "approve", "approve_human_only"},
   operator      |-> {}]

ASSUME AccessAssumption ==
  /\ FirstAdmin \in Operator
  /\ Role \subseteq DOMAIN RolePermissions
  /\ "administrator" \in Role

VARIABLES
  registry,   \* the operators file
  command,    \* command[c]: what a grant or a revoke has looked up
  snapshot,   \* snapshot[p]: the registry p is about to write, p a command or
              \* the server
  session,    \* the operators that have a live session
  request,    \* request[q]: the actor q was resolved to
  given       \* history: given[o], the roles any command was told to give o

vars == <<registry, command, snapshot, session, request, given>>

Account == [roles : SUBSET Role, disabled : BOOLEAN]

ASSUME AbsentAssumption == Absent \notin Account

Registry == [Operator -> Account \cup {Absent}]
Permission == {"request_changes", "reject", "approve", "approve_human_only"}
Writers == Cli \cup {"server"}

TypeOK ==
  /\ registry \in Registry
  /\ command \in [Cli -> [op : Operator, roles : SUBSET Role] \cup {None}]
  /\ snapshot \in [Writers -> Registry \cup {None}]
  /\ session \subseteq Operator
  /\ request \in [Request -> [op : Operator, roles : SUBSET Role] \cup {None}]
  /\ given \in [Operator -> SUBSET Role]

-----------------------------------------------------------------------------

Active(reg) == {o \in Operator : reg[o] # Absent /\ ~reg[o].disabled}

\* The administrators that can act.
Administrators(reg) == {o \in Active(reg) : "administrator" \in reg[o].roles}

\* permissionsOf
PermissionsOf(roles) == UNION {RolePermissions[r] : r \in roles}

\* setRoles and setDisabled leave somebody able to undo what they do.
LeavesAnAdministrator(reg, o) == Administrators(reg) \ {o} # {}

\* registryRefusals lets the server start only with an administrator.
Init ==
  /\ registry = [o \in Operator |->
       IF o = FirstAdmin THEN [roles |-> {"administrator"}, disabled |-> FALSE]
                         ELSE Absent]
  /\ command = [c \in Cli |-> None]
  /\ snapshot = [p \in Writers |-> None]
  /\ session = {}
  /\ request = [q \in Request |-> None]
  /\ given = [o \in Operator |-> IF o = FirstAdmin THEN {"administrator"} ELSE {}]

-----------------------------------------------------------------------------
(***************************************************************************)
(* Commands                                                                *)
(***************************************************************************)

Idle(c) == command[c] = None /\ snapshot[c] = None

\* readRegistry, and the change made to what it returned.
Prepare(p, reg) == snapshot' = [snapshot EXCEPT ![p] = reg]

Give(o, roles) == given' = [given EXCEPT ![o] = @ \cup roles]

\* provision: an operator exists once.
Provision(c, o, r) ==
  /\ Idle(c)
  /\ registry[o] = Absent
  /\ Prepare(c, [registry EXCEPT ![o] = [roles |-> {r}, disabled |-> FALSE]])
  /\ Give(o, {r})
  /\ UNCHANGED <<registry, command, session, request>>

\* Mutant: the role is taken as it was typed, and nobody looks it up.
GrantUnknownRole(c, o, r) ==
  /\ Idle(c)
  /\ registry[o] # Absent
  /\ command' = [command EXCEPT ![c] = [op |-> o, roles |-> registry[o].roles \cup {"owner"}]]
  /\ Give(o, {r})
  /\ UNCHANGED <<registry, snapshot, session, request>>

\* grant: looks the operator up for the roles it has, and adds one.
Grant(c, o, r) ==
  /\ Idle(c)
  /\ registry[o] # Absent
  /\ command' = [command EXCEPT ![c] = [op |-> o, roles |-> registry[o].roles \cup {r}]]
  /\ Give(o, {r})
  /\ UNCHANGED <<registry, snapshot, session, request>>

\* revoke: the same, and removes one.
Revoke(c, o, r) ==
  /\ Idle(c)
  /\ registry[o] # Absent
  /\ command' = [command EXCEPT ![c] = [op |-> o, roles |-> registry[o].roles \ {r}]]
  /\ UNCHANGED <<registry, snapshot, session, request, given>>

\* setRoles reads the registry again, and refuses to take the role from the
\* last administrator.
SetRoles(c) ==
  /\ command[c] # None
  /\ LET o == command[c].op
         roles == command[c].roles
     IN  IF /\ registry[o] # Absent
            /\ "administrator" \in registry[o].roles \ roles => LeavesAnAdministrator(registry, o)
           THEN Prepare(c, [registry EXCEPT ![o].roles = roles])
           ELSE UNCHANGED snapshot
  /\ command' = [command EXCEPT ![c] = None]
  /\ UNCHANGED <<registry, session, request, given>>

\* Mutant: setDisabled disables whom it is told.
SetDisabledAnybody(c, o, disabled) ==
  /\ Idle(c)
  /\ registry[o] # Absent
  /\ Prepare(c, [registry EXCEPT ![o].disabled = disabled])
  /\ UNCHANGED <<registry, command, session, request, given>>

\* setDisabled refuses to disable the last administrator.
SetDisabled(c, o, disabled) ==
  /\ Idle(c)
  /\ registry[o] # Absent
  /\ disabled /\ "administrator" \in registry[o].roles => LeavesAnAdministrator(registry, o)
  /\ Prepare(c, [registry EXCEPT ![o].disabled = disabled])
  /\ UNCHANGED <<registry, command, session, request, given>>

\* Mutant: only the account that changed is written, onto whatever the file
\* has become.
WriteRegistryMerged(p) ==
  /\ snapshot[p] # None
  /\ \E o \in Operator :
       registry' = [registry EXCEPT ![o] = snapshot[p][o]]
  /\ snapshot' = [snapshot EXCEPT ![p] = None]
  /\ UNCHANGED <<command, session, request, given>>

\* writeRegistry: the whole file is replaced.
WriteRegistry(p) ==
  /\ snapshot[p] # None
  /\ registry' = snapshot[p]
  /\ snapshot' = [snapshot EXCEPT ![p] = None]
  /\ UNCHANGED <<command, session, request, given>>

\* A command is interrupted before its rename.
Interrupt(c) ==
  /\ ~Idle(c)
  /\ command' = [command EXCEPT ![c] = None]
  /\ snapshot' = [snapshot EXCEPT ![c] = None]
  /\ UNCHANGED <<registry, session, request, given>>

-----------------------------------------------------------------------------
(***************************************************************************)
(* The server                                                              *)
(***************************************************************************)

\* The server is not in the middle of touchOperator.
ServerFree == snapshot["server"] = None

\* A login; touchOperator has read the registry to stamp last_seen_at in it.
Login(o) ==
  /\ ServerFree
  /\ o \in Active(registry)
  /\ Prepare("server", registry)
  /\ session' = session \cup {o}
  /\ UNCHANGED <<registry, command, request, given>>

\* A logout, or a lifetime that ran out.
EndSession(o) ==
  /\ ServerFree
  /\ o \in session
  /\ session' = session \ {o}
  /\ UNCHANGED <<registry, command, snapshot, request, given>>

\* The headers of a review arrived: resolveSession, the permission of the
\* route, and then the body is awaited.
Resolve(q, o) ==
  /\ ServerFree
  /\ request[q] = None
  /\ o \in session
  /\ o \in Active(registry)
  /\ "request_changes" \in PermissionsOf(registry[o].roles)
  /\ request' = [request EXCEPT ![q] = [op |-> o, roles |-> registry[o].roles]]
  /\ UNCHANGED <<registry, command, snapshot, session, given>>

\* Mutant: what the route requires is enough for any review.
ActOnRoutePermission(q, permission) ==
  /\ ServerFree
  /\ request[q] # None
  /\ request' = [request EXCEPT ![q] = None]
  /\ UNCHANGED <<registry, command, snapshot, session, given>>

\* The body arrived, and the actor holds the permission the review needs.
Act(q, permission) ==
  /\ ServerFree
  /\ request[q] # None
  /\ permission \in PermissionsOf(request[q].roles)
  /\ request' = [request EXCEPT ![q] = None]
  /\ UNCHANGED <<registry, command, snapshot, session, given>>

\* The body arrived and the review is refused, or the connection was lost.
Drop(q) ==
  /\ ServerFree
  /\ request[q] # None
  /\ request' = [request EXCEPT ![q] = None]
  /\ UNCHANGED <<registry, command, snapshot, session, given>>

-----------------------------------------------------------------------------

Commands ==
  \E c \in Cli :
    \/ \E o \in Operator, r \in Role :
         Provision(c, o, r) \/ Grant(c, o, r) \/ Revoke(c, o, r)
    \/ SetRoles(c)
    \/ Interrupt(c)
    \/ \E o \in Operator, disabled \in BOOLEAN : SetDisabled(c, o, disabled)

Serving ==
  \/ \E o \in Operator : Login(o) \/ EndSession(o)
  \/ \E q \in Request, o \in Operator : Resolve(q, o)
  \/ \E q \in Request, permission \in Permission : Act(q, permission)
  \/ \E q \in Request : Drop(q)

Next ==
  \/ Commands
  \/ \E p \in Writers : WriteRegistry(p)
  \/ Serving

Spec == Init /\ [][Next]_vars

-----------------------------------------------------------------------------
(***************************************************************************)
(* Properties                                                              *)
(***************************************************************************)

(* The Control Room never locks itself out: whatever commands run at the   *)
(* same time, and whichever of their updates are lost, somebody active     *)
(* holds the administrator role.  Two commands may each take it from the   *)
(* other's holder; that the file is replaced whole is what saves one.      *)
AnAdministratorRemains == Administrators(registry) # {}

(* Nobody acts with a permission that no command was ever told to give     *)
(* them: lost updates, stale requests and restored accounts bring back     *)
(* what was removed and never more.                                        *)
ActsWereGiven ==
  [][\A q \in Request, permission \in Permission :
       Act(q, permission) => permission \in PermissionsOf(given[request[q].op])]_vars

(* cli.mjs says that disable removes all access and enable gives it back:  *)
(* an account that is disabled is active again only after such a command.  *)
(* A login is none: writing its last_seen_at enables nobody.               *)
ALoginEnablesNobody ==
  [][WriteRegistry("server") => Active(registry') \subseteq Active(registry)]_vars
=============================================================================
