------------------------ MODULE OperatorAccessProofs ------------------------
(***************************************************************************)
(* What holds of the operator registry for every number of operators,      *)
(* commands and requests in flight.                                        *)
(***************************************************************************)
EXTENDS OperatorAccess, TLAPS

(* Type correctness of the registry and of what its writers hold of it.    *)
THEOREM TypeCorrect == Spec => []TypeOK
<1>1. Init => TypeOK
  BY AccessAssumption DEF Init, TypeOK, Registry, Account
<1>2. TypeOK /\ [Next]_vars => TypeOK'
  <2> SUFFICES ASSUME TypeOK, [Next]_vars PROVE TypeOK'
    OBVIOUS
  <2> USE DEF TypeOK
  <2>1. ASSUME NEW c \in Cli, NEW o \in Operator, NEW r \in Role, Provision(c, o, r)
        PROVE  TypeOK'
    <3>1. [registry EXCEPT ![o] = [roles |-> {r}, disabled |-> FALSE]] \in Registry
      BY DEF Registry, Account
    <3> QED
      BY <2>1, <3>1 DEF Provision, Prepare, Give, Writers
  <2>2. ASSUME NEW c \in Cli, NEW o \in Operator, NEW r \in Role,
               Grant(c, o, r) \/ Revoke(c, o, r)
        PROVE  TypeOK'
    <3>1. registry[o].roles \in SUBSET Role
      BY <2>2 DEF Grant, Revoke, Registry, Account
    <3> QED
      BY <2>2, <3>1 DEF Grant, Revoke, Give
  <2>3. ASSUME NEW c \in Cli, SetRoles(c)
        PROVE  TypeOK'
    <3> DEFINE o == command[c].op
               roles == command[c].roles
               reg == [registry EXCEPT ![o].roles = roles]
    <3>1. o \in Operator /\ roles \in SUBSET Role
      BY <2>3 DEF SetRoles
    <3>2. ASSUME registry[o] # Absent PROVE reg \in Registry
      BY <3>1, <3>2 DEF Registry, Account
    <3>3. \/ registry[o] # Absent /\ snapshot' = [snapshot EXCEPT ![c] = reg]
          \/ snapshot' = snapshot
      BY <2>3 DEF SetRoles, Prepare
    <3>4. snapshot' \in [Writers -> Registry \cup {None}]
      <4> HIDE DEF reg, o
      <4> QED
        BY <3>2, <3>3
    <3> QED
      BY <2>3, <3>4 DEF SetRoles
  <2>4. ASSUME NEW c \in Cli, Interrupt(c)
        PROVE  TypeOK'
    BY <2>4 DEF Interrupt
  <2>5. ASSUME NEW c \in Cli, NEW o \in Operator, NEW disabled \in BOOLEAN,
               SetDisabled(c, o, disabled)
        PROVE  TypeOK'
    <3>1. [registry EXCEPT ![o].disabled = disabled] \in Registry
      BY <2>5 DEF SetDisabled, Registry, Account
    <3> QED
      BY <2>5, <3>1 DEF SetDisabled, Prepare, Writers
  <2>6. ASSUME NEW p \in Writers, WriteRegistry(p)
        PROVE  TypeOK'
    BY <2>6 DEF WriteRegistry
  <2>7. ASSUME NEW o \in Operator, Login(o) \/ EndSession(o)
        PROVE  TypeOK'
    BY <2>7 DEF Login, EndSession, Prepare
  <2>8. ASSUME NEW q \in Request, NEW o \in Operator, Resolve(q, o)
        PROVE  TypeOK'
    <3>1. registry[o].roles \in SUBSET Role
      BY <2>8 DEF Resolve, Active, Registry, Account
    <3> QED
      BY <2>8, <3>1 DEF Resolve
  <2>9. ASSUME NEW q \in Request, NEW permission \in Permission, Act(q, permission)
        PROVE  TypeOK'
    BY <2>9 DEF Act
  <2>10. ASSUME NEW q \in Request, Drop(q)
         PROVE  TypeOK'
    BY <2>10 DEF Drop
  <2>11. CASE UNCHANGED vars
    BY <2>11 DEF vars
  <2> QED
    BY <2>1, <2>2, <2>3, <2>4, <2>5, <2>6, <2>7, <2>8, <2>9, <2>10, <2>11
    DEF Next, Commands, Serving
<1> QED
  BY <1>1, <1>2, PTL DEF Spec

-----------------------------------------------------------------------------
(***************************************************************************)
(* Somebody can always undo it                                             *)
(***************************************************************************)

\* Not only the file: every registry anybody is about to write has an
\* administrator in it, so it does not matter which write comes last.
EveryCopyHasAnAdministrator ==
  /\ Administrators(registry) # {}
  /\ \A p \in Writers : snapshot[p] # None => Administrators(snapshot[p]) # {}

(* The checks of setRoles and setDisabled suffice although each is made on *)
(* a copy of the registry that may be stale when it is written.            *)
THEOREM AdministratorAlways == Spec => []AnAdministratorRemains
<1>1. Init => EveryCopyHasAnAdministrator
  <2> SUFFICES ASSUME Init PROVE EveryCopyHasAnAdministrator
    OBVIOUS
  <2>1. registry[FirstAdmin] = [roles |-> {"administrator"}, disabled |-> FALSE]
    BY AccessAssumption DEF Init
  <2>2. registry[FirstAdmin] # Absent
    <3>1. registry[FirstAdmin] \in Account
      BY <2>1, AccessAssumption DEF Account
    <3> QED
      BY <3>1, AbsentAssumption
  <2> QED
    BY <2>1, <2>2, AccessAssumption DEF Init, EveryCopyHasAnAdministrator, Administrators, Active
<1>2. TypeOK /\ EveryCopyHasAnAdministrator /\ [Next]_vars => EveryCopyHasAnAdministrator'
  <2> SUFFICES ASSUME TypeOK, EveryCopyHasAnAdministrator, [Next]_vars
               PROVE  EveryCopyHasAnAdministrator'
    OBVIOUS
  <2>0. ASSUME NEW p \in Writers, NEW reg, registry' = registry,
               snapshot' = [snapshot EXCEPT ![p] = reg],
               reg # None => Administrators(reg) # {}
        PROVE  EveryCopyHasAnAdministrator'
    BY <2>0 DEF EveryCopyHasAnAdministrator, TypeOK
  <2>1. ASSUME NEW c \in Cli, NEW o \in Operator, NEW r \in Role, Provision(c, o, r)
        PROVE  EveryCopyHasAnAdministrator'
    <3> DEFINE reg == [registry EXCEPT ![o] = [roles |-> {r}, disabled |-> FALSE]]
    <3>1. \A a \in Administrators(registry) : a # o /\ reg[a] = registry[a]
      BY <2>1 DEF Provision, Administrators, Active, TypeOK, Registry
    <3>2. Administrators(reg) # {}
      BY <3>1 DEF EveryCopyHasAnAdministrator, Administrators, Active
    <3> QED
      BY <2>0, <2>1, <3>2 DEF Provision, Prepare, Writers
  <2>2. ASSUME NEW c \in Cli, SetRoles(c)
        PROVE  EveryCopyHasAnAdministrator'
    <3> DEFINE o == command[c].op
               roles == command[c].roles
               reg == [registry EXCEPT ![o].roles = roles]
    <3>1. CASE snapshot' = snapshot
      BY <2>2, <3>1 DEF SetRoles, EveryCopyHasAnAdministrator
    <3>2. ASSUME registry[o] # Absent,
                 "administrator" \in registry[o].roles \ roles => LeavesAnAdministrator(registry, o)
          PROVE  Administrators(reg) # {}
      <4>1. /\ o \in Operator
            /\ registry[o] \in Account
            /\ reg[o].roles = roles
            /\ reg[o].disabled = registry[o].disabled
            /\ reg[o] \in Account
            /\ \A a \in Operator \ {o} : reg[a] = registry[a]
        BY <2>2, <3>2 DEF SetRoles, TypeOK, Registry, Account
      <4>2. PICK a \in Administrators(registry) : a # o \/ "administrator" \in roles
        BY <3>2 DEF LeavesAnAdministrator, EveryCopyHasAnAdministrator, Administrators
      <4>3. reg[o] # Absent
        BY <4>1, AbsentAssumption
      <4> HIDE DEF reg
      <4>4. a \in Administrators(reg)
        BY <4>1, <4>2, <4>3 DEF Administrators, Active
      <4> QED
        BY <4>4
    <3>3. \/ /\ registry[o] # Absent
             /\ "administrator" \in registry[o].roles \ roles => LeavesAnAdministrator(registry, o)
             /\ snapshot' = [snapshot EXCEPT ![c] = reg]
          \/ snapshot' = snapshot
      BY <2>2 DEF SetRoles, Prepare
    <3> HIDE DEF reg
    <3> QED
      BY <2>0, <2>2, <3>1, <3>2, <3>3 DEF SetRoles, Writers
  <2>3. ASSUME NEW c \in Cli, NEW o \in Operator, NEW disabled \in BOOLEAN,
               SetDisabled(c, o, disabled)
        PROVE  EveryCopyHasAnAdministrator'
    <3> DEFINE reg == [registry EXCEPT ![o].disabled = disabled]
    <3>1. /\ registry[o] \in Account
          /\ reg[o].roles = registry[o].roles
          /\ reg[o].disabled = disabled
          /\ reg[o] \in Account
          /\ \A a \in Operator \ {o} : reg[a] = registry[a]
      BY <2>3 DEF SetDisabled, TypeOK, Registry, Account
    <3>2. PICK a \in Administrators(registry) : a # o \/ ~disabled
      BY <2>3 DEF SetDisabled, LeavesAnAdministrator, EveryCopyHasAnAdministrator, Administrators
    <3>3. reg[o] # Absent
      BY <3>1, AbsentAssumption
    <3> HIDE DEF reg
    <3>4. a \in Administrators(reg)
      BY <3>1, <3>2, <3>3 DEF Administrators, Active
    <3> QED
      BY <2>0, <2>3, <3>4 DEF SetDisabled, Prepare, Writers, reg
  <2>4. ASSUME NEW p \in Writers, WriteRegistry(p)
        PROVE  EveryCopyHasAnAdministrator'
    BY <2>4 DEF WriteRegistry, EveryCopyHasAnAdministrator, TypeOK
  <2>5. ASSUME NEW o \in Operator, Login(o)
        PROVE  EveryCopyHasAnAdministrator'
    BY <2>0, <2>5 DEF Login, Prepare, EveryCopyHasAnAdministrator, Writers
  <2>6. ASSUME NEW c \in Cli, Interrupt(c)
        PROVE  EveryCopyHasAnAdministrator'
    BY <2>0, <2>6 DEF Interrupt, Writers
  <2>7. ASSUME registry' = registry, snapshot' = snapshot
        PROVE  EveryCopyHasAnAdministrator'
    BY <2>7 DEF EveryCopyHasAnAdministrator
  <2>8. ASSUME \/ \E c \in Cli, o \in Operator, r \in Role : Grant(c, o, r) \/ Revoke(c, o, r)
               \/ \E o \in Operator : EndSession(o)
               \/ \E q \in Request, o \in Operator : Resolve(q, o)
               \/ \E q \in Request, permission \in Permission : Act(q, permission)
               \/ \E q \in Request : Drop(q)
               \/ UNCHANGED vars
        PROVE  EveryCopyHasAnAdministrator'
    BY <2>7, <2>8 DEF Grant, Revoke, EndSession, Resolve, Act, Drop, vars
  <2> QED
    BY <2>1, <2>2, <2>3, <2>4, <2>5, <2>6, <2>8 DEF Next, Commands, Serving
<1>3. EveryCopyHasAnAdministrator => AnAdministratorRemains
  BY DEF EveryCopyHasAnAdministrator, AnAdministratorRemains
<1> QED
  BY <1>1, <1>2, <1>3, TypeCorrect, PTL DEF Spec

-----------------------------------------------------------------------------
(***************************************************************************)
(* Nothing comes from nowhere                                              *)
(***************************************************************************)

\* The roles in a registry are roles some command was told to give.
Given(reg) == \A o \in Operator : reg[o] # Absent => reg[o].roles \subseteq given[o]

\* So are those in every copy, command and request.
EverythingWasGiven ==
  /\ Given(registry)
  /\ \A p \in Writers : snapshot[p] # None => Given(snapshot[p])
  /\ \A c \in Cli : command[c] # None => command[c].roles \subseteq given[command[c].op]
  /\ \A q \in Request : request[q] # None => request[q].roles \subseteq given[request[q].op]

(* A larger history gives no less.                                         *)
LEMMA GivenGrows ==
  ASSUME TypeOK, TypeOK', EverythingWasGiven,
         \A o \in Operator : given[o] \subseteq given'[o]
  PROVE  /\ \A reg : Given(reg) => (\A o \in Operator :
                reg[o] # Absent => reg[o].roles \subseteq given'[o])
         /\ \A c \in Cli : command[c] # None => command[c].roles \subseteq given'[command[c].op]
         /\ \A q \in Request : request[q] # None => request[q].roles \subseteq given'[request[q].op]
<1>1. \A reg : Given(reg) => (\A o \in Operator : reg[o] # Absent => reg[o].roles \subseteq given'[o])
  BY DEF Given
<1>2. \A c \in Cli : command[c] # None => command[c].roles \subseteq given'[command[c].op]
  BY DEF EverythingWasGiven, TypeOK
<1>3. \A q \in Request : request[q] # None => request[q].roles \subseteq given'[request[q].op]
  BY DEF EverythingWasGiven, TypeOK
<1> QED
  BY <1>1, <1>2, <1>3

(* Whatever updates are lost and however stale a request is, nobody acts   *)
(* with a permission no command was told to give them.                     *)
THEOREM ActsAreGiven == Spec => ActsWereGiven
<1>1. Init => EverythingWasGiven
  BY DEF Init, EverythingWasGiven, Given
<1>2. TypeOK /\ TypeOK' /\ EverythingWasGiven /\ [Next]_vars => EverythingWasGiven'
  <2> SUFFICES ASSUME TypeOK, TypeOK', EverythingWasGiven, [Next]_vars
               PROVE  EverythingWasGiven'
    OBVIOUS
  <2> DEFINE GivenNext(reg) == \A o \in Operator : reg[o] # Absent => reg[o].roles \subseteq given'[o]
  <2>0. \A reg : Given(reg)' <=> GivenNext(reg)
    BY DEF Given
  <2>1. ASSUME NEW c \in Cli, NEW o \in Operator, NEW r \in Role, Provision(c, o, r)
        PROVE  EverythingWasGiven'
    <3> DEFINE reg == [registry EXCEPT ![o] = [roles |-> {r}, disabled |-> FALSE]]
    <3>1. r \in given'[o] /\ \A a \in Operator : given[a] \subseteq given'[a]
      BY <2>1 DEF Provision, Give, TypeOK
    <3>2. \A a \in Operator : reg[a] # Absent =>
            IF a = o THEN reg[a].roles = {r} ELSE reg[a] = registry[a]
      BY DEF TypeOK, Registry
    <3> HIDE DEF reg
    <3>3. GivenNext(reg)
      BY <3>1, <3>2 DEF EverythingWasGiven, Given
    <3>4. /\ snapshot' = [snapshot EXCEPT ![c] = reg]
          /\ UNCHANGED <<registry, command, request>>
      BY <2>1 DEF Provision, Prepare, reg
    <3>5. \A p \in Writers : snapshot'[p] # None => GivenNext(snapshot'[p])
      BY <3>1, <3>3, <3>4, GivenGrows DEF EverythingWasGiven, TypeOK
    <3> QED
      BY <3>1, <3>4, <3>5, GivenGrows DEF EverythingWasGiven, Given
  <2>2. ASSUME NEW c \in Cli, NEW o \in Operator, NEW r \in Role, Grant(c, o, r)
        PROVE  EverythingWasGiven'
    <3>1. r \in given'[o] /\ \A a \in Operator : given[a] \subseteq given'[a]
      BY <2>2 DEF Grant, Give, TypeOK
    <3>2. registry[o].roles \cup {r} \subseteq given'[o]
      BY <2>2, <3>1 DEF Grant, EverythingWasGiven, Given
    <3>3. /\ command' = [command EXCEPT ![c] = [op |-> o, roles |-> registry[o].roles \cup {r}]]
          /\ UNCHANGED <<registry, snapshot, request>>
      BY <2>2 DEF Grant
    <3>4. \A d \in Cli : command'[d] # None => command'[d].roles \subseteq given'[command'[d].op]
      BY <3>1, <3>2, <3>3, GivenGrows DEF TypeOK
    <3> QED
      BY <3>1, <3>3, <3>4, GivenGrows DEF EverythingWasGiven, Given
  <2>3. ASSUME NEW c \in Cli, NEW o \in Operator, NEW r \in Role, Revoke(c, o, r)
        PROVE  EverythingWasGiven'
    <3>1. registry[o].roles \ {r} \subseteq given[o]
      BY <2>3 DEF Revoke, EverythingWasGiven, Given
    <3> QED
      BY <2>3, <3>1 DEF Revoke, EverythingWasGiven, Given, TypeOK
  <2>4. ASSUME NEW c \in Cli, SetRoles(c)
        PROVE  EverythingWasGiven'
    <3> DEFINE o == command[c].op
               reg == [registry EXCEPT ![o].roles = command[c].roles]
    <3>1. o \in Operator /\ command[c].roles \subseteq given[o]
      BY <2>4 DEF SetRoles, EverythingWasGiven, TypeOK
    <3>2. ASSUME registry[o] # Absent PROVE Given(reg)
      <4>1. reg[o].roles = command[c].roles /\ \A a \in Operator \ {o} : reg[a] = registry[a]
        BY <3>1, <3>2 DEF TypeOK, Registry, Account
      <4> HIDE DEF reg, o
      <4> QED
        BY <3>1, <4>1 DEF EverythingWasGiven, Given
    <3>3. /\ \/ registry[o] # Absent /\ snapshot' = [snapshot EXCEPT ![c] = reg]
             \/ snapshot' = snapshot
          /\ command' = [command EXCEPT ![c] = None]
          /\ UNCHANGED <<registry, request, given>>
      BY <2>4 DEF SetRoles, Prepare
    <3> HIDE DEF reg, o
    <3>4. \A p \in Writers : snapshot'[p] # None => Given(snapshot'[p])
      BY <3>2, <3>3 DEF EverythingWasGiven, TypeOK
    <3> QED
      BY <3>3, <3>4 DEF EverythingWasGiven, Given, TypeOK
  <2>5. ASSUME NEW c \in Cli, NEW o \in Operator, NEW disabled \in BOOLEAN,
               SetDisabled(c, o, disabled)
        PROVE  EverythingWasGiven'
    <3> DEFINE reg == [registry EXCEPT ![o].disabled = disabled]
    <3>1. reg[o].roles = registry[o].roles /\ \A a \in Operator \ {o} : reg[a] = registry[a]
      BY <2>5 DEF SetDisabled, TypeOK, Registry, Account
    <3>2. registry[o] # Absent /\ snapshot' = [snapshot EXCEPT ![c] = reg]
          /\ UNCHANGED <<registry, command, request, given>>
      BY <2>5 DEF SetDisabled, Prepare
    <3> HIDE DEF reg
    <3>3. Given(reg)
      BY <3>1, <3>2 DEF EverythingWasGiven, Given
    <3> QED
      BY <3>2, <3>3 DEF EverythingWasGiven, Given, TypeOK
  <2>6. ASSUME NEW p \in Writers, WriteRegistry(p)
        PROVE  EverythingWasGiven'
    BY <2>6 DEF WriteRegistry, EverythingWasGiven, Given, TypeOK
  <2>7. ASSUME NEW o \in Operator, Login(o)
        PROVE  EverythingWasGiven'
    BY <2>7 DEF Login, Prepare, EverythingWasGiven, Given, TypeOK
  <2>8. ASSUME NEW q \in Request, NEW o \in Operator, Resolve(q, o)
        PROVE  EverythingWasGiven'
    <3>1. registry[o].roles \subseteq given[o]
      BY <2>8 DEF Resolve, Active, EverythingWasGiven, Given
    <3> QED
      BY <2>8, <3>1 DEF Resolve, EverythingWasGiven, Given, TypeOK
  <2>9. ASSUME NEW q \in Request, NEW permission \in Permission, Act(q, permission)
        PROVE  EverythingWasGiven'
    BY <2>9 DEF Act, EverythingWasGiven, Given, TypeOK
  <2>10. ASSUME NEW c \in Cli, Interrupt(c)
         PROVE  EverythingWasGiven'
    BY <2>10 DEF Interrupt, EverythingWasGiven, Given, TypeOK
  <2>11. ASSUME NEW q \in Request, Drop(q)
         PROVE  EverythingWasGiven'
    BY <2>11 DEF Drop, EverythingWasGiven, Given, TypeOK
  <2>12. ASSUME (\E o \in Operator : EndSession(o)) \/ UNCHANGED vars
         PROVE  EverythingWasGiven'
    BY <2>12 DEF EndSession, vars, EverythingWasGiven, Given
  <2> QED
    BY <2>1, <2>2, <2>3, <2>4, <2>5, <2>6, <2>7, <2>8, <2>9, <2>10, <2>11, <2>12
    DEF Next, Commands, Serving
<1>3. TypeOK /\ EverythingWasGiven =>
        \A q \in Request, permission \in Permission :
          Act(q, permission) => permission \in PermissionsOf(given[request[q].op])
  BY DEF Act, EverythingWasGiven, PermissionsOf
<1>4. TypeOK /\ EverythingWasGiven =>
        [\A q \in Request, permission \in Permission :
           Act(q, permission) => permission \in PermissionsOf(given[request[q].op])]_vars
  BY <1>3
<1> QED
  BY <1>1, <1>2, <1>4, TypeCorrect, PTL DEF Spec, ActsWereGiven
=============================================================================
