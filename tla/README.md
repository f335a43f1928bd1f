# mockway in TLA+

mockway is a stateful mock of the Scaleway APIs: an HTTP server in Go whose
handlers keep every resource as a row of one SQLite database. These modules
model what its handlers do to that database, statement by statement, check it
with TLC on small instances, and prove the central invariants with TLAPS for
any number of clients and resources.

Source paths below are relative to the repository; `repository.go` is
`repository/repository.go`.

## 1. The system

### Components

| Component | State it keeps | Operations | Modelled in |
|---|---|---|---|
| Schema and foreign keys (`repository.go`, `init`) | the tables and the references between them | INSERT, UPDATE, DELETE of a row; ON DELETE NO ACTION, CASCADE, SET NULL | `ForeignKeys`, `Schema` |
| Repository helpers, error mapping (`repository.go`, `handlers/handlers.go`) | none of their own | `insertJSON`, `createSimple`, `deleteBy`, `updateJSONByID`, mapping of SQL errors to 404 and 409 | `Handlers` |
| Instance API (`handlers/instance.go`) | servers, flexible IPs, private NICs, security groups, volumes | create, update, power actions, attach, delete; rules of groups | `InstanceService`; standalone volumes in `Resources`, documents of groups in `SecurityGroupRules` |
| Load Balancer API (`handlers/lb.go`, `handlers/lb_acl.go`) | load balancers, IPs, frontends, backends, private-network attachments, ACLs, routes, certificates | create, update, attach, delete | `LoadBalancer` |
| Admin state (`handlers/admin.go`) | `r.db` and its pragma, the snapshot file, the `.restore` copy | reset, snapshot, restore, dump | `AdminState`; the DELETEs of a reset over all tables in `ResetTables`, the dumps in `StateDump` |
| Start-up and migration (`New`, `init`, `migrate`) | the database file, `schema_versions` | open, create tables, rebuild tables | `SchemaMigration` |
| VPC API (`handlers/vpc.go`) | VPCs, private networks, routes, public gateways, gateway networks | create, patch, delete; moving a network | `Resources` |
| Managed Database API (`handlers/rdb.go`) | instances with endpoints, databases, users, privileges, ACL rules, replicas, snapshots, backups | create, update, delete; lists inside documents | `RdbService` |
| IAM API (`handlers/iam.go`) | applications, API keys, policies, rules, users, groups and their members, SSH keys | create, update, delete; rules and members replaced as lists | `IamService` |
| Kubernetes, Block, IPAM, Registry (`handlers/k8s.go`, `block.go`, `ipam.go`, `registry.go`) | rows of their tables | create, patch, upgrade, delete | `Resources` |
| Redis API (`handlers/redis.go`) | clusters with lists of rules, endpoints and settings in their documents | create, patch, migrate, delete; replace a list, delete an endpoint | `Redis` |
| Domains and DNS API (`handlers/domain.go`) | zones and records | create, patch, delete zones; patch the records of a zone | `DnsZones` |
| Marketplace | labels of images | look-ups | no: nothing changes that a property could be about |
| HTTP plumbing (`cmd/mockway`, routing, auth header, echo mode, 501 handler) | none | | no: only the status an error is mapped to matters |

### How they interact

`net/http` runs each request in a goroutine. A handler decodes the body, calls
one or a few methods of `Repository` and answers. There is no lock anywhere.
The pool has one connection (`openDB`, `SetMaxOpenConns(1)`), so a single
statement is atomic, and so is a transaction (`DeleteServer`,
`DeleteSecurityGroup`, `DeleteLB`); between two statements of a handler every
other handler may run. A resource is a row: a few SQL columns that the foreign
keys know, and a JSON document that clients see. Most updates read the
document, patch it in Go and write document and columns back.

The services meet in the tables they share (private networks belong to VPC and
are referred to by NICs, load balancers and gateways) and in `r.db`, which
`Restore` closes and replaces, and whose foreign-key pragma `Reset` switches
off, under the feet of everyone else. State dumps read the tables of all
services, one after the other.

### What is hard

* Check-then-act over several statements: attaching an IP, deleting an IP,
  creating a route.
* Stale documents: what an update writes back was read before others detached,
  deleted or changed it.
* Two copies of one fact, a column and a field of the document, kept equal by
  hand (security groups of servers, servers of IPs, the VPC of a network, the
  cluster of a pool).
* References no foreign key declares: the zone of a DNS record.
* Lists inside documents, each changed by reading and writing the whole document.
* Dumps that read many tables without a transaction while others write.
* Requests of several statements that fail half-way, outside a transaction.
* Reset and restore, which change the connection everyone uses, and the file
  behind it, while requests run; crashes in between.
* The migration, which drops and renames tables statement by statement and may
  be killed anywhere.

### What makes each component correct

* Foreign keys: no row refers to a missing row after any statement.
* Instance: references stay live under every interleaving; the document of an
  IP agrees with its column and names a server that exists; a late update never
  brings a deleted row back. With one request at a time:
  creating a server takes only free IPs and attaches all of them or none; the
  group in a server's document is the one its column refers to.
* Load Balancer: nothing outlives what it hangs below; a deleted load balancer
  releases the IPs of its zone. As long as the bodies of updates name no parent of
  a row, routes stay within one load balancer and an update never meets a broken
  reference. With one request at a time, `CreateLB` takes no IP in use, and
  `DeleteLBIP` deletes none (a PATCH may move one).
* Managed Database: nothing outlives its instance; the privileges of an instance
  are always the whole list of one request; with one request at a time, an
  endpoint enters its instance's list by its own creation only, on a network that
  exists, and leaves it by its own deletion only.
* IAM: references stay live, and so do the applications that documents name; a
  policy is created with its rules or not at all; with one request at a time, one
  that fails changes nothing.
* VPC, Kubernetes, Block and the other plain services: what a row or its document
  refers to exists, also after a patch that moves it; DNS: a patch stays within its
  zone and, with one request at a time, records have their zone; Redis and security
  groups: a request about one list leaves the others alone.
* Dumps: a resource is shown together with what it refers to, unless that was
  created while the dump was taken, or is a network of a NIC, which is read after
  the NICs and may have gone by then. What the document of a server says of its
  security group is excepted: it can name one that is gone for good.
* Admin: after reset and restore foreign keys are enforced again; reset wipes
  every table and leaves no row without its parent wherever it is cut short;
  restore brings back the snapshot there is, as it was taken, unless the process
  was killed while taking it; every admin request is answered.
* Migration: no row is lost wherever the process dies, the server runs on
  migrated tables only, and a start that is not cut short comes up.

## 2. The modules

```
ForeignKeys          tables as functions, SQLite's referential actions as operators
  Schema             the references of all tables of init
    Handlers         db, issued, req: handlers in progress on one database
      InstanceService    -> InstanceProperties     -> MCInstance
      LoadBalancer       -> LoadBalancerProperties -> MCLoadBalancer
      RdbService         -> RdbProperties          -> MCRdb
      IamService         -> IamProperties          -> MCIam
      Resources          plain rows: VPC, Kubernetes, Block, IPAM, Registry
        ListDocuments    lists inside documents
          Redis, SecurityGroupRules
        DnsZones
          Services (all of these) -> ServiceProperties -> MCServices
      AdminState         -> AdminProperties        -> MCAdmin
    WholeSchema          every table of init, and any request as statements on them
      StateDump, ResetTables                       -> MCWholeSchema
ReferentialStore     what a service promises about references: LoadBalancer, RdbService,
                     IamService and Services implement it
ForeignKeysProofs    what the operators preserve and leave as it is (lemmas)
  InstanceProofs, LoadBalancerProofs, RdbProofs, IamProofs, ServiceProofs, AdminProofs
                     theorems; each extends the MC module of its service
SchemaMigration      -> MigrationProperties -> MCMigration
StorageProofs        theorems about SchemaMigration, ReferentialStore, StateDump, ResetTables
```

**Tables.** A database is a function from table names to tables, a table a
function from ids to rows, a row a record. `ForeignKeys` states what an INSERT,
UPDATE and DELETE do under a set of foreign keys: `RowOK` (the references of a
row exist or are NULL), `Blocked` (a NO ACTION reference forbids the DELETE),
`Doomed` and `ClearedRow` (CASCADE and SET NULL). `Schema` lists the keys of
`init`, and assumes, checked on every run, that no cascade starts another one,
which is what lets `DeleteRow` follow cascades one level deep.

**Handlers.** `req[c]` is the goroutine that serves client `c`: the statement
it is at and its local variables, or the status of its last answer. One action
is one statement, or one transaction, with the Go code up to the next one; a
value read by one statement travels in `req[c]` to the next, where it may be
stale. `issued` are the uuids handed out: `newID` never repeats one, so a
deleted id does not come back.

**InstanceService.** `BeginCreateServer`, `CheckPublicIP`, `InsertServer`,
`AttachRead`, `AttachWrite` are the statements of `CreateServer`; `ReadServer`,
`CheckGroup`, `WriteServer` those of `UpdateServer`; `ServerAction`,
`Terminate`, `ReadServerState`, `WriteServerState` those of the power actions;
`ReadIP`, `WriteIP` those of `UpdateIP`; `DeleteInstanceVolume`, which lists
the servers and writes one document back, continues with `WriteServerState`,
the same UPDATE; the rest take one. Of a server's
document the model keeps the security group and the power state ("stopped"
stands for "stopped in place" as well), of an IP's the server. A JSON `""` and
`null` are both `Null`. A server created without a group shows an invented
group id in its document (`Placeholder`), without a column.

**LoadBalancer.** `CheckLBIP`, `InsertLB`, `AttachLBIP`, `WriteBack` are
`CreateLB`; `CheckLBIPDetached`, `DeleteLBIP` are `DeleteLBIP`;
`CheckRouteFrontend`, `CheckRouteBackend` are the look-ups creation and update
of a route share; `WriteBack` is the UPDATE at the end of every update. Of bodies
only references are kept. An update merges whatever fields its body has: the
OpenAPI descriptions in `specs/` give the bodies of updates no `lb_id` and no
`frontend_id`, but the code takes them. The constant `Moves` are the ids that
bodies name there; with `Moves = {}` clients keep to the description. A route can
leave its load balancer through such a body: `UpdateLBRoute` looks the new frontend
up and keeps the old `lb_id`. Zones stand for the `{zone}` or `{region}` of the
path, both of which the API is served under; a body that names a row's scope is
left out.

**RdbService.** Endpoints are a set inside an instance's row, ACL rules a set of
addresses, privileges rows under (instance, user, database). `BeginCreateEndpoint`,
`CheckEndpointNetwork`, `WriteDoc` are `CreateRDBEndpoint`; `BeginDeleteACLs`,
`DeleteAllACLs`, `DeleteSomeACLs`, `ReadACLs`, `WriteACLs` are `DeleteRDBACLs`;
`BeginSetPrivileges` and the transaction `SetPrivileges` are `SetRDBPrivileges`;
every `Read...`/`Write...` pair is an update. Bodies of `DeleteRDBACLs` carry the
field the handler reads or the one the OpenAPI description names. A patch of a
snapshot or a backup may name another instance; one of an instance that replaces
its whole list of endpoints, which the description does not have, is left out.
Replicas, snapshots and backups share the actions that are the same for them
(`CopyTables`).

**IamService.** `CreatePolicy` and, per rule, `InsertRule` are the statements of
`CreateIAMPolicy`; `ReadKey` and `ReadPolicy` with `WriteRow` are the updates that
keep document and column in step; `SetRules` and `SetMembers` are transactions;
`ReadGroup` is the look-up that ends each operation on a group, which can fail
when the group has just been deleted. An update of an API key or a policy merges
whatever its body has, so it may name another application or, for a policy, none;
what it says of a user or group of a policy nothing looks at.

**Resources.** Most services do the same few things to their rows, and the module
names these shapes once: `Create` (one INSERT under a new id), `Patch` (read
the document, merge the patch) with `WriteRow` (write document and columns, or
be refused), `Delete`, `ReadAndDelete` for the handlers that answer with what
they deleted, `Look`. An operation is a shape with a table and the references its
body may carry. A document is a record of its references; a patch has any of its
fields. An empty reference is refused by a create like a missing one, except for
the network of a cluster; by an UPDATE it is refused where the column is NOT
NULL (`EmptyRequired`), which SQLite reports as an error that is none of the
mapped ones. The deletion of a block volume asks three tables in turn.

**ListDocuments, Redis, SecurityGroupRules.** A list in a document is replaced by
reading the document (`Rewrite`) and writing it (`WriteLists`); of a list the
model keeps which of some contents it has. A Redis endpoint is its id; an
endpoint that a client sends without one gets one from `CreateRedisCluster` and
from nobody else. `"id": null` in the endpoint of a create is not modelled.

**DnsZones.** A zone is a row under its name, which can come back, unlike an id.
`PatchDomainRecords` is a list of changes in `req[c].todo`: `AddRecord`,
`DeleteRecord`, and `MatchRecords`, `ListRecords`, `DeleteMatched` for the first
half of a "set", whose second half adds records. An error of `ListDomainRecords`
inside a "set" is dropped by the code, and so by the model.

**WholeSchema.** Dumps and resets pass over the tables of all services, so their
modules have all 44, with rows that are only their foreign-key columns. A request,
of whatever service, is `Statement`: an INSERT, UPDATE or DELETE that the foreign keys
accept. That is more than the handlers do (UNIQUE and composite keys, and what
handlers check first, rule statements out), so what holds here holds for them.

**StateDump.** `order` are the tables the dump being taken reads, in the order of the
source (`FullOrder`, or one of `ServiceOrders`), `pos` how many of them it has read,
`seen` what it has read; `came` and `gone` remember the rows inserted and deleted since
it began. Dumps show documents; the model has columns, and that documents say what
columns say is a property of the services (for servers and their groups it fails, see
`Instance_group_race`). The members of all groups are read in one step.

**ResetTables.** `ResetOrder` is the list of the source; `ClearTable` is one DELETE,
`Abandon` a kill or a DELETE that fails. Requests come between two resets: what they can
do meanwhile, and what happens to the connection and the snapshot, is in `AdminState`.

**ReferentialStore.** The abstract specification: resources appear, change what
they refer to, and disappear, one in each step, with what goes with them, and
nothing ever refers to something that is not there. It knows no statements,
handlers or answers. The refinement mapping of a service is the content of its
foreign-key columns: `rows <- ReferencesIn(Keys, db)` where rows have other columns,
`db` itself, restricted to `ResourceTables`, in `ServiceProperties`; `Owns`, `Detaches`
and `Blocks` are the keys declared CASCADE, SET NULL and NO ACTION. Every step of a handler
is one step of the store or leaves it as it is. `Listed` are the
references whose children a transaction replaces all at once (privileges of an
instance, ACL rules, rules of a policy, members of a group).

**AdminState.** `handle` is `r.db` (open or not, connected, on the current
file or on one that a rename replaced, foreign keys on or off, held by a
VACUUM), `file`, `snapshot` and `copy` are the three files, and a file that
VACUUM INTO, or a restore, is still writing can be read as empty or broken. VPCs and
private networks stand for all tables. `CopySnapshot` reads the snapshot and begins the
copy, `EndCopy` completes it; a restore whose unfinished copy another one took away
leaves that one's file alone (in the code it would go on writing into it). `Crash` kills
the process and starts it again, on the file it had or, for a database in memory, on a
new one. Recovery by SQLite of a transaction that was under way is not modelled, since
every statement is atomic here.

**SchemaMigration.** `N` tables of an older version (the code has four), each
rebuilt by create, fill, drop and rename; the file is new or has any subset of
the old tables; the process may die between any two statements.

Definitions with a comment that begins with "Faulty" are variants of the
operator that follows them, with one plausible bug each. No specification uses
them: they serve to test that a property would notice the bug.

## 3. What the runs show

There is one run per service, one for all the plain ones, and one for what passes over
the whole schema. The MC module of a service restricts the specification with
variables that are chosen once and never change: `active`, the clients that send
requests, and for the admin operations `acting`, those of them that send admin
requests. When one client is active (`Serial`), requests come one at a time; a
property whose name begins with `Serial` is claimed for these behaviours only,
one that begins with `OneAdmin` for those with one acting client.

| Run | Instance | Shows |
|---|---|---|
| `Instance` | 2 clients, 2 servers, 2 IPs, 2 groups, a NIC, a network | under every interleaving `TypeOK`, `ReferencesAreLive`, `IpDocumentsAreLive`, `OnlyCreatesAddRows`; one request at a time `SerialCreatesTakeTheirIPs`, `SerialGroupDocumentsMatchColumn` |
| `LoadBalancers` | 2 clients, 2 lbs, 2 IPs, 2 backends, 2 zones, one of everything else; updates that name any parent, or none (`inPlace`) | under every interleaving `LbTypeOK`, `LbKeepsReferences`, `DeletedLBsReleaseTheirIPs`; where updates name no parent `InPlaceUpdatesFindTheirReferences`, `InPlaceRoutesStayWithinOneLb`; one request at a time `SerialLBIPsInUseAreKept` |
| `Rdb` | 2 clients, 2 instances, 2 endpoints, 2 users, 2 rules, 2 copies, a database, a network | under every interleaving `RdbTypeOK`, `RdbKeepsReferences`, `PrivilegesAreReplacedAtOnce`; one request at a time `SerialEndpointsComeAndGoOneByOne` |
| `Iam` | 2 clients, 2 applications, 2 policies, 3 rules, 2 users, a group, an API key, an SSH key | under every interleaving `IamTypeOK`, `IamKeepsReferences`, `IamDocumentsAreLive`, `NoHalfCreatedPolicies`; one request at a time `SerialErrorsLeaveNoTrace` |
| `Services` | 2 clients, 4 ids (3 for two clients at once, 2 where requests carry lists), 2 zones, 2 kinds of records, patches of 2 changes | under every interleaving `ServicesTypeOK`, `ServicesKeepReferences`, `DocumentsNameLiveRows`, and the half of `RequestsChangeWhatTheyName` about DNS; one request at a time `SerialRecordsHaveTheirZone` and the half about lists |
| `Admin` | 2 clients, 2 VPCs, a network, one kill | two admins: `AdminTypeOK`, `AdminRequestsAreAnswered`; one admin: `OneAdminKeepsEnforcement`, `OneAdminRestoresTheSnapshot`; one request at a time: `SerialNetworksHaveTheirVpc`, `SerialResetWipesAllState`, `SerialRestoreBringsSnapshotBack` |
| `Whole_schema` | 44 tables, 2 keys; dumps during which up to 2 rows come and go, resets that are finished or abandoned | `DumpsAreClosed`; `ResetLeavesNoOrphans`, `ResetForgetsNoTable` |
| `Migration` | 3 tables, 2 rows, 2 kills | `MigrationTypeOK`, `NoRowIsLost`, `ServesMigratedTables`, `StartComesUp` |

Runs that end in a violation, each with the comment or document of the
repository it contradicts:

| Run | What the code does | What the repository says |
|---|---|---|
| `Instance_ip_race` | two concurrent creates find the same IP free and both succeed, the second taking it from the first; nobody patches the IP (`UnpatchedSpec`) | "Reject if the IP is already attached to another server." (`repository.go:1179`) |
| `Instance_group_race` | an update of a server that races the deletion of its group leaves a document that names it | "Reconcile security_group and security_group_id ..." (`repository.go:2820`) |
| `Rdb_acls` | one client: a DELETE of some ACL rules, with the field name the API description requires, deletes all rules | "Delete one or more ACL rules of a Database Instance." (`specs/scaleway.rdb.v1.Api.yml:3080`) |
| `Admin_restore_race` | the loser of two concurrent restores leaves a database without foreign keys | "PRAGMA foreign_keys = ON" (`README.md:46`) |

`LbKeepsReferences`, `RdbKeepsReferences`, `IamKeepsReferences` and
`ServicesKeepReferences` are each `Store!Spec`, the specification of
`ReferentialStore` under the mapping of the service: TLC checks that the service
implements it.

A reset switches foreign keys off for everyone: a network created meanwhile for a
VPC that is about to go outlives it, and so `SerialNetworksHaveTheirVpc` is claimed
for one request at a time. A zone that is deleted while its records are patched leaves
records behind that a zone of the same name would inherit, hence
`SerialRecordsHaveTheirZone`.

`DeleteLB` compares zones before references: an IP that was reserved under a region and
attached to a load balancer created under a zone keeps naming it after it is deleted, and
can be neither reused nor deleted. `DeletedLBsReleaseTheirIPs` is about the IPs of the load
balancer's own zone; that it fails for others takes one client and no race.

The lists of the Managed Database API lose updates when two handlers overlap,
but no document promises otherwise: those properties too are stated for one
request at a time. The race of `Instance_ip_race` exists for load balancers too (`CreateLB`, and an
IP attached between the look-up and the DELETE of `DeleteLBIP`); that is why the
properties about their IPs are stated for one request at a time. Likewise a
restore that overlaps a snapshot can copy a file that `VACUUM INTO` has not
finished, and `OneAdminRestoresTheSnapshot` is claimed with one admin only. With one
admin, kills count: what is excepted, there and in `SerialRestoreBringsSnapshotBack`, is
a snapshot whose own VACUUM was killed (`Torn`), which the next process takes for a
whole one.

**Why the bounds are enough.** Two clients: every hazard listed is a race of
two handlers, and each handler's own steps are all there. Two of every resource
that others compete for, one of each that is merely referred to; an id that
is used up (`issued`) stays used, so no run is a repetition of a shorter one.
The bounds that keep the runs small are those of the MC modules. In
`MCInstance`, two clients at once compete either for IPs and NICs or for
groups (no statement reads or writes both an IP and a group), share one IP, and list at
most one IP in a create; one client alone uses all, with lists of
`MaxPublicIps` = 2 IPs, where order and repetition matter. In `MCLoadBalancer`
the tables are explored in the groups that refer to each other; all of
them include the load balancers, and only the one with the IPs has two zones, since no
other statement looks at a zone. Where rows move there is one backend
(`MaxMovedBackends`). In `MCRdb` a behaviour has
one `scope`: instances with endpoints and networks, or with users, databases
and privileges, or with ACL rules, or with copies; no statement of the service
relates two of these. An instance is created with one endpoint
(`MaxInitEndpoints`), a request lists up to two privileges (`MaxPrivileges`), so
that it can name a pair twice. `MCIam` has scopes of the same kind
(API keys; policies; groups; SSH keys); concurrent clients share one application,
policy and user, one client alone has two of each and lists of two
(`MaxListed`). In `MCServices` a behaviour has one `scope` as well,
a few tables that refer to each other; two clients at once hand out `MaxShared` ids,
or `MaxLists` where requests carry lists, except in the scope of the gateways, whose shortest chain of references takes
all four. Additions a DNS patch still has to make count as ids handed out.
Requests about Redis clusters come one at a time:
their lists have no property under interleaving that a document claims, and their
writes have the form of those of security groups, which do interleave. Ids are handed out in
order, and the view identifies states that differ in an answer only. In `MCRdb` and `MCIam`, a request is sent only if ids are left for what its
handler will create. `found` remembers the tables as a request of one client
alone found them. In `MCAdmin`, concurrent clients share one
VPC, two admins send no ordinary requests for networks, and the process is
killed only with one admin. `MaxCrashes` is 1 for the admin operations (a
second kill meets the same files as the first) and 2 for the migration, so that
a start on a half-migrated file is itself cut short. In
`MCWholeSchema` rows come and go in two tables at a time, the child and the parent of
one foreign key, since each property relates the two ends of one key; `MaxChanges` is 2,
so that both can change while a dump is taken. There are dumps or resets, not both: a
dump during a reset, when foreign keys are off, is promised nothing.
Symmetry among uuids of one
kind is used except in `Admin` and `Migration`, which check liveness.

**Fairness.** Nobody has to send a request, so only `Proceed(c)`, the next step
of a handler that runs, is fair, and only where a handler may have to wait. In
`MCAdmin` it waits for the connection that a VACUUM holds, perhaps again and
again, so strong fairness is assumed (`MCFairSpec`): the pool of `database/sql`
hands the connection to one of those who wait and passes nobody over for ever.
In `SchemaMigration` opening the file is one goroutine that nothing blocks:
weak fairness (`FairSpec`). The handlers of the other services wait for nobody
and loop over finite lists only; no liveness is claimed for them.

**Deadlock** is checked in every run.

## 4. What is proved

Every invariant and action property of the passing runs is a theorem as well, for any
number of clients, ids, rows and kills; the liveness properties are not. The two about
load balancers that TLC checks where `inPlace` holds are theorems about `Spec` with
`Moves = {}`. A theorem is
about the specification of the service (`Spec`) or, where the property speaks of the
clients that are active, about `SomeSpec`: the specification of the MC module without
the bounds that keep TLC's instances small (and, in `MCIam` and `MCRdb`, without the
`scope`). The lemma `BoundedRunsAreRuns` says that what TLC explores is among its
behaviours.

Assumptions: those of the modules, which TLC evaluates in each run: `Null` is no id and
no file, the placeholder is no group, bounds are natural numbers, `N` is positive, admin
clients are clients, and no cascade of the schema starts another. `NothingEverDangles` has the
hypothesis `Shallow`, and `UpdatesMeetTheirReferences` and `RoutesNeverLeaveTheirLb`
have `Moves = {}`, both explained below.

*ForeignKeysProofs*: on any set of keys and any database the keys fit, an INSERT and an
UPDATE that pass `RowOK`, and a DELETE that is not `Blocked`, with its cascades and
cleared columns, preserve `RefIntegrity`; what each of the three changes, row by row;
and when two databases look the same to `ReferencesIn`, which the refinement proofs
need.

*StorageProofs*, on what all services stand on.
The database file: `RowsSurviveMigration`, `MigrationIsComplete` and
`MigrationTypeCorrect`. `NoRowIsLost` is not inductive: that DROP TABLE loses nothing
needs the copy to be full by then, and that RENAME overwrites nothing needs the table to
be gone. `MInv` adds what holds at each statement (`CopyInProgress`), that the tables
before the current one are rebuilt (`RebuiltSoFar`), and that the version is recorded
last (`VersionIsLast`).
The abstract store: `NothingEverDangles`, for any kinds and references, under the
hypothesis `Shallow`: nothing refers to what others own, which is what
`SchemaCascadesEndAtOnce` says of the schema. Without it a resource that goes would
have to take along what refers to the resources it owns.
Resets: `ResetsLeaveNoOrphans`, `ResetsForgetNoTable`. The DELETEs run with foreign keys
off. `ResetInv` says that the tables passed are empty; since every table comes after
those that refer to it, what is emptied next is referred to by nobody.
Dumps: `DumpsShowWhatTheyReferTo`. `DumpInv` says that of every table already read, the
rows now there have been seen or came since the dump began (`NothingMissed`). So when a
child is read, what it refers to is live by integrity, and its table has been read
before. NICs are read before their networks (`ChildFirst`), and for them the invariant
says that what the NICs seen refer to is there or has gone since (`ParentsAccounted`).

### Under every interleaving

Integrity is kept statement by statement: however stale the values a handler writes
back, the write passes `RowOK` or is refused. So where only references and types are
claimed, an invariant says nothing of the tables and the handlers together. The
theorems that need more, and what their invariants add:

*InstanceProofs*: `TypeCorrect`, `ReferencesStayLive`, `IpDocumentsStayLive`,
`RowsAppearOnlyByCreation`. `IpDocumentsAreLive` needs that document and column of an
IP agree: the column is live by integrity, and through it the document. The last one
needs only that an UPDATE leaves the ids of a table as they are.

*LoadBalancerProofs*: `LbTypeCorrect`, `LbImplementsStore`,
`IPsOfTheZoneAreReleased`, whatever parents updates name. The last one speaks of the
deleting step: the `lb_id` of an IP is only in its document, which no key watches, and a
later PATCH may name a load balancer that is gone.
With `Moves = {}`: `UpdatesMeetTheirReferences`, `RoutesNeverLeaveTheirLb`. The
rows a route was checked against may be gone when it is written, so no statement about
the tables as they are is inductive. What is: once created, a frontend stays on its load
balancer, and its uuid never names another one. `IInv` says so without history: there
is an assignment `home` of uuids to parents that all rows and all handlers agree with,
also about what has been deleted. A body that names another parent breaks that, and
the two properties with it.

*RdbProofs*: `RdbTypeCorrect`, `RdbPrivilegesReplacedAtOnce`, `RdbImplementsStore`. Two
UPDATEs of this API check nothing, of a user and of a replica. They break no reference
because they do not change the instance of the row they meet: for a user it is part of
the key, and for replicas the invariant says that the row a
handler holds belongs to the instance that the row in the table, if it is there still,
belongs to. It cannot have gone and come back below another, for a uuid is drawn once.
Snapshots and backups may move; their UPDATE writes the column, and the key checks it.

*IamProofs*: `IamTypeCorrect`, `IamDocumentsStayLive`, `FailedPoliciesAreGone`,
`IamImplementsStore`. `Sound` says that the application in a document is the one in its
column, as for IPs, and that a membership is stored under its group and user, which the
replacement of members needs.

*ServiceProofs*: `ServicesTypeCorrect`, `ServicesImplementStore`, `DocumentsStayLive`,
and the half of `RequestsKeepToThemselves` about DNS. Every
row is a document together with the columns taken from it; that is inductive because no
key of these tables is SET NULL, so no column is ever cleared without its document. A
patch leaves other zones alone because an id is used once: a record that was matched in
the zone never turns up in another one.

The proofs that a service implements the store look at its actions once, to see that
each does to the tables one of a few things (`Step`: a row inserted, updated or
deleted as the keys allow, a list replaced, nothing) and then reason about these only.
Each is one step of the store, or leaves it as it is.

*AdminProofs*: `AdminTypeCorrect` for any number of admin clients, where nobody holds
the connection but a client whose VACUUM is running. `OneAdminEnforces` and
`OneAdminRestoresWhatWasSaved` for one admin client next to any number of others. `Relies`
says what each statement of the admin client finds: `r.db` is closed only while the
file is swapped, foreign keys are off only until the pragma that ends a reset or begins
`init`, and the copy is still there when it is renamed (that is what a second admin
breaks, as `Admin_restore_race` shows). `SnapshotIsWhole` says that the snapshot is one
that was completed, `CarriesSnapshot` that a restore holds its contents from the reading
of the file to the rename. Kills may come anywhere; both except a snapshot whose own
VACUUM has not ended, because it is running or was killed (`Torn`).

### One request at a time

Here a handler may rely on what it has read, and the invariants say what that is, at
each of its statements.

*InstanceProofs*: `SerialGroupsMatch`, `SerialCreationsAreWhole`. `Ready` says that a handler which writes a server back holds
a group that is there; of the loop over the IPs of a new server it says which prefix
of the list is attached, that the rest is free or attached already, and that all of
them exist.

*LoadBalancerProofs*: `SerialIPsAreKept`: an IP that was looked up is free when it is
attached or deleted.

*RdbProofs*: `SerialEndpointsAreKept`. The list a handler will write back is the one in
the table but for the endpoint its request creates or deletes (`ListChange`), the network of
a new endpoint is live, and the uuids of endpoints are distinct, so that a deletion
removes the endpoint it names and no other.

*IamProofs*: `SerialErrorsAreClean`. A handler that has changed something is one that
will not fail any more (`Sure`): it ends with a look at a group that is there, or
inserts more rules for a policy that is there.

*ServiceProofs*: `SerialRecordsAreHomed` and the other half of
`RequestsKeepToThemselves`: the zone a patch works on stays (`Held`), and the lists of
the document a handler holds are those in the table (`Agrees`).

*AdminProofs*: `SerialNetworksKeepTheirVpc`, `SerialResetsWipeAll`,
`SerialRestoresBringBack`. `SoundFiles` says that every file there is, and what a
VACUUM will write, is free of networks without a VPC; `ClearedSoFar` that the tables a
reset has passed are empty, networks before VPCs, which is why working with foreign
keys off leaves nothing dangling even if the process is killed in between;
`SnapshotCarried` how the snapshot gets from its file to the copy and to `r.path`; and
`OnePlace` that the connection works on the file at `r.path`, since the rename finds it
closed.

### Only model-checked

`AdminRequestsAreAnswered` and `StartComesUp`, the liveness properties: TLAPS has no
rules here for ENABLED and so for fairness. The runs that end in a violation speak for
themselves. Nothing proved depends on induction over data, and no module declares a
RECURSIVE operator.

## 5. What is not modelled, and why

* The contents of documents other than references, power states and lb_id:
  wording, defaults, fake addresses and timestamps have no bearing on the
  properties.
* `security_group: ""` in a patch of a server, which clients of the provider
  do not send.
* In the Instance API: the `public_ips` list in a server's document; user data, which
  the code does not keep either.
* In the dumps and resets: documents, and which handler a statement belongs to.
* In the Load Balancer API: bodies of updates that name the zone or region of a row.
* In the Managed Database API: a patch that replaces the list of endpoints of an
  instance.
* Two restores that write into one `.restore` file at a time (see `AdminState` above).
* Marketplace: fixed labels, and custom ones that `INSERT OR IGNORE` adds.
* In the Managed Database API: settings, logs, certificates, export, promotion and
  restore, which only look rows up and answer.
* In IAM: the user or group of a policy, which no statement checks, the secret of
  an API key.
* Failures of the disk, and SQLite's own recovery.

## 6. Plan

1. The services composed in one specification, so that a dump shows documents and
   properties can relate the tables of two services.
2. The `public_ips` list in a server's document, which can name IPs that are gone.
3. A failure of `VACUUM INTO`, after which there is no snapshot.
