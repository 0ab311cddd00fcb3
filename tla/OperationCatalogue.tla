------------------------- MODULE OperationCatalogue -------------------------
(***************************************************************************)
(* The configuration of cameras, risk areas and operations in the API:     *)
(* OperationRepository under the requests of several administrators and    *)
(* operators, each in a thread and a READ COMMITTED transaction of its own.*)
(*                                                                         *)
(* A statement sees what was committed when it began, and what its own     *)
(* transaction wrote; it waits for the transaction that has written the    *)
(* same row, or a row with the same unique key, and fails if such a key is *)
(* committed.  One action is one statement.  A row is its name, the row it *)
(* refers to and whether it is active; geometry and texts are left out.    *)
(***************************************************************************)
EXTENDS Naturals, Sequences

CONSTANTS
    Requests,
    Sectors, Cameras, Areas, Operations,   \* the ids of four tables
    Epis, Names,
    Folded,             \* func.lower(nome) and casefold, on Names
    DetectionClass,     \* _ppe_detection_class of the operator's client
    NoClass,            \* its None
    Absent,             \* no row has this id
    Initial             \* the sectors and cameras there are at first

Ids == Sectors \cup Cameras \cup Areas \cup Operations
Rows == [name : Names, ref : Ids, active : BOOLEAN]
Contents == [row : Rows, epis : SUBSET Epis]
Calls == [kind : {"create", "update", "list"}, id : Ids, save : Contents, activeOnly : BOOLEAN]

CatalogueAssumption ==
    /\ Sectors \cap (Cameras \cup Areas \cup Operations) = {}
    /\ Cameras \cap (Areas \cup Operations) = {} /\ Areas \cap Operations = {}
    /\ Absent \notin Rows \cup Calls
    /\ Initial \in [Sectors \cup Cameras -> Rows \cup {Absent}]

VARIABLES
    rows, epis,         \* committed rows, and operacao_epis by operation
    activeEpis,
    step, call,         \* where each request is, and what it asks for
    written,            \* whether it has written its row and not committed
    deleted, inserted,  \* what it has changed of operacao_epis since
    seen, ppe,          \* the rows and the PPE of its answer
    since,              \* if it saved, which save of that row it made
    history             \* every content each id has had, for the properties

tables == <<rows, epis, activeEpis, history>>
changes == <<written, deleted, inserted>>
given == <<seen, ppe, since>>
catalogueVars == <<tables, step, call, changes, given>>

Steps == {"idle", "exists", "reference", "epis", "name", "write", "replace", "commit",
          "rows", "ppe", "answered"}
Nothing == [i \in Ids |-> Absent]

CatalogueInit ==
    /\ rows = [i \in Ids |-> IF i \in Sectors \cup Cameras THEN Initial[i] ELSE Absent]
    /\ epis = [i \in Operations |-> {}]
    /\ activeEpis \in SUBSET Epis
    /\ history = [i \in Ids |-> IF rows[i] = Absent THEN <<>>
                                ELSE <<[row |-> rows[i], epis |-> {}]>>]
    /\ step = [r \in Requests |-> "idle"]
    /\ call = [r \in Requests |-> Absent]
    /\ written = [r \in Requests |-> FALSE]
    /\ deleted = [r \in Requests |-> {}]
    /\ inserted = [r \in Requests |-> {}]
    /\ seen = [r \in Requests |-> Nothing]
    /\ ppe = [r \in Requests |-> [i \in Operations |-> {}]]
    /\ since = [r \in Requests |-> 0]

-----------------------------------------------------------------------------
Parents(i) == IF i \in Operations THEN Areas ELSE IF i \in Areas THEN Cameras ELSE Sectors
SameTable(i, j) == \E t \in {Sectors, Cameras, Areas, Operations} : {i, j} \subseteq t

\* The unique constraints: operations by name, areas by camera and name;
\* cameras have none.
SameKey(i, row, j, other) ==
    /\ i # j
    /\ \/ {i, j} \subseteq Operations
       \/ {i, j} \subseteq Areas /\ row.ref = other.ref
    /\ row.name = other.name

\* What _ensure_..._name_available compares
SameName(i, row, j, other) ==
    /\ i # j /\ SameTable(i, j) /\ (i \in Areas => row.ref = other.ref)
    /\ Folded[row.name] = Folded[other.name]

GoesTo(r, s) == step' = [step EXCEPT ![r] = s]
id(r) == call[r].id
save(r) == call[r].save

\* The payload contracts: PPE for operations only, and at least one.
Valid(c) ==
    /\ c.save.row.ref \in Parents(c.id)
    /\ c.id \in Operations <=> c.save.epis # {}
    /\ c.kind = "create" => c.id \notin Sectors
    /\ c.kind = "update" => c.id \in Areas \cup Operations

\* A request arrives.  The id of what it creates is the one its insert will
\* be given: nobody else has it.
Unclaimed(i) ==
    /\ rows[i] = Absent
    /\ \A q \in Requests :
          step[q] \notin {"idle", "answered"} => id(q) # i \/ call[q].kind = "list"

Ask(r) ==
    /\ step[r] \in {"idle", "answered"}
    /\ \E c \in Calls :
          /\ Valid(c)
          /\ call' = [call EXCEPT ![r] = c]
          /\ \/ c.kind = "create" /\ Unclaimed(c.id) /\ GoesTo(r, "reference")
             \/ c.kind = "update" /\ GoesTo(r, "exists")
             \/ c.kind = "list" /\ GoesTo(r, "rows")
    /\ since' = [since EXCEPT ![r] = 0]
    /\ seen' = [seen EXCEPT ![r] = Nothing]
    /\ UNCHANGED <<tables, changes, ppe>>

\* An answer of 404 or 409, or 503 when a statement fails, a deadlock that
\* PostgreSQL breaks included: the session is closed and rolls back.
GiveUp(r) ==
    /\ GoesTo(r, "idle")
    /\ written' = [written EXCEPT ![r] = FALSE]
    /\ deleted' = [deleted EXCEPT ![r] = {}]
    /\ inserted' = [inserted EXCEPT ![r] = {}]
    /\ UNCHANGED <<tables, call, given>>

Fails(r) == step[r] \notin {"idle", "answered"} /\ GiveUp(r)

\* One reading that lets the request go on, or ends it.
Checks(r, at, condition, next) ==
    /\ step[r] = at
    /\ IF condition
       THEN GoesTo(r, next) /\ UNCHANGED <<tables, call, changes, given>>
       ELSE GiveUp(r)

\* get_risk_area or get_operation of what is updated
CheckExists(r) == Checks(r, "exists", rows[id(r)] # Absent, "reference")

\* _require_active_sector, _require_active_camera, the area of an operation
CheckReference(r) ==
    Checks(r, "reference",
           LET ref == rows[save(r).row.ref] IN ref # Absent /\ ref.active,
           IF id(r) \in Operations THEN "epis" ELSE "name")

CheckEpis(r) == Checks(r, "epis", save(r).epis \subseteq activeEpis, "name")

\* _ensure_camera_name_available, _ensure_area_..., _ensure_operation_...
CheckName(r) ==
    Checks(r, "name",
           \A j \in Ids : rows[j] # Absent => ~SameName(id(r), save(r).row, j, rows[j]),
           "write")

\* The rows another transaction holds: its own and those with its keys, the one
\* it had before and the one it will have.
Blocks(q, r) ==
    /\ written[q]
    /\ \/ id(q) = id(r)
       \/ SameKey(id(r), save(r).row, id(q), save(q).row)
       \/ rows[id(q)] # Absent /\ SameKey(id(r), save(r).row, id(q), rows[id(q)])

\* insert or update
Write(r) ==
    /\ step[r] = "write"
    /\ \A q \in Requests \ {r} : ~Blocks(q, r)
    /\ IF \E j \in Ids : rows[j] # Absent /\ SameKey(id(r), save(r).row, j, rows[j])
       THEN GiveUp(r)
       ELSE /\ written' = [written EXCEPT ![r] = TRUE]
            /\ GoesTo(r, IF id(r) \in Operations THEN "replace" ELSE "commit")
            /\ UNCHANGED <<tables, call, deleted, inserted, given>>

\* _replace_operation_epis
ReplaceEpis(r) ==
    /\ step[r] = "replace"
    /\ deleted' = [deleted EXCEPT ![r] = epis[id(r)]]
    /\ inserted' = [inserted EXCEPT ![r] = save(r).epis]
    /\ GoesTo(r, "commit")
    /\ UNCHANGED <<tables, call, written, given>>

Commit(r) ==
    /\ step[r] = "commit"
    /\ rows' = [rows EXCEPT ![id(r)] = save(r).row]
    /\ epis' = IF id(r) \in Operations
               THEN [epis EXCEPT ![id(r)] = (@ \ deleted[r]) \cup inserted[r]] ELSE epis
    /\ history' = [history EXCEPT ![id(r)] = Append(@, save(r))]
    /\ written' = [written EXCEPT ![r] = FALSE]
    /\ deleted' = [deleted EXCEPT ![r] = {}]
    /\ inserted' = [inserted EXCEPT ![r] = {}]
    /\ since' = [since EXCEPT ![r] = Len(history[id(r)]) + 1]
    /\ GoesTo(r, "rows")
    /\ UNCHANGED <<activeEpis, call, seen, ppe>>

\* The rows an answer is about: the one that was saved, or those listed.
About(r) ==
    IF call[r].kind # "list" THEN {id(r)}
    ELSE {i \in Operations : rows[i] # Absent /\
             (call[r].activeOnly => rows[i].active /\ rows[rows[i].ref].active)}

\* get_camera, get_risk_area and the first statement of list_operations
ReadRows(r) ==
    /\ step[r] = "rows"
    /\ seen' = [seen EXCEPT ![r] = [i \in Ids |-> IF i \in About(r) THEN rows[i] ELSE Absent]]
    /\ GoesTo(r, IF call[r].kind = "list" \/ id(r) \in Operations THEN "ppe" ELSE "answered")
    /\ UNCHANGED <<tables, call, changes, ppe, since>>

\* The second statement of list_operations
ReadPpe(r) ==
    /\ step[r] = "ppe"
    /\ ppe' = [ppe EXCEPT ![r] = epis]
    /\ GoesTo(r, "answered")
    /\ UNCHANGED <<tables, call, changes, seen, since>>

\* Sectors, cameras and PPE are edited outside of the API.
EditCatalogue ==
    /\ \/ \E i \in Sectors \cup Cameras : \E on \in BOOLEAN :
             /\ rows[i] # Absent
             /\ rows' = [rows EXCEPT ![i].active = on]
             /\ history' = [history EXCEPT ![i] = Append(@, [row |-> rows'[i], epis |-> {}])]
             /\ UNCHANGED activeEpis
       \/ activeEpis' \in SUBSET Epis /\ UNCHANGED <<rows, history>>
    /\ UNCHANGED <<epis, step, call, changes, given>>

RequestStep(r) ==
    \/ Ask(r) \/ Fails(r) \/ CheckExists(r) \/ CheckReference(r) \/ CheckEpis(r)
    \/ CheckName(r) \/ Write(r) \/ ReplaceEpis(r) \/ Commit(r) \/ ReadRows(r) \/ ReadPpe(r)

CatalogueNext == EditCatalogue \/ \E r \in Requests : RequestStep(r)
CatalogueSpec == CatalogueInit /\ [][CatalogueNext]_catalogueVars

-----------------------------------------------------------------------------
\* What is committed of a row is one payload as it was sent, whatever updates
\* of it overlapped: its columns and its PPE are never of two administrators.
EveryRowIsOneSave ==
    \A i \in Ids : rows[i] # Absent =>
        /\ history[i] # <<>>
        /\ rows[i] = history[i][Len(history[i])].row
        /\ i \in Operations => epis[i] = history[i][Len(history[i])].epis

\* Two areas of a camera, or two operations, never have the same name, even if
\* both were checked before either was inserted.  (Names that differ in case
\* only may, and two cameras may.)
UniqueKeys ==
    \A i \in Ids, j \in Ids :
        rows[i] # Absent /\ rows[j] # Absent => ~SameKey(i, rows[i], j, rows[j])

\* An answer shows each row as some save left it, the PPE of an operation as
\* that save or a later one did, and what was just saved as that save or a
\* later one: it may mix two saves, but never goes back in time.
Answered(r, i) == step[r] = "answered" /\ seen[r][i] # Absent
AnswersNeverGoBack ==
    \A r \in Requests, i \in Ids : Answered(r, i) =>
        \E m, n \in 1 .. Len(history[i]) :
            /\ m <= n
            /\ call[r].kind # "list" => since[r] <= m
            /\ seen[r][i] = history[i][m].row
            /\ i \in Operations => ppe[r][i] = history[i][n].epis

\* The operator's client refuses a whole list if two PPE of one operation have
\* the same detection class.  Lists are accepted as long as nobody saved such
\* an operation, which nothing in the API prevents: no mixture of two saves
\* brings one about.
Distinct(s) ==
    \A e, f \in s : DetectionClass[e] = DetectionClass[f] /\ DetectionClass[e] # NoClass => e = f
ListsAreAccepted ==
    \A r \in Requests :
        (\A i \in Operations : \A n \in 1 .. Len(history[i]) : Distinct(history[i][n].epis))
        => \A i \in Operations : Answered(r, i) => ppe[r][i] # {} /\ Distinct(ppe[r][i])
=============================================================================
