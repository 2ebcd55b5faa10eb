--------------------------- MODULE PosixLocksProofs ---------------------------
(***************************************************************************)
(* Record locks exclude each other, and the rows say exactly what is held, *)
(* for any number of mounts, clients, files and bytes.  The rows are what  *)
(* counts: between the commit of a request and its answer they already say *)
(* what will be held.                                                      *)
(***************************************************************************)
EXTENDS PosixLocks, FiniteSetTheorems, TLAPS

-----------------------------------------------------------------------------
(* The inductive invariant. *)

OnTime == lockConf.clock # "late"

LockRow == [file : LockFiles, owner : Clients, typ : {"R", "W"}, start : Bytes, end : Bytes]
LeaseRow ==
    [file : LockFiles, owner : Clients, typ : {"R", "W"}, start : Bytes, end : Bytes, age : 0..Ttl]
Request == [typ : {"R", "W", "U", "G"}, file : LockFiles, start : Bytes, end : Bytes, wait : BOOLEAN]
Pcs == {"idle", "queued", "update", "blocked", "parked", "load", "insert", "closing"}
Calls == [pc : Pcs, req : Request \cup {NoRequest}, todo : SUBSET LockFiles, seen : SUBSET LockRow,
          cancelled : BOOLEAN]
Beats == [todo : SUBSET LockRow, done : BOOLEAN]

LockTypes ==
    /\ lockConf \in Deployments
    /\ leases \subseteq LeaseRow
    /\ session \in [Mounts -> {"live", "lapsed", "gone"}]
    /\ up \subseteq Mounts
    /\ mirror \in [Mounts -> SUBSET LockRow]
    /\ lockOwners \in [Mounts -> SUBSET Clients]
    /\ call \in [Clients -> Calls]
    /\ beat \in [Mounts -> Beats]
    /\ lockFaults \in 0..lockConf.faults
    /\ held \in [Clients -> [LockFiles -> [Bytes -> {"none", "R", "W"}]]]

\* A request in service is one of the client's, or the unlock of a whole file at a close;
\* who is closing holds nothing any more.
CallFits(c, k, h) ==
    /\ k.pc \in {"queued", "update", "blocked", "parked", "load", "insert"} =>
          k.req \in Request /\ k.req.start <= k.req.end
    /\ k.pc \in {"update", "blocked", "parked"} => k.req.typ # "G"
    /\ k.pc # "closing" => k.todo = {}
    /\ k.pc = "closing" => lockConf.closes /\ k.todo # {} /\ h = NothingHeld
CallsOK == \A c \in Clients : CallFits(c, call[c], held[c])

\* Who is not served by a running mount holds nothing.
DownOK ==
    /\ \A c \in Clients : MountOf(c) \notin up => call[c] = NoCall /\ held[c] = NothingHeld
    /\ \A m \in up : session[m] = "live"

Active(c) == call[c].pc \notin {"idle", "queued"}
OneActive ==
    Serial(lockConf) =>
        \A c, d \in Clients : MountOf(c) = MountOf(d) /\ Active(c) /\ Active(d) => c = d

\* The change of c's locks on f has been committed and is not answered.
Flying(k) == k.pc \in {"load", "insert"} /\ k.req.typ # "G"
InFlight(c, f) == Flying(call[c]) /\ call[c].req.file = f
Asked(q) == IF q.typ = "U" THEN "none" ELSE q.typ
At(r, b) == r.start <= b /\ b <= r.end

\* What the rows have to say about the byte b: what is held, or is about to be.
Due(c, f, b) ==
    IF InFlight(c, f) /\ At(call[c].req, b) THEN Asked(call[c].req) ELSE held[c][f][b]
HeldLow ==
    \A c \in Clients, f \in LockFiles, b \in Bytes :
        held[c][f][b] \in {"none", Due(c, f, b)} \/ Due(c, f, b) = "W"
Apart(x, y) == "W" \in {x, y} => "none" \in {x, y}
DueApart ==
    OnTime => \A c, d \in Clients, f \in LockFiles, b \in Bytes :
                  c # d => Apart(Due(c, f, b), Due(d, f, b))

Covers(r, c, f, b) == r.owner = c /\ r.file = f /\ At(r, b)
OwnDisjoint ==
    \A r, s \in leases, b \in Bytes :
        r.owner = s.owner /\ r.file = s.file /\ At(r, b) /\ At(s, b) => r = s

\* The row has been renewed, or will be before time passes.
Renewed(r, c, f) ==
    /\ lockConf.clock = "timely" =>
          /\ r.age <= 1
          /\ InFlight(c, f) => r.age = 0
          /\ beat[MountOf(c)] # NoBeat /\ Row(r) \notin beat[MountOf(c)].todo => r.age = 0
    /\ Serial(lockConf) =>
          InFlight(c, f) \/ (Row(r) \in mirror[MountOf(c)] /\ c \in lockOwners[MountOf(c)])
Backed(c, f, b) ==
    Due(c, f, b) # "none" =>
        /\ \E r \in leases : Covers(r, c, f, b)
        /\ \A r \in leases : Covers(r, c, f, b) => r.typ = Due(c, f, b) /\ Renewed(r, c, f)
Covered == OnTime => \A c \in Clients, f \in LockFiles, b \in Bytes : Backed(c, f, b)
BeatOK == \A m \in Mounts : beat[m].done => beat[m] # NoBeat /\ beat[m].todo = {}
NoClock == lockConf.clock = "none" => \A r \in leases : r.age = 0

\* What a mount has read and not yet stored is still so, for its own clients.
SeenBy(c, f, M) ==
    \A d \in Clients, b \in Bytes, r \in leases :
        MountOf(d) = MountOf(c) /\ Due(d, f, b) # "none" /\ Covers(r, d, f, b) => Row(r) \in M
SeenOK ==
    OnTime /\ Serial(lockConf) =>
        \A c \in Clients, f \in LockFiles :
            call[c].pc = "insert" /\ call[c].req.file = f => SeenBy(c, f, call[c].seen)

\* Without a failed request a client has no rows but for what it holds.
Exact ==
    OnTime /\ lockFaults = lockConf.faults =>
        \A r \in leases, b \in Bytes :
            MountOf(r.owner) \in up /\ call[r.owner].pc # "closing" /\ At(r, b) =>
                Due(r.owner, r.file, b) = r.typ

\* Whoever changes its locks is an owner the heartbeat serves.
Serving(k) == k.pc \in {"update", "blocked", "parked", "closing"} \/ Flying(k)
OwnersOK == \A c \in Clients : Serving(call[c]) => c \in lockOwners[MountOf(c)]

LockInv ==
    /\ LockTypes /\ CallsOK /\ DownOK /\ OneActive /\ OwnersOK /\ HeldLow /\ DueApart /\ OwnDisjoint
    /\ Covered /\ BeatOK /\ NoClock /\ SeenOK /\ Exact

-----------------------------------------------------------------------------
(* Constants and records. *)

LEMMA ConfFacts ==
    ASSUME LockConstants, lockConf \in Deployments
    PROVE  /\ Ttl \in Nat /\ Ttl >= 2 /\ MaxByte \in Nat /\ lockConf.faults \in Nat
           /\ IsFiniteSet(Clients)
           /\ lockConf.clock \in {"none", "timely", "late"}
           /\ lockConf.clock = "timely" \/ lockConf.closes => Serial(lockConf)
           /\ lockConf.closes => \A f, g \in LockFiles : f = g
BY Zenon DEF LockConstants, Clients, LockFiles

LEMMA RequestFacts ==
    ASSUME LockConstants, lockConf \in Deployments,
           NEW c \in Clients, NEW q \in lockConf.requests[c]
    PROVE  q \in Request /\ q.start <= q.end
BY Zenon DEF LockConstants, Clients, LockFiles, Request

LEMMA RowFacts ==
    ASSUME NEW r \in LeaseRow
    PROVE  /\ Row(r) \in LockRow
           /\ Row(r).file = r.file /\ Row(r).owner = r.owner /\ Row(r).typ = r.typ
           /\ Row(r).start = r.start /\ Row(r).end = r.end
           /\ \A b : At(Row(r), b) <=> At(r, b)
<1>1. Row(r) \in LockRow
  BY DEF Row, LockRow, LeaseRow
<1>2. /\ Row(r).file = r.file /\ Row(r).owner = r.owner /\ Row(r).typ = r.typ
      /\ Row(r).start = r.start /\ Row(r).end = r.end
  BY DEF Row
<1> QED BY Zenon, <1>1, <1>2 DEF At

\* Rows with the same record cover the same bytes in the same way.
LEMMA SameRow ==
    ASSUME NEW r \in LeaseRow, NEW s \in LeaseRow, Row(r) = Row(s)
    PROVE  /\ r.file = s.file /\ r.owner = s.owner /\ r.typ = s.typ
           /\ \A b : At(r, b) <=> At(s, b)
           /\ \A c, f, b : Covers(r, c, f, b) <=> Covers(s, c, f, b)
<1>1. r.file = s.file /\ r.owner = s.owner /\ r.typ = s.typ /\ r.start = s.start /\ r.end = s.end
  BY Zenon, RowFacts
<1>2. \A b : At(r, b) <=> At(s, b)
  BY Zenon, <1>1 DEF At
<1> QED BY Zenon, <1>1, <1>2 DEF Covers

-----------------------------------------------------------------------------
(* The algebra of ranges. *)

\* What is left of a record has its bytes without those of the request.
LEMMA RemainsRows ==
    ASSUME MaxByte \in Nat, NEW r \in LockRow, NEW q \in Request, NEW s \in Remains(r, q)
    PROVE  /\ s \in LockRow /\ s.file = r.file /\ s.owner = r.owner /\ s.typ = r.typ
           /\ \A b \in Bytes : At(s, b) => At(r, b) /\ ~At(q, b)
<1>1. /\ r.start \in Bytes /\ r.end \in Bytes /\ q.start \in Bytes /\ q.end \in Bytes
  BY DEF LockRow, Request
<1>2. CASE ~range_overlaps(r, q)
  <2>1. s = r
    BY Zenon, <1>2 DEF Remains
  <2>2. ASSUME NEW b \in Bytes, At(r, b) PROVE ~At(q, b)
    BY ONLY MaxByte \in Nat, <1>1, <1>2, <2>2, SMTT(30) DEF At, range_overlaps, Bytes
  <2> QED BY Zenon, <2>1, <2>2
<1>3. CASE range_overlaps(r, q)
  <2>1. \/ r.start < q.start /\ s = [r EXCEPT !.end = q.start - 1]
        \/ q.end < r.end /\ s = [r EXCEPT !.start = q.end + 1]
    BY Zenon, <1>3 DEF Remains
  <2>2. CASE r.start < q.start /\ s = [r EXCEPT !.end = q.start - 1]
    <3>1. q.start - 1 \in Bytes
      BY ONLY MaxByte \in Nat, <1>1, <2>2, SMTT(30) DEF Bytes
    <3>2. s \in LockRow /\ s.file = r.file /\ s.owner = r.owner /\ s.typ = r.typ
          /\ s.start = r.start /\ s.end = q.start - 1
      BY ONLY r \in LockRow, <2>2, <3>1, SMTT(30) DEF LockRow
    <3>3. ASSUME NEW b \in Bytes, At(s, b) PROVE At(r, b) /\ ~At(q, b)
      BY ONLY MaxByte \in Nat, <1>1, <1>3, <3>2, <3>3, b \in Bytes, SMTT(30)
         DEF At, range_overlaps, Bytes
    <3> QED BY Zenon, <3>2, <3>3
  <2>3. CASE q.end < r.end /\ s = [r EXCEPT !.start = q.end + 1]
    <3>1. q.end + 1 \in Bytes
      BY ONLY MaxByte \in Nat, <1>1, <2>3, SMTT(30) DEF Bytes
    <3>2. s \in LockRow /\ s.file = r.file /\ s.owner = r.owner /\ s.typ = r.typ
          /\ s.start = q.end + 1 /\ s.end = r.end
      BY ONLY r \in LockRow, <2>3, <3>1, SMTT(30) DEF LockRow
    <3>3. ASSUME NEW b \in Bytes, At(s, b) PROVE At(r, b) /\ ~At(q, b)
      BY ONLY MaxByte \in Nat, <1>1, <1>3, <3>2, <3>3, b \in Bytes, SMTT(30)
         DEF At, range_overlaps, Bytes
    <3> QED BY Zenon, <3>2, <3>3
  <2> QED BY Zenon, <2>1, <2>2, <2>3
<1> QED BY Zenon, <1>2, <1>3

\* Every other byte of the record is still there.
LEMMA RemainsCover ==
    ASSUME MaxByte \in Nat, NEW r \in LockRow, NEW q \in Request,
           NEW b \in Bytes, At(r, b), ~At(q, b)
    PROVE  \E s \in Remains(r, q) : At(s, b)
<1>1. /\ r.start \in Bytes /\ r.end \in Bytes /\ q.start \in Bytes /\ q.end \in Bytes
  BY DEF LockRow, Request
<1>2. CASE ~range_overlaps(r, q)
  BY Zenon, <1>2 DEF Remains
<1>3. CASE range_overlaps(r, q) /\ b < q.start
  <2>1. r.start < q.start
    BY ONLY MaxByte \in Nat, <1>1, <1>3, At(r, b), b \in Bytes, SMTT(30) DEF At, Bytes
  <2> PICK s : s = [r EXCEPT !.end = q.start - 1]
    BY Zenon
  <2>2. s \in Remains(r, q)
    BY Zenon, <1>3, <2>1 DEF Remains
  <2>3. s.start = r.start /\ s.end = q.start - 1
    BY ONLY r \in LockRow, s = [r EXCEPT !.end = q.start - 1], SMTT(30) DEF LockRow
  <2>4. At(s, b)
    BY ONLY MaxByte \in Nat, <1>1, <1>3, <2>3, At(r, b), b \in Bytes, SMTT(30) DEF At, Bytes
  <2> QED BY Zenon, <2>2, <2>4
<1>4. CASE range_overlaps(r, q) /\ ~(b < q.start)
  <2>1. q.end < b /\ q.end < r.end
    BY ONLY MaxByte \in Nat, <1>1, <1>4, At(r, b), ~At(q, b), b \in Bytes, SMTT(30) DEF At, Bytes
  <2> PICK s : s = [r EXCEPT !.start = q.end + 1]
    BY Zenon
  <2>2. s \in Remains(r, q)
    BY Zenon, <1>4, <2>1 DEF Remains
  <2>3. s.start = q.end + 1 /\ s.end = r.end
    BY ONLY r \in LockRow, s = [r EXCEPT !.start = q.end + 1], SMTT(30) DEF LockRow
  <2>4. At(s, b)
    BY ONLY MaxByte \in Nat, <1>1, <2>1, <2>3, At(r, b), b \in Bytes, SMTT(30) DEF At, Bytes
  <2> QED BY Zenon, <2>2, <2>4
<1> QED BY Zenon, <1>2, <1>3, <1>4

\* The two parts have no byte in common.
LEMMA RemainsApart ==
    ASSUME MaxByte \in Nat, NEW r \in LockRow, NEW q \in Request, q.start <= q.end,
           NEW s \in Remains(r, q), NEW t \in Remains(r, q), NEW b \in Bytes, At(s, b), At(t, b)
    PROVE  s = t
<1>1. /\ r.start \in Bytes /\ r.end \in Bytes /\ q.start \in Bytes /\ q.end \in Bytes
  BY DEF LockRow, Request
<1>2. CASE ~range_overlaps(r, q)
  BY Zenon, <1>2 DEF Remains
<1>3. CASE range_overlaps(r, q)
  <2> DEFINE before == [r EXCEPT !.end = q.start - 1]
             after == [r EXCEPT !.start = q.end + 1]
  <2>1. s \in {before, after} /\ t \in {before, after}
    BY Zenon, <1>3 DEF Remains
  <2>2. before.end = q.start - 1 /\ after.start = q.end + 1
    BY ONLY r \in LockRow, SMTT(30) DEF LockRow
  <2> HIDE DEF before, after
  <2>3. ~(At(before, b) /\ At(after, b))
    BY ONLY MaxByte \in Nat, q.start <= q.end, <1>1, <2>2, b \in Bytes, SMTT(30) DEF At, Bytes
  <2>4. ~(s = before /\ t = after) /\ ~(s = after /\ t = before)
    BY Zenon, <2>3
  <2> QED BY Zenon, <2>1, <2>4
<1> QED BY Zenon, <1>2, <1>3

-----------------------------------------------------------------------------
(* The transaction that replaces the rows of an owner on a file. *)

Mine(c, q) == {r \in RowsOf(q.file) : r.owner = c}
NewRow(c, q) == [file |-> q.file, owner |-> c, typ |-> q.typ, start |-> q.start, end |-> q.end]
Fresh(x, c) ==
    [file |-> x.file, owner |-> c, typ |-> x.typ, start |-> x.start, end |-> x.end, age |-> 0]

\* A row that the request has brought, and one that was there before it.
FromRequest(r, q) == q.typ # "U" /\ r.typ = q.typ /\ \A b \in Bytes : At(r, b) <=> At(q, b)
FromRow(r, c, q) ==
    \E s \in leases : /\ s.age < Ttl /\ s.owner = c /\ s.file = q.file /\ s.typ = r.typ
                      /\ \A b \in Bytes : At(r, b) => At(s, b) /\ ~At(q, b)
Replaced(c, q) ==
    /\ leases' \subseteq LeaseRow
    /\ \A r \in leases : r.owner # c \/ r.file # q.file => r \in leases'
    /\ \A r \in leases' : r.owner # c \/ r.file # q.file => r \in leases
    /\ \A r \in leases' :
          r.owner = c /\ r.file = q.file => r.age = 0 /\ (FromRequest(r, q) \/ FromRow(r, c, q))
    /\ \A b \in Bytes : q.typ # "U" /\ At(q, b) => \E r \in leases' : Covers(r, c, q.file, b)
    /\ \A s \in leases, b \in Bytes :
          s.age < Ttl /\ Covers(s, c, q.file, b) /\ ~At(q, b) => \E r \in leases' : Covers(r, c, q.file, b)

LEMMA MineFacts ==
    ASSUME leases \subseteq LeaseRow, NEW c, NEW q
    PROVE  /\ \A x \in Mine(c, q) :
                \E r \in leases : r.age < Ttl /\ r.file = q.file /\ r.owner = c /\ x = Row(r)
           /\ \A r \in leases : r.age < Ttl /\ r.file = q.file /\ r.owner = c => Row(r) \in Mine(c, q)
<1>1. ASSUME NEW x \in Mine(c, q)
      PROVE  \E r \in leases : r.age < Ttl /\ r.file = q.file /\ r.owner = c /\ x = Row(r)
  <2>1. PICK r \in leases : r.age < Ttl /\ r.file = q.file /\ x = Row(r) /\ x.owner = c
    BY Zenon DEF Mine, RowsOf, Live
  <2>2. r.owner = c
    BY Zenon, <2>1, RowFacts
  <2> QED BY Zenon, <2>1, <2>2
<1>2. ASSUME NEW r \in leases, r.age < Ttl, r.file = q.file, r.owner = c PROVE Row(r) \in Mine(c, q)
  <2>1. Row(r).owner = c
    BY Zenon, <1>2, RowFacts
  <2> QED BY Zenon, <1>2, <2>1 DEF Mine, RowsOf, Live
<1> QED BY Zenon, <1>1, <1>2

LEMMA UpdatedRows ==
    ASSUME NEW c, NEW q
    PROVE  \A x : x \in update_owner_lock_range(Mine(c, q), c, q)
                    <=> \/ q.typ # "U" /\ x = NewRow(c, q)
                        \/ \E y \in Mine(c, q) : x \in Remains(y, q)
BY Zenon DEF update_owner_lock_range, NewRow

LEMMA FreshFacts ==
    ASSUME LockConstants, lockConf \in Deployments, NEW c \in Clients, NEW x \in LockRow
    PROVE  /\ Fresh(x, c) \in LeaseRow /\ Fresh(x, c).age = 0 /\ Fresh(x, c).owner = c
           /\ Fresh(x, c).file = x.file /\ Fresh(x, c).typ = x.typ
           /\ \A b : At(Fresh(x, c), b) <=> At(x, b)
<1>1. Ttl \in Nat
  BY Zenon, ConfFacts
<1>2. 0 \in 0..Ttl
  BY <1>1
<1>3. Fresh(x, c) \in LeaseRow
  BY <1>2 DEF Fresh, LeaseRow, LockRow
<1>4. /\ Fresh(x, c).age = 0 /\ Fresh(x, c).owner = c
      /\ Fresh(x, c).file = x.file /\ Fresh(x, c).typ = x.typ
      /\ Fresh(x, c).start = x.start /\ Fresh(x, c).end = x.end
  BY DEF Fresh
<1> QED BY Zenon, <1>3, <1>4 DEF At

LEMMA NewRowFacts ==
    ASSUME NEW c \in Clients, NEW q \in Request, q.typ \in {"R", "W"}
    PROVE  /\ NewRow(c, q) \in LockRow /\ NewRow(c, q).file = q.file /\ NewRow(c, q).typ = q.typ
           /\ \A b : At(NewRow(c, q), b) <=> At(q, b)
<1>1. NewRow(c, q) \in LockRow
  BY DEF NewRow, LockRow, Request
<1>2. /\ NewRow(c, q).file = q.file /\ NewRow(c, q).typ = q.typ
      /\ NewRow(c, q).start = q.start /\ NewRow(c, q).end = q.end
  BY DEF NewRow
<1> QED BY Zenon, <1>1, <1>2 DEF At

LEMMA ReplaceRowsOK ==
    ASSUME LockConstants, LockTypes, OwnDisjoint, NEW c \in Clients,
           NEW q \in Request, q.start <= q.end, q.typ # "G", ReplaceRows(c, q)
    PROVE  Replaced(c, q) /\ OwnDisjoint'
<1> DEFINE U == update_owner_lock_range(Mine(c, q), c, q)
<1>1. leases \subseteq LeaseRow /\ lockConf \in Deployments /\ MaxByte \in Nat
  BY Zenon, ConfFacts DEF LockTypes
<1>2. \A r : r \in leases' <=> \/ r \in leases /\ (r.owner # c \/ r.file # q.file)
                               \/ \E x \in U : r = Fresh(x, c)
  BY Zenon DEF ReplaceRows, Mine, Fresh
<1>3. \A x : x \in U <=> \/ q.typ # "U" /\ x = NewRow(c, q)
                         \/ \E y \in Mine(c, q) : x \in Remains(y, q)
  BY Zenon, UpdatedRows
<1> HIDE DEF U
<1>4. q.typ # "U" => q.typ \in {"R", "W"}
  BY DEF Request
<1>5. \A y \in Mine(c, q) :
        \E r \in leases : r.age < Ttl /\ r.file = q.file /\ r.owner = c /\ y = Row(r)
  BY <1>1, MineFacts
<1>6. ASSUME NEW y \in Mine(c, q) PROVE y \in LockRow /\ y.file = q.file /\ y.owner = c
  BY Zenon, <1>1, <1>5, RowFacts
<1>7. ASSUME NEW x \in U PROVE x \in LockRow /\ x.file = q.file
  <2>1. CASE q.typ # "U" /\ x = NewRow(c, q)
    BY Zenon, <1>4, <2>1, NewRowFacts
  <2>2. CASE \E y \in Mine(c, q) : x \in Remains(y, q)
    <3>1. PICK y \in Mine(c, q) : x \in Remains(y, q)
      BY Zenon, <2>2
    <3>2. x \in LockRow /\ x.file = y.file
      BY Zenon, <1>1, <1>6, <3>1, RemainsRows
    <3> QED BY Zenon, <1>6, <3>2
  <2> QED BY Zenon, <1>3, <2>1, <2>2
<1>8. ASSUME NEW x \in U
      PROVE  /\ Fresh(x, c) \in LeaseRow /\ Fresh(x, c).age = 0 /\ Fresh(x, c).owner = c
             /\ Fresh(x, c).file = q.file /\ Fresh(x, c).typ = x.typ
             /\ \A b : At(Fresh(x, c), b) <=> At(x, b)
  BY Zenon, <1>1, <1>7, FreshFacts
<1>9. leases' \subseteq LeaseRow
  BY Zenon, <1>1, <1>2, <1>8
<1>10. \A r \in leases' : r.owner # c \/ r.file # q.file => r \in leases
  BY Zenon, <1>2, <1>8
<1>11. ASSUME NEW r \in leases', r.owner = c, r.file = q.file
       PROVE  r.age = 0 /\ (FromRequest(r, q) \/ FromRow(r, c, q))
  <2>1. PICK x \in U : r = Fresh(x, c)
    BY Zenon, <1>2, <1>11
  <2>2. r.age = 0 /\ r.typ = x.typ /\ \A b : At(r, b) <=> At(x, b)
    BY Zenon, <1>8, <2>1
  <2>3. CASE q.typ # "U" /\ x = NewRow(c, q)
    <3>1. x.typ = q.typ /\ \A b : At(x, b) <=> At(q, b)
      BY Zenon, <1>4, <2>3, NewRowFacts
    <3>2. FromRequest(r, q)
      BY Zenon, <2>2, <2>3, <3>1 DEF FromRequest
    <3> QED BY Zenon, <2>2, <3>2
  <2>4. CASE \E y \in Mine(c, q) : x \in Remains(y, q)
    <3>1. PICK y \in Mine(c, q) : x \in Remains(y, q)
      BY Zenon, <2>4
    <3>2. PICK s \in leases : s.age < Ttl /\ s.file = q.file /\ s.owner = c /\ y = Row(s)
      BY Zenon, <1>5
    <3>3. x.typ = y.typ /\ \A b \in Bytes : At(x, b) => At(y, b) /\ ~At(q, b)
      BY Zenon, <1>1, <1>6, <3>1, RemainsRows
    <3>4. y.typ = s.typ /\ \A b : At(y, b) <=> At(s, b)
      BY Zenon, <1>1, <3>2, RowFacts
    <3>5. FromRow(r, c, q)
      BY Zenon, <2>2, <3>2, <3>3, <3>4 DEF FromRow
    <3> QED BY Zenon, <2>2, <3>5
  <2> QED BY Zenon, <1>3, <2>1, <2>3, <2>4
<1>12. ASSUME NEW b \in Bytes, q.typ # "U", At(q, b) PROVE \E r \in leases' : Covers(r, c, q.file, b)
  <2>1. NewRow(c, q) \in U /\ At(NewRow(c, q), b)
    <3>1. \A x : At(NewRow(c, q), x) <=> At(q, x)
      BY Zenon, <1>4, <1>12, NewRowFacts
    <3> QED BY Zenon, <1>3, <1>12, <3>1
  <2>2. Covers(Fresh(NewRow(c, q), c), c, q.file, b)
    BY Zenon, <1>8, <2>1 DEF Covers
  <2> QED BY Zenon, <1>2, <2>1, <2>2
<1>13. ASSUME NEW s \in leases, NEW b \in Bytes, s.age < Ttl, Covers(s, c, q.file, b), ~At(q, b)
       PROVE  \E r \in leases' : Covers(r, c, q.file, b)
  <2>1. Row(s) \in Mine(c, q)
    BY Zenon, <1>1, <1>13, MineFacts DEF Covers
  <2>2. Row(s) \in LockRow /\ At(Row(s), b)
    BY Zenon, <1>1, <1>13, RowFacts DEF Covers
  <2>3. PICK x \in Remains(Row(s), q) : At(x, b)
    BY Zenon, <1>1, <1>13, <2>2, RemainsCover
  <2>4. x \in U
    BY Zenon, <1>3, <2>1
  <2>5. Covers(Fresh(x, c), c, q.file, b)
    BY Zenon, <1>8, <2>3, <2>4 DEF Covers
  <2> QED BY Zenon, <1>2, <2>4, <2>5
<1>14. Replaced(c, q)
  BY Zenon, <1>2, <1>9, <1>10, <1>11, <1>12, <1>13 DEF Replaced
<1>15. ASSUME NEW x \in U, NEW y \in U, NEW b \in Bytes, At(x, b), At(y, b) PROVE x = y
  <2>1. ASSUME NEW z \in U, At(z, b), q.typ # "U" /\ z = NewRow(c, q) PROVE At(q, b)
    BY Zenon, <1>4, <2>1, NewRowFacts
  <2>2. ASSUME NEW z \in U, At(z, b), NEW v \in Mine(c, q), z \in Remains(v, q)
        PROVE  ~At(q, b) /\ At(v, b)
    BY Zenon, <1>1, <1>6, <2>2, RemainsRows
  <2>3. CASE \E v \in Mine(c, q) : x \in Remains(v, q)
    <3>1. PICK v \in Mine(c, q) : x \in Remains(v, q)
      BY Zenon, <2>3
    <3>2. ~At(q, b) /\ At(v, b)
      BY Zenon, <1>15, <2>2, <3>1
    <3>3. PICK w \in Mine(c, q) : y \in Remains(w, q)
      BY Zenon, <1>3, <1>15, <2>1, <3>2
    <3>4. At(w, b)
      BY Zenon, <1>15, <2>2, <3>3
    <3>5. PICK r \in leases : r.age < Ttl /\ r.file = q.file /\ r.owner = c /\ v = Row(r)
      BY Zenon, <1>5
    <3>6. PICK s \in leases : s.age < Ttl /\ s.file = q.file /\ s.owner = c /\ w = Row(s)
      BY Zenon, <1>5
    <3>7. At(r, b) /\ At(s, b)
      BY Zenon, <1>1, <3>2, <3>4, <3>5, <3>6, RowFacts
    <3>8. r = s
      BY Zenon, <3>5, <3>6, <3>7 DEF OwnDisjoint
    <3> QED BY Zenon, <1>1, <1>6, <1>15, <3>1, <3>3, <3>5, <3>6, <3>8, RemainsApart
  <2>4. CASE q.typ # "U" /\ x = NewRow(c, q)
    <3>1. ~\E v \in Mine(c, q) : y \in Remains(v, q)
      BY Zenon, <1>15, <2>1, <2>2, <2>4
    <3> QED BY Zenon, <1>3, <2>4, <3>1
  <2> QED BY Zenon, <1>3, <2>3, <2>4
<1>16. ASSUME NEW r \in leases', NEW s \in leases', NEW b \in Bytes,
              r.owner = s.owner, r.file = s.file, At(r, b), At(s, b)
       PROVE  r = s
  <2>1. CASE r.owner = c /\ r.file = q.file
    <3>1. PICK x \in U : r = Fresh(x, c)
      BY Zenon, <1>2, <2>1
    <3>2. PICK y \in U : s = Fresh(y, c)
      BY Zenon, <1>2, <1>16, <2>1
    <3>3. At(x, b) /\ At(y, b)
      BY Zenon, <1>8, <1>16, <3>1, <3>2
    <3> QED BY Zenon, <1>15, <3>1, <3>2, <3>3
  <2>2. CASE ~(r.owner = c /\ r.file = q.file)
    <3>1. r \in leases /\ s \in leases
      BY Zenon, <1>10, <1>16, <2>2
    <3> QED BY Zenon, <1>16, <3>1 DEF OwnDisjoint
  <2> QED BY Zenon, <2>1, <2>2
<1>17. OwnDisjoint'
  BY Zenon, <1>16 DEF OwnDisjoint, At, Bytes
<1> QED BY Zenon, <1>14, <1>17

-----------------------------------------------------------------------------
(* The deployment does not change, and what that leaves to show of a step. *)

LEMMA ConfSame ==
    ASSUME lockConf' = lockConf
    PROVE  /\ Clients' = Clients /\ Mounts' = Mounts /\ LockFiles' = LockFiles
           /\ \A c : MountOf(c)' = MountOf(c)
           /\ (OnTime' <=> OnTime) /\ (Serial(lockConf)' <=> Serial(lockConf))
           /\ LockRow' = LockRow /\ LeaseRow' = LeaseRow /\ Request' = Request /\ Calls' = Calls
           /\ Beats' = Beats /\ NothingHeld' = NothingHeld
<1>1. Clients' = Clients /\ LockFiles' = LockFiles /\ \A c : MountOf(c)' = MountOf(c)
  BY Zenon DEF Clients, LockFiles, FilesOf, MountOf
<1>2. Mounts' = Mounts
  BY Zenon, <1>1 DEF Mounts
<1>3. LockRow' = LockRow /\ LeaseRow' = LeaseRow /\ Request' = Request
  BY Zenon, <1>1 DEF LockRow, LeaseRow, Request
<1>4. Calls' = Calls /\ Beats' = Beats
  BY Zenon, <1>1, <1>3 DEF Calls, Beats
<1>5. NothingHeld' = NothingHeld
  BY Zenon, <1>1 DEF NothingHeld
<1>6. OnTime' <=> OnTime
  BY Zenon DEF OnTime
<1>7. Serial(lockConf)' <=> Serial(lockConf)
  BY Zenon DEF Serial
<1> QED BY Zenon, <1>1, <1>2, <1>3, <1>4, <1>5, <1>6, <1>7

LEMMA TypesNext ==
    ASSUME LockTypes, lockConf' = lockConf, leases' \subseteq LeaseRow,
           session' \in [Mounts -> {"live", "lapsed", "gone"}], up' \subseteq Mounts,
           mirror' \in [Mounts -> SUBSET LockRow], lockOwners' \in [Mounts -> SUBSET Clients],
           call' \in [Clients -> Calls], beat' \in [Mounts -> Beats],
           lockFaults' \in 0..lockConf.faults,
           held' \in [Clients -> [LockFiles -> [Bytes -> {"none", "R", "W"}]]]
    PROVE  LockTypes'
BY ZenonT(30), ConfSame DEF LockTypes

LEMMA CallsNext ==
    ASSUME lockConf' = lockConf, \A c \in Clients : CallFits(c, call'[c], held'[c])
    PROVE  CallsOK'
<1>1. ASSUME NEW c, NEW k, NEW h, CallFits(c, k, h) PROVE CallFits(c, k, h)'
  BY Zenon, <1>1, ConfSame DEF CallFits
<1> QED BY Zenon, ConfSame DEF CallsOK, CallFits

LEMMA DownNext ==
    ASSUME lockConf' = lockConf, \A m \in up' : session'[m] = "live",
           \A c \in Clients : MountOf(c) \notin up' => call'[c] = NoCall /\ held'[c] = NothingHeld
    PROVE  DownOK'
BY Zenon, ConfSame DEF DownOK, NoCall, NoRequest

LEMMA ActiveNext ==
    ASSUME lockConf' = lockConf,
           Serial(lockConf) =>
             \A c, d \in Clients : MountOf(c) = MountOf(d) /\ Active(c)' /\ Active(d)' => c = d
    PROVE  OneActive'
BY Zenon, ConfSame DEF OneActive

LEMMA OwnersNext ==
    ASSUME lockConf' = lockConf,
           \A c \in Clients : Serving(call'[c]) => c \in lockOwners'[MountOf(c)]
    PROVE  OwnersOK'
BY Zenon, ConfSame DEF OwnersOK, Serving, Flying

LEMMA LowNext ==
    ASSUME lockConf' = lockConf,
           \A c \in Clients, f \in LockFiles, b \in Bytes :
             held'[c][f][b] \in {"none", Due(c, f, b)'} \/ Due(c, f, b)' = "W"
    PROVE  HeldLow'
BY Zenon, ConfSame DEF HeldLow, Bytes

LEMMA ApartNext ==
    ASSUME lockConf' = lockConf,
           OnTime => \A c, d \in Clients, f \in LockFiles, b \in Bytes :
                       c # d => Apart(Due(c, f, b)', Due(d, f, b)')
    PROVE  DueApart'
BY Zenon, ConfSame DEF DueApart, Apart, Bytes

LEMMA CoveredNext ==
    ASSUME lockConf' = lockConf,
           OnTime => \A c \in Clients, f \in LockFiles, b \in Bytes : Backed(c, f, b)'
    PROVE  Covered'
BY Zenon, ConfSame DEF Covered, Bytes

LEMMA SeenNext ==
    ASSUME lockConf' = lockConf,
           OnTime /\ Serial(lockConf) =>
             \A c, d \in Clients, f \in LockFiles, b \in Bytes, r \in leases' :
               /\ call'[c].pc = "insert" /\ call'[c].req.file = f /\ MountOf(d) = MountOf(c)
               /\ Due(d, f, b)' # "none" /\ Covers(r, d, f, b)
               => Row(r) \in call'[c].seen
    PROVE  SeenOK'
<1>1. SUFFICES ASSUME OnTime, Serial(lockConf), NEW c \in Clients, NEW f \in LockFiles,
                      call'[c].pc = "insert", call'[c].req.file = f
               PROVE  SeenBy(c, f, call[c].seen)'
  BY Zenon, ConfSame DEF SeenOK
<1>2. SUFFICES ASSUME NEW d \in Clients, NEW b \in Bytes, NEW r \in leases',
                      MountOf(d) = MountOf(c), Due(d, f, b)' # "none", Covers(r, d, f, b)
               PROVE  Row(r) \in call'[c].seen
  BY Zenon, ConfSame DEF SeenBy, Bytes, Row, Covers, At
<1> QED BY Zenon, <1>1, <1>2

LEMMA ExactNext ==
    ASSUME lockConf' = lockConf,
           OnTime /\ lockFaults' = lockConf.faults =>
             \A r \in leases', b \in Bytes :
               MountOf(r.owner) \in up' /\ call'[r.owner].pc # "closing" /\ At(r, b) =>
                 Due(r.owner, r.file, b)' = r.typ
    PROVE  Exact'
BY Zenon, ConfSame DEF Exact, At, Bytes

-----------------------------------------------------------------------------
(* What is due, and the rows that back it. *)

LEMMA DueType ==
    ASSUME LockTypes, CallsOK, NEW c \in Clients, NEW f \in LockFiles, NEW b \in Bytes
    PROVE  Due(c, f, b) \in {"none", "R", "W"} /\ held[c][f][b] \in {"none", "R", "W"}
<1>1. held[c][f][b] \in {"none", "R", "W"}
  <2>1. held \in [Clients -> [LockFiles -> [Bytes -> {"none", "R", "W"}]]]
    BY Zenon DEF LockTypes
  <2>2. held[c] \in [LockFiles -> [Bytes -> {"none", "R", "W"}]]
    BY Zenon, <2>1
  <2>3. held[c][f] \in [Bytes -> {"none", "R", "W"}]
    BY Zenon, <2>2
  <2> QED BY Zenon, <2>3
<1>2. ASSUME InFlight(c, f) PROVE Asked(call[c].req) \in {"none", "R", "W"}
  <2>1. call[c].req \in Request /\ call[c].req.typ # "G"
    BY Zenon, <1>2 DEF CallsOK, CallFits, InFlight, Flying
  <2>2. call[c].req.typ \in {"R", "W", "U"}
    BY Zenon, <2>1 DEF Request
  <2> QED BY Zenon, <2>2 DEF Asked
<1> QED BY Zenon, <1>1, <1>2 DEF Due

DueKept(c, f) ==
    (InFlight(c, f)' <=> InFlight(c, f)) /\ \A b \in Bytes : Due(c, f, b)' = Due(c, f, b)

LEMMA DueSame ==
    ASSUME NEW c, NEW f, call'[c] = call[c], held'[c] = held[c]
    PROVE  DueKept(c, f)
<1>1. InFlight(c, f)' <=> InFlight(c, f)
  BY Zenon DEF InFlight, Flying
<1>2. \A b \in Bytes : Due(c, f, b)' = Due(c, f, b)
  BY Zenon, <1>1 DEF Due, At, Asked, InFlight, Flying
<1> QED BY Zenon, <1>1, <1>2 DEF DueKept

\* The step of a request that commits nothing and answers nothing.
LEMMA DueCalled ==
    ASSUME NEW c, NEW f, held'[c] = held[c], Flying(call'[c]) <=> Flying(call[c]),
           Flying(call[c]) => call'[c].req = call[c].req
    PROVE  DueKept(c, f)
<1>1. InFlight(c, f)' <=> InFlight(c, f)
  BY Zenon DEF InFlight, Flying
<1>2. \A b \in Bytes : Due(c, f, b)' = Due(c, f, b)
  BY Zenon, <1>1 DEF Due, At, Asked, InFlight, Flying
<1> QED BY Zenon, <1>1, <1>2 DEF DueKept

LEMMA LiveRow ==
    ASSUME LockConstants, LockInv, OnTime, NEW c \in Clients, NEW f \in LockFiles, NEW b \in Bytes,
           Due(c, f, b) # "none", NEW r \in leases, Covers(r, c, f, b)
    PROVE  r.age < Ttl /\ r.typ = Due(c, f, b) /\ Renewed(r, c, f)
<1>1. r.typ = Due(c, f, b) /\ Renewed(r, c, f)
  BY Zenon DEF LockInv, Covered, Backed
<1>2. lockConf \in Deployments /\ r \in LeaseRow
  BY Zenon DEF LockInv, LockTypes
<1>3. Ttl \in Nat /\ Ttl >= 2 /\ lockConf.clock \in {"none", "timely", "late"}
  BY Zenon, <1>2, ConfFacts
<1>4. lockConf.clock \in {"none", "timely"}
  BY Zenon, <1>3 DEF OnTime
<1>5. r.age \in 0..Ttl
  BY Zenon, <1>2 DEF LeaseRow
<1>6. CASE lockConf.clock = "none"
  <2>1. r.age = 0
    BY Zenon, <1>6 DEF LockInv, NoClock
  <2> QED BY <1>1, <1>3, <2>1
<1>7. CASE lockConf.clock = "timely"
  <2>1. r.age <= 1
    BY Zenon, <1>1, <1>7 DEF Renewed
  <2>2. r.age < Ttl
    BY ONLY <1>3, <1>5, <2>1, SMTT(30)
  <2> QED BY Zenon, <1>1, <2>2
<1> QED BY Zenon, <1>4, <1>6, <1>7

\* What is due stays backed when neither it, nor its rows, nor the mirror's knowledge of
\* them change.
RowsKept(c, f) ==
    /\ \A r \in leases : r.owner = c /\ r.file = f => r \in leases'
    /\ \A r \in leases' : r.owner = c /\ r.file = f => r \in leases
LEMMA BackedKept ==
    ASSUME lockConf' = lockConf, NEW c \in Clients, NEW f \in LockFiles, NEW b \in Bytes,
           Backed(c, f, b), DueKept(c, f), RowsKept(c, f),
           beat'[MountOf(c)] = beat[MountOf(c)],
           Serial(lockConf) => \A r \in leases :
               /\ Covers(r, c, f, b) /\ Due(c, f, b) # "none"
               /\ Row(r) \in mirror[MountOf(c)] /\ c \in lockOwners[MountOf(c)]
               => Row(r) \in mirror'[MountOf(c)] /\ c \in lockOwners'[MountOf(c)]
    PROVE  Backed(c, f, b)'
<1>1. SUFFICES ASSUME Due(c, f, b) # "none"
               PROVE  /\ \E r \in leases' : Covers(r, c, f, b)
                      /\ \A r \in leases' : Covers(r, c, f, b) =>
                             r.typ = Due(c, f, b) /\ Renewed(r, c, f)'
  BY Zenon DEF Backed, DueKept, Covers, At
<1>2. \E r \in leases' : Covers(r, c, f, b)
  BY Zenon, <1>1 DEF Backed, RowsKept, Covers
<1>3. ASSUME NEW r \in leases', Covers(r, c, f, b) PROVE r.typ = Due(c, f, b) /\ Renewed(r, c, f)'
  <2>1. r \in leases
    BY Zenon, <1>3 DEF RowsKept, Covers
  <2>2. r.typ = Due(c, f, b) /\ Renewed(r, c, f)
    BY Zenon, <1>1, <1>3, <2>1 DEF Backed
  <2>3. MountOf(c)' = MountOf(c) /\ (Serial(lockConf)' <=> Serial(lockConf))
        /\ (InFlight(c, f)' <=> InFlight(c, f))
    BY Zenon, ConfSame DEF DueKept
  <2>4. lockConf.clock = "timely" =>
          /\ r.age <= 1
          /\ InFlight(c, f)' => r.age = 0
          /\ beat'[MountOf(c)] # NoBeat /\ Row(r) \notin beat'[MountOf(c)].todo => r.age = 0
    BY Zenon, <2>2, <2>3 DEF Renewed
  <2>5. Serial(lockConf) =>
          InFlight(c, f)' \/ (Row(r) \in mirror'[MountOf(c)] /\ c \in lockOwners'[MountOf(c)])
    BY Zenon, <1>1, <1>3, <2>1, <2>2, <2>3 DEF Renewed
  <2>6. Renewed(r, c, f)'
    BY Zenon, <2>3, <2>4, <2>5 DEF Renewed, Row, NoBeat
  <2> QED BY Zenon, <2>2, <2>6
<1> QED BY Zenon, <1>2, <1>3

\* Who finds an event thread free is alone on its mount.
LEMMA FreeAlone ==
    ASSUME LockConstants, LockTypes, Serial(lockConf), NEW c \in Clients, FreeThread(MountOf(c)),
           NEW d \in Clients, MountOf(d) = MountOf(c), Active(d)
    PROVE  d = c
<1>1. CASE lockConf.threads # 1
  BY Zenon, <1>1 DEF Serial, Clients, MountOf
<1>2. CASE lockConf.threads = 1
  <2> DEFINE S == {e \in Clients : MountOf(e) = MountOf(c) /\ call[e].pc \notin {"idle", "queued"}}
  <2>1. Cardinality(S) < 1
    BY Zenon, <1>2 DEF FreeThread
  <2>2. d \in S
    BY Zenon DEF Active
  <2>3. S \subseteq Clients
    BY Zenon
  <2> HIDE DEF S
  <2>4. IsFiniteSet(Clients)
    BY Zenon, ConfFacts DEF LockTypes
  <2>5. IsFiniteSet(S)
    BY <2>3, <2>4, FS_Subset
  <2>6. Cardinality(S) \in Nat
    BY Zenon, <2>5, FS_CardinalityType
  <2>7. Cardinality(S) = 0
    BY ONLY <2>1, <2>6, SMTT(30)
  <2>8. S = {}
    BY Zenon, <2>5, <2>7, FS_EmptySet
  <2> QED BY Zenon, <2>2, <2>8
<1> QED BY Zenon, <1>1, <1>2

-----------------------------------------------------------------------------
(* The steps of a request that leave the rows and what is held alone. *)

Quiet(c, k) ==
    /\ UNCHANGED <<lockConf, leases, session, up, mirror, beat, lockFaults, held>>
    /\ call' = [call EXCEPT ![c] = k]
    /\ lockOwners' \in [Mounts -> SUBSET Clients]
    /\ \A m \in Mounts : lockOwners[m] \subseteq lockOwners'[m]
    /\ k \in Calls /\ CallFits(c, k, held[c]) /\ MountOf(c) \in up
    /\ call[c].pc # "closing" /\ k.pc # "closing"
    /\ Flying(k) <=> Flying(call[c])
    /\ Flying(call[c]) => k.req = call[c].req
    /\ Active(c) \/ FreeThread(MountOf(c)) \/ k.pc \in {"idle", "queued"}
    /\ Serving(k) => Serving(call[c]) \/ c \in lockOwners'[MountOf(c)]
    /\ OnTime /\ Serial(lockConf) /\ k.pc = "insert" =>
          \A f \in LockFiles : k.req.file = f => SeenBy(c, f, k.seen)

LEMMA QuietStep ==
    ASSUME LockConstants, LockInv, NEW c \in Clients, NEW k, Quiet(c, k)
    PROVE  LockInv'
<1>1. /\ LockTypes /\ CallsOK /\ DownOK /\ OneActive /\ OwnersOK /\ HeldLow /\ DueApart /\ OwnDisjoint
      /\ Covered /\ BeatOK /\ NoClock /\ SeenOK /\ Exact
  BY Zenon DEF LockInv
<1>2. /\ lockConf' = lockConf /\ leases' = leases /\ session' = session /\ up' = up
      /\ mirror' = mirror /\ beat' = beat /\ lockFaults' = lockFaults /\ held' = held
  BY Zenon DEF Quiet
<1>3. call \in [Clients -> Calls]
  BY Zenon, <1>1 DEF LockTypes
<1>4. call'[c] = k /\ \A d \in Clients : d # c => call'[d] = call[d]
  BY Zenon, <1>3 DEF Quiet
<1>5. call' \in [Clients -> Calls]
  BY Zenon, <1>3 DEF Quiet
<1>6. \A d \in Clients, f \in LockFiles : DueKept(d, f)
  <2>1. TAKE d \in Clients, f \in LockFiles
  <2>2. CASE d = c
    BY Zenon, <1>2, <1>4, <2>2, DueCalled DEF Quiet
  <2>3. CASE d # c
    BY Zenon, <1>2, <1>4, <2>3, DueSame
  <2> QED BY Zenon, <2>2, <2>3
<1>7. LockTypes'
  <2>1. /\ leases' \subseteq LeaseRow /\ session' \in [Mounts -> {"live", "lapsed", "gone"}]
        /\ up' \subseteq Mounts /\ mirror' \in [Mounts -> SUBSET LockRow]
        /\ beat' \in [Mounts -> Beats] /\ lockFaults' \in 0..lockConf.faults
        /\ held' \in [Clients -> [LockFiles -> [Bytes -> {"none", "R", "W"}]]]
    BY Zenon, <1>1, <1>2 DEF LockTypes
  <2>2. lockOwners' \in [Mounts -> SUBSET Clients]
    BY Zenon DEF Quiet
  <2> QED BY Zenon, <1>1, <1>2, <1>5, <2>1, <2>2, TypesNext
<1>8. CallsOK'
  <2>1. ASSUME NEW d \in Clients PROVE CallFits(d, call'[d], held'[d])
    BY Zenon, <1>1, <1>2, <1>4 DEF CallsOK, Quiet
  <2> QED BY Zenon, <1>2, <2>1, CallsNext
<1>9. DownOK'
  <2>1. ASSUME NEW d \in Clients, MountOf(d) \notin up' PROVE call'[d] = NoCall /\ held'[d] = NothingHeld
    BY Zenon, <1>1, <1>2, <1>4, <2>1 DEF DownOK, Quiet
  <2>2. \A m \in up' : session'[m] = "live"
    BY Zenon, <1>1, <1>2 DEF DownOK
  <2> QED BY Zenon, <1>2, <2>1, <2>2, DownNext
<1>10. OneActive'
  <2>1. ASSUME Serial(lockConf), NEW d \in Clients, d # c, MountOf(d) = MountOf(c), Active(d), Active(c)'
        PROVE  FALSE
    <3>1. k.pc \notin {"idle", "queued"}
      BY Zenon, <1>4, <2>1 DEF Active
    <3>2. CASE Active(c)
      BY Zenon, <1>1, <2>1, <3>2 DEF OneActive
    <3>3. CASE FreeThread(MountOf(c))
      BY Zenon, <1>1, <2>1, <3>3, FreeAlone
    <3> QED BY Zenon, <3>1, <3>2, <3>3 DEF Quiet
  <2>2. ASSUME NEW d \in Clients, d # c PROVE Active(d)' <=> Active(d)
    BY Zenon, <1>4, <2>2 DEF Active
  <2>3. ASSUME Serial(lockConf), NEW d \in Clients, NEW e \in Clients, MountOf(d) = MountOf(e),
               Active(d)', Active(e)'
        PROVE  d = e
    <3>1. CASE d = c
      BY Zenon, <2>1, <2>2, <2>3, <3>1
    <3>2. CASE e = c
      BY Zenon, <2>1, <2>2, <2>3, <3>2
    <3>3. CASE d # c /\ e # c
      BY Zenon, <1>1, <2>2, <2>3, <3>3 DEF OneActive
    <3> QED BY Zenon, <3>1, <3>2, <3>3
  <2> QED BY Zenon, <1>2, <2>3, ActiveNext
<1>11. HeldLow'
  <2>1. ASSUME NEW d \in Clients, NEW f \in LockFiles, NEW b \in Bytes
        PROVE  held'[d][f][b] \in {"none", Due(d, f, b)'} \/ Due(d, f, b)' = "W"
    BY Zenon, <1>1, <1>2, <1>6 DEF HeldLow, DueKept
  <2> QED BY Zenon, <1>2, <2>1, LowNext
<1>12. DueApart'
  <2>1. ASSUME OnTime, NEW d \in Clients, NEW e \in Clients, NEW f \in LockFiles, NEW b \in Bytes, d # e
        PROVE  Apart(Due(d, f, b)', Due(e, f, b)')
    <3>1. Apart(Due(d, f, b), Due(e, f, b))
      BY Zenon, <1>1, <2>1 DEF DueApart
    <3>2. Due(d, f, b)' = Due(d, f, b) /\ Due(e, f, b)' = Due(e, f, b)
      BY Zenon, <1>6 DEF DueKept
    <3> QED BY Zenon, <3>1, <3>2
  <2> QED BY Zenon, <1>2, <2>1, ApartNext
<1>13. OwnDisjoint'
  BY Zenon, <1>1, <1>2 DEF OwnDisjoint, At, Bytes
<1>14. Covered'
  <2>1. ASSUME OnTime, NEW d \in Clients, NEW f \in LockFiles, NEW b \in Bytes
        PROVE  Backed(d, f, b)'
    <3>1. Backed(d, f, b) /\ DueKept(d, f) /\ RowsKept(d, f)
      BY Zenon, <1>1, <1>2, <1>6, <2>1 DEF Covered, RowsKept
    <3>2. MountOf(d) \in Mounts
      BY Zenon DEF Mounts, MountOf
    <3>3. ASSUME d \in lockOwners[MountOf(d)] PROVE d \in lockOwners'[MountOf(d)]
      BY Zenon, <3>2, <3>3 DEF Quiet
    <3> QED BY Zenon, <1>2, <3>1, <3>3, BackedKept
  <2> QED BY Zenon, <1>2, <2>1, CoveredNext
<1>15. BeatOK' /\ NoClock'
  <2>1. BeatOK'
    BY Zenon, <1>1, <1>2, ConfSame DEF BeatOK, NoBeat
  <2>2. NoClock'
    BY Zenon, <1>1, <1>2 DEF NoClock
  <2> QED BY Zenon, <2>1, <2>2
<1>16. SeenOK'
  <2>1. ASSUME OnTime, Serial(lockConf), NEW d \in Clients, NEW e \in Clients, NEW f \in LockFiles,
               NEW b \in Bytes, NEW r \in leases', call'[d].pc = "insert", call'[d].req.file = f,
               MountOf(e) = MountOf(d), Due(e, f, b)' # "none", Covers(r, e, f, b)
        PROVE  Row(r) \in call'[d].seen
    <3>1. Due(e, f, b) # "none" /\ r \in leases
      BY Zenon, <1>2, <1>6, <2>1 DEF DueKept
    <3>2. SeenBy(d, f, call'[d].seen)
      <4>1. CASE d = c
        BY Zenon, <1>4, <2>1, <4>1 DEF Quiet
      <4>2. CASE d # c
        BY Zenon, <1>1, <1>4, <2>1, <4>2 DEF SeenOK
      <4> QED BY Zenon, <4>1, <4>2
    <3> QED BY Zenon, <2>1, <3>1, <3>2 DEF SeenBy
  <2> QED BY Zenon, <1>2, <2>1, SeenNext
<1>17. Exact'
  <2>1. ASSUME OnTime, lockFaults' = lockConf.faults, NEW r \in leases', NEW b \in Bytes,
               MountOf(r.owner) \in up', call'[r.owner].pc # "closing", At(r, b)
        PROVE  Due(r.owner, r.file, b)' = r.typ
    <3>1. r \in leases /\ r \in LeaseRow
      BY Zenon, <1>1, <1>2 DEF LockTypes
    <3>2. r.owner \in Clients /\ r.file \in LockFiles
      BY Zenon, <3>1 DEF LeaseRow
    <3>3. call[r.owner].pc # "closing"
      BY Zenon, <1>4, <2>1, <3>2 DEF Quiet
    <3>4. Due(r.owner, r.file, b) = r.typ
      BY Zenon, <1>1, <1>2, <2>1, <3>1, <3>3 DEF Exact
    <3> QED BY Zenon, <1>6, <3>2, <3>4 DEF DueKept
  <2> QED BY Zenon, <1>2, <2>1, ExactNext
<1>18. OwnersOK'
  <2>1. ASSUME NEW d \in Clients, Serving(call'[d]) PROVE d \in lockOwners'[MountOf(d)]
    <3>1. MountOf(d) \in Mounts
      BY Zenon DEF Mounts, MountOf
    <3>2. lockOwners[MountOf(d)] \subseteq lockOwners'[MountOf(d)]
      BY Zenon, <3>1 DEF Quiet
    <3>3. CASE Serving(call[d])
      BY Zenon, <1>1, <3>2, <3>3 DEF OwnersOK
    <3>4. CASE ~Serving(call[d])
      BY Zenon, <1>4, <2>1, <3>4 DEF Quiet
    <3> QED BY Zenon, <3>3, <3>4
  <2> QED BY Zenon, <1>2, <2>1, OwnersNext
<1> QED
  BY Zenon, <1>18, <1>7, <1>8, <1>9, <1>10, <1>11, <1>12, <1>13, <1>14, <1>15, <1>16, <1>17 DEF LockInv

LEMMA NoCallFits ==
    /\ NoCall \in Calls /\ ~Flying(NoCall) /\ ~Serving(NoCall) /\ NoCall.pc = "idle" /\ NoCall.todo = {}
    /\ \A c, h : CallFits(c, NoCall, h)
<1>1. /\ NoCall.pc = "idle" /\ NoCall.req = NoRequest /\ NoCall.todo = {} /\ NoCall.seen = {}
      /\ NoCall.cancelled = FALSE
  BY DEF NoCall
<1>2. NoCall \in Calls
  BY DEF NoCall, Calls, Pcs
<1>3. \A c, h : CallFits(c, NoCall, h)
  BY Zenon, <1>1 DEF CallFits
<1> QED BY Zenon, <1>1, <1>2, <1>3 DEF Flying, Serving

\* Whoever is in a request is served by a running mount.
LEMMA Served ==
    ASSUME LockInv, NEW c \in Clients, call[c].pc # "idle"
    PROVE  MountOf(c) \in up
BY Zenon, NoCallFits DEF LockInv, DownOK

LEMMA CallTyped ==
    ASSUME LockInv, NEW c \in Clients
    PROVE  call[c] \in Calls /\ CallFits(c, call[c], held[c]) /\ call[c].pc \in Pcs
<1>1. call[c] \in Calls /\ CallFits(c, call[c], held[c])
  BY Zenon DEF LockInv, LockTypes, CallsOK
<1> QED BY Zenon, <1>1 DEF Calls

LEMMA OwnersSame ==
    ASSUME LockInv, lockOwners' = lockOwners
    PROVE  /\ lockOwners' \in [Mounts -> SUBSET Clients]
           /\ \A m \in Mounts : lockOwners[m] \subseteq lockOwners'[m]
BY Zenon DEF LockInv, LockTypes

\* A request that ends without an effect.
LEMMA EndStep ==
    ASSUME LockConstants, LockInv, NEW c \in Clients, call[c].pc \in {"update", "blocked", "parked"},
           UNCHANGED <<lockConf, leases, session, up, mirror, lockOwners, beat, lockFaults, held>>,
           call' = [call EXCEPT ![c] = NoCall]
    PROVE  LockInv'
<1>1. Quiet(c, NoCall)
  BY Zenon, NoCallFits, Served, OwnersSame DEF Quiet, Flying, Serving
<1> QED BY Zenon, <1>1, QuietStep

LEMMA MoveStep ==
    ASSUME LockConstants, LockInv, NEW c \in Clients, call[c].pc \in {"update", "blocked", "parked"},
           NEW p \in {"update", "blocked", "parked"},
           UNCHANGED <<lockConf, leases, session, up, mirror, lockOwners, beat, lockFaults, held>>,
           call' = [call EXCEPT ![c] = [@ EXCEPT !.pc = p]]
    PROVE  LockInv'
<1> DEFINE k == [call[c] EXCEPT !.pc = p]
<1>1. call' = [call EXCEPT ![c] = k]
  BY Zenon
<1>2. p \in Pcs
  BY Zenon DEF Pcs
<1>3. call[c].req.typ # "G"
  BY Zenon, CallTyped DEF CallFits
<1>4. k \in Calls /\ CallFits(c, k, held[c]) /\ k.pc = p /\ k.req = call[c].req
  <2>1. call[c] \in Calls /\ CallFits(c, call[c], held[c])
    BY Zenon, CallTyped
  <2>2. k \in Calls /\ k.pc = p /\ k.req = call[c].req /\ k.todo = call[c].todo
    BY ONLY <2>1, <1>2, SMTT(30) DEF Calls
  <2> HIDE DEF k
  <2>3. CallFits(c, k, held[c])
    BY Zenon, <1>3, <2>1, <2>2 DEF CallFits
  <2> QED BY Zenon, <2>2, <2>3
<1> HIDE DEF k
<1>5. Quiet(c, k)
  BY Zenon, <1>1, <1>4, Served, OwnersSame DEF Quiet, Flying, Serving, Active
<1> QED BY Zenon, <1>5, QuietStep

LEMMA AskInv ==
    ASSUME LockConstants, LockInv, NEW c \in Clients, Ask(c)
    PROVE  LockInv'
<1>1. PICK q \in lockConf.requests[c] : call' = [call EXCEPT ![c].pc = "queued", ![c].req = q]
  BY Zenon DEF Ask
<1>2. q \in Request /\ q.start <= q.end
  BY Zenon, RequestFacts DEF LockInv, LockTypes
<1>3. call[c] \in Calls /\ CallFits(c, call[c], held[c]) /\ call[c].pc = "idle"
  BY Zenon, CallTyped DEF Ask
<1> DEFINE k == [call[c] EXCEPT !.pc = "queued", !.req = q]
<1>4. call' = [call EXCEPT ![c] = k]
  BY Zenon, <1>1
<1>5. /\ k \in Calls /\ k.pc = "queued" /\ k.req = q /\ k.todo = call[c].todo
  BY <1>2, <1>3 DEF Calls, Pcs
<1> HIDE DEF k
<1>6. CallFits(c, k, held[c])
  BY Zenon, <1>2, <1>3, <1>5 DEF CallFits
<1>7. Quiet(c, k)
  BY Zenon, <1>3, <1>4, <1>5, <1>6, OwnersSame DEF Quiet, Flying, Serving, Ask
<1> QED BY Zenon, <1>7, QuietStep

LEMMA getlkInv ==
    ASSUME LockConstants, LockInv, NEW c \in Clients, getlk(c)
    PROVE  LockInv'
<1> DEFINE k == [call[c] EXCEPT !.pc = "load"]
<1>1. call' = [call EXCEPT ![c] = k] /\ call[c].pc = "queued" /\ call[c].req.typ = "G"
  BY Zenon DEF getlk
<1>2. "load" \in Pcs
  BY Zenon DEF Pcs
<1>3. k \in Calls /\ CallFits(c, k, held[c]) /\ k.pc = "load" /\ k.req = call[c].req
  <2>1. call[c] \in Calls /\ CallFits(c, call[c], held[c])
    BY Zenon, CallTyped
  <2>2. k \in Calls /\ k.pc = "load" /\ k.req = call[c].req /\ k.todo = call[c].todo
    BY ONLY <2>1, <1>2, SMTT(30) DEF Calls
  <2> HIDE DEF k
  <2>3. CallFits(c, k, held[c])
    BY Zenon, <1>1, <2>1, <2>2 DEF CallFits
  <2> QED BY Zenon, <2>2, <2>3
<1> HIDE DEF k
<1>4. Quiet(c, k)
  BY Zenon, <1>1, <1>3, Served, OwnersSame DEF Quiet, Flying, Serving, getlk
<1> QED BY Zenon, <1>4, QuietStep

LEMMA setlkInv ==
    ASSUME LockConstants, LockInv, NEW c \in Clients, setlk(c)
    PROVE  LockInv'
<1> DEFINE k == [call[c] EXCEPT !.pc = "update"]
<1>1. call' = [call EXCEPT ![c] = k] /\ call[c].pc = "queued" /\ call[c].req.typ # "G"
  BY Zenon DEF setlk
<1>2. "update" \in Pcs
  BY Zenon DEF Pcs
<1>3. k \in Calls /\ CallFits(c, k, held[c]) /\ k.pc = "update" /\ k.req = call[c].req
  <2>1. call[c] \in Calls /\ CallFits(c, call[c], held[c])
    BY Zenon, CallTyped
  <2>2. k \in Calls /\ k.pc = "update" /\ k.req = call[c].req /\ k.todo = call[c].todo
    BY ONLY <2>1, <1>2, SMTT(30) DEF Calls
  <2> HIDE DEF k
  <2>3. CallFits(c, k, held[c])
    BY Zenon, <1>1, <2>1, <2>2 DEF CallFits
  <2> QED BY Zenon, <2>2, <2>3
<1> HIDE DEF k
<1>4. /\ lockOwners' \in [Mounts -> SUBSET Clients] /\ c \in lockOwners'[MountOf(c)]
      /\ \A m \in Mounts : lockOwners[m] \subseteq lockOwners'[m]
  <2>1. lockOwners \in [Mounts -> SUBSET Clients]
    BY Zenon DEF LockInv, LockTypes
  <2>2. lockOwners' = [lockOwners EXCEPT ![MountOf(c)] = @ \cup {c}]
    BY Zenon DEF setlk
  <2>3. MountOf(c) \in Mounts
    BY Zenon DEF Mounts, MountOf
  <2> QED BY Zenon, <2>1, <2>2, <2>3
<1>5. Quiet(c, k)
  BY Zenon, <1>1, <1>3, <1>4, Served DEF Quiet, Flying, Serving, setlk
<1> QED BY Zenon, <1>5, QuietStep

LEMMA RegisterInv ==
    ASSUME LockConstants, LockInv, NEW c \in Clients, Register(c)
    PROVE  LockInv'
<1>1. CASE call' = [call EXCEPT ![c] = NoCall]
  BY Zenon, <1>1, EndStep DEF Register
<1>2. CASE call' = [call EXCEPT ![c].pc = "parked"]
  BY Zenon, <1>2, MoveStep DEF Register
<1> QED BY Zenon, <1>1, <1>2 DEF Register

LEMMA WakeInv ==
    ASSUME LockConstants, LockInv, NEW c \in Clients, Wake(c)
    PROVE  LockInv'
<1>1. CASE call[c].cancelled
  BY Zenon, <1>1, EndStep DEF Wake
<1>2. CASE ~call[c].cancelled
  BY Zenon, <1>2, MoveStep DEF Wake
<1> QED BY Zenon, <1>1, <1>2

LEMMA InterruptInv ==
    ASSUME LockConstants, LockInv, NEW c \in Clients, Interrupt(c)
    PROVE  LockInv'
<1> DEFINE k == [call[c] EXCEPT !.cancelled = TRUE]
<1>1. call' = [call EXCEPT ![c] = k] /\ call[c].pc \in {"update", "blocked", "parked"}
  BY Zenon DEF Interrupt
<1>2. call[c] \in Calls /\ CallFits(c, call[c], held[c])
  BY Zenon, CallTyped
<1>3. k \in Calls /\ k.pc = call[c].pc /\ k.req = call[c].req /\ k.todo = call[c].todo
  BY Zenon, <1>2 DEF Calls
<1> HIDE DEF k
<1>4. CallFits(c, k, held[c])
  BY Zenon, <1>2, <1>3 DEF CallFits
<1>5. Quiet(c, k)
  BY Zenon, <1>1, <1>3, <1>4, Served, OwnersSame DEF Quiet, Flying, Serving, Interrupt
<1> QED BY Zenon, <1>5, QuietStep

LEMMA LoadInv ==
    ASSUME LockConstants, LockInv, NEW c \in Clients, Load(c)
    PROVE  LockInv'
<1> DEFINE f == call[c].req.file
           k == [call[c] EXCEPT !.pc = "insert", !.seen = RowsOf(f)]
<1>1. call' = [call EXCEPT ![c] = k] /\ call[c].pc = "load"
  BY DEF Load, load_lock_range_state_blob
<1>2. call[c] \in Calls /\ CallFits(c, call[c], held[c])
  BY Zenon, CallTyped
<1>3. leases \subseteq LeaseRow
  BY Zenon DEF LockInv, LockTypes
<1>4. \A M : M = RowsOf(f) => M \subseteq LockRow
  BY Zenon, <1>3, RowFacts DEF RowsOf, Live
<1>5. k \in Calls /\ k.pc = "insert" /\ k.req = call[c].req /\ k.todo = call[c].todo /\ k.seen = RowsOf(f)
  BY <1>2, <1>4 DEF Calls, Pcs
<1> HIDE DEF k
<1>6. CallFits(c, k, held[c])
  BY Zenon, <1>1, <1>2, <1>5 DEF CallFits
<1>7. ASSUME OnTime PROVE \A g \in LockFiles : k.req.file = g => SeenBy(c, g, k.seen)
  <2>1. SUFFICES ASSUME NEW g \in LockFiles, k.req.file = g, NEW d \in Clients, NEW b \in Bytes,
                        NEW r \in leases, Due(d, g, b) # "none", Covers(r, d, g, b)
                 PROVE  Row(r) \in k.seen
    BY Zenon DEF SeenBy
  <2>2. r.age < Ttl /\ r.file = g
    BY Zenon, <1>7, <2>1, LiveRow DEF Covers
  <2>3. Row(r) \in RowsOf(g)
    BY Zenon, <2>2 DEF RowsOf, Live
  <2> QED BY Zenon, <1>5, <2>1, <2>3
<1>8. Quiet(c, k)
  BY Zenon, <1>1, <1>5, <1>6, <1>7, Served, OwnersSame DEF Quiet, Flying, Serving, Load, Active
<1> QED BY Zenon, <1>8, QuietStep

-----------------------------------------------------------------------------
(* The heartbeat, the clock and the sessions: no request takes a step. *)

Aside ==
    /\ UNCHANGED <<lockConf, up, mirror, lockOwners, call, lockFaults, held>>
    /\ leases' \subseteq LeaseRow /\ beat' \in [Mounts -> Beats]
    /\ session' \in [Mounts -> {"live", "lapsed", "gone"}] /\ \A m \in up : session'[m] = "live"
    /\ \A r \in leases' : \E s \in leases : Row(s) = Row(r)
    /\ OwnDisjoint' /\ Covered' /\ BeatOK' /\ NoClock'

LEMMA AsideStep ==
    ASSUME LockConstants, LockInv, Aside
    PROVE  LockInv'
<1>1. /\ LockTypes /\ CallsOK /\ DownOK /\ OneActive /\ OwnersOK /\ HeldLow /\ DueApart /\ OwnDisjoint
      /\ Covered /\ BeatOK /\ NoClock /\ SeenOK /\ Exact
  BY Zenon DEF LockInv
<1>2. /\ lockConf' = lockConf /\ up' = up /\ mirror' = mirror /\ lockOwners' = lockOwners
      /\ call' = call /\ lockFaults' = lockFaults /\ held' = held
  BY Zenon DEF Aside
<1>3. \A d \in Clients, f \in LockFiles : DueKept(d, f)
  BY Zenon, <1>2, DueSame
<1>4. LockTypes'
  <2>1. /\ leases' \subseteq LeaseRow /\ session' \in [Mounts -> {"live", "lapsed", "gone"}]
        /\ beat' \in [Mounts -> Beats]
    BY Zenon DEF Aside
  <2>2. /\ up' \subseteq Mounts /\ mirror' \in [Mounts -> SUBSET LockRow]
        /\ lockOwners' \in [Mounts -> SUBSET Clients] /\ call' \in [Clients -> Calls]
        /\ lockFaults' \in 0..lockConf.faults
        /\ held' \in [Clients -> [LockFiles -> [Bytes -> {"none", "R", "W"}]]]
    BY Zenon, <1>1, <1>2 DEF LockTypes
  <2> QED BY Zenon, <1>1, <1>2, <2>1, <2>2, TypesNext
<1>5. CallsOK'
  <2>1. ASSUME NEW d \in Clients PROVE CallFits(d, call'[d], held'[d])
    BY Zenon, <1>1, <1>2 DEF CallsOK
  <2> QED BY Zenon, <1>2, <2>1, CallsNext
<1>6. DownOK'
  <2>1. ASSUME NEW d \in Clients, MountOf(d) \notin up' PROVE call'[d] = NoCall /\ held'[d] = NothingHeld
    BY Zenon, <1>1, <1>2, <2>1 DEF DownOK
  <2>2. \A m \in up' : session'[m] = "live"
    BY Zenon, <1>2 DEF Aside
  <2> QED BY Zenon, <1>2, <2>1, <2>2, DownNext
<1>7. OneActive'
  <2>1. ASSUME Serial(lockConf), NEW d \in Clients, NEW e \in Clients, MountOf(d) = MountOf(e),
               Active(d)', Active(e)'
        PROVE  d = e
    BY Zenon, <1>1, <1>2, <2>1 DEF OneActive, Active
  <2> QED BY Zenon, <1>2, <2>1, ActiveNext
<1>8. HeldLow'
  <2>1. ASSUME NEW d \in Clients, NEW f \in LockFiles, NEW b \in Bytes
        PROVE  held'[d][f][b] \in {"none", Due(d, f, b)'} \/ Due(d, f, b)' = "W"
    BY Zenon, <1>1, <1>2, <1>3 DEF HeldLow, DueKept
  <2> QED BY Zenon, <1>2, <2>1, LowNext
<1>9. DueApart'
  <2>1. ASSUME OnTime, NEW d \in Clients, NEW e \in Clients, NEW f \in LockFiles, NEW b \in Bytes, d # e
        PROVE  Apart(Due(d, f, b)', Due(e, f, b)')
    <3>1. Apart(Due(d, f, b), Due(e, f, b))
      BY Zenon, <1>1, <2>1 DEF DueApart
    <3>2. Due(d, f, b)' = Due(d, f, b) /\ Due(e, f, b)' = Due(e, f, b)
      BY Zenon, <1>3 DEF DueKept
    <3> QED BY Zenon, <3>1, <3>2
  <2> QED BY Zenon, <1>2, <2>1, ApartNext
<1>10. ASSUME NEW r \in leases'
       PROVE  /\ r \in LeaseRow
              /\ \E s \in leases : s \in LeaseRow /\ Row(s) = Row(r)
  BY Zenon, <1>1 DEF Aside, LockTypes
<1>11. SeenOK'
  <2>1. ASSUME OnTime, Serial(lockConf), NEW d \in Clients, NEW e \in Clients, NEW f \in LockFiles,
               NEW b \in Bytes, NEW r \in leases', call'[d].pc = "insert", call'[d].req.file = f,
               MountOf(e) = MountOf(d), Due(e, f, b)' # "none", Covers(r, e, f, b)
        PROVE  Row(r) \in call'[d].seen
    <3>1. PICK s \in leases : s \in LeaseRow /\ Row(s) = Row(r)
      BY Zenon, <1>10
    <3>2. Covers(s, e, f, b)
      BY Zenon, <1>10, <2>1, <3>1, SameRow
    <3>3. Due(e, f, b) # "none"
      BY Zenon, <1>3, <2>1 DEF DueKept
    <3>4. SeenBy(d, f, call[d].seen)
      BY Zenon, <1>1, <1>2, <2>1 DEF SeenOK
    <3>5. Row(s) \in call[d].seen
      BY Zenon, <2>1, <3>2, <3>3, <3>4 DEF SeenBy
    <3> QED BY Zenon, <1>2, <3>1, <3>5
  <2> QED BY Zenon, <1>2, <2>1, SeenNext
<1>12. Exact'
  <2>1. ASSUME OnTime, lockFaults' = lockConf.faults, NEW r \in leases', NEW b \in Bytes,
               MountOf(r.owner) \in up', call'[r.owner].pc # "closing", At(r, b)
        PROVE  Due(r.owner, r.file, b)' = r.typ
    <3>1. PICK s \in leases : s \in LeaseRow /\ Row(s) = Row(r)
      BY Zenon, <1>10
    <3>2. s.owner = r.owner /\ s.file = r.file /\ s.typ = r.typ /\ At(s, b)
      BY Zenon, <1>10, <2>1, <3>1, SameRow
    <3>3. s.owner \in Clients /\ s.file \in LockFiles
      BY Zenon, <3>1 DEF LeaseRow
    <3>4. Due(s.owner, s.file, b) = s.typ
      BY Zenon, <1>1, <1>2, <2>1, <3>2 DEF Exact
    <3> QED BY Zenon, <1>3, <3>2, <3>3, <3>4 DEF DueKept
  <2> QED BY Zenon, <1>2, <2>1, ExactNext
<1>13. OwnersOK'
  <2>1. ASSUME NEW d \in Clients, Serving(call'[d]) PROVE d \in lockOwners'[MountOf(d)]
    BY Zenon, <1>1, <1>2, <2>1 DEF OwnersOK
  <2> QED BY Zenon, <1>2, <2>1, OwnersNext
<1> QED
  BY Zenon, <1>13, <1>4, <1>5, <1>6, <1>7, <1>8, <1>9, <1>11, <1>12 DEF LockInv, Aside

\* Only the clients of a running mount are due anything.
LEMMA DueServed ==
    ASSUME LockInv, NEW c \in Clients, NEW f \in LockFiles, NEW b \in Bytes, Due(c, f, b) # "none"
    PROVE  MountOf(c) \in up
<1>1. SUFFICES ASSUME MountOf(c) \notin up PROVE FALSE
  BY Zenon
<1>2. call[c] = NoCall /\ held[c] = NothingHeld
  BY Zenon, <1>1 DEF LockInv, DownOK
<1>3. NothingHeld[f][b] = "none"
  BY Zenon DEF NothingHeld
<1>4. ~InFlight(c, f)
  BY Zenon, <1>2, NoCallFits DEF InFlight
<1> QED BY Zenon, <1>2, <1>3, <1>4 DEF Due

\* The rows get other ages.
AgedBy(g) ==
    /\ leases' = {g[r] : r \in leases}
    /\ \A r \in leases : g[r] \in LeaseRow /\ Row(g[r]) = Row(r)

LEMMA AgedRows ==
    ASSUME LockTypes, OwnDisjoint, NEW g, AgedBy(g)
    PROVE  /\ leases' \subseteq LeaseRow /\ \A r \in leases' : \E s \in leases : Row(s) = Row(r)
           /\ OwnDisjoint'
<1>1. leases' \subseteq LeaseRow /\ \A r \in leases' : \E s \in leases : Row(s) = Row(r)
  BY Zenon DEF AgedBy
<1>2. ASSUME NEW r \in leases', NEW s \in leases', NEW b \in Bytes,
             r.owner = s.owner, r.file = s.file, At(r, b), At(s, b)
      PROVE  r = s
  <2>1. PICK x \in leases : r = g[x]
    BY Zenon DEF AgedBy
  <2>2. PICK y \in leases : s = g[y]
    BY Zenon DEF AgedBy
  <2>3. /\ x \in LeaseRow /\ y \in LeaseRow /\ r \in LeaseRow /\ s \in LeaseRow
        /\ Row(r) = Row(x) /\ Row(s) = Row(y)
    BY Zenon, <2>1, <2>2 DEF AgedBy, LockTypes
  <2>4. x.owner = y.owner /\ x.file = y.file /\ At(x, b) /\ At(y, b)
    BY Zenon, <1>2, <2>3, SameRow
  <2>5. x = y
    BY Zenon, <2>4 DEF OwnDisjoint
  <2> QED BY Zenon, <2>1, <2>2, <2>5
<1>3. OwnDisjoint'
  BY Zenon, <1>2 DEF OwnDisjoint, At, Bytes
<1> QED BY Zenon, <1>1, <1>3

LEMMA AgedBacked ==
    ASSUME LockTypes, NEW g, AgedBy(g), NEW c \in Clients, NEW f \in LockFiles, NEW b \in Bytes,
           Backed(c, f, b), DueKept(c, f),
           \A r \in leases : /\ Due(c, f, b) # "none" /\ Covers(r, c, f, b) /\ Renewed(r, c, f)
                             => Renewed(g[r], c, f)'
    PROVE  Backed(c, f, b)'
<1>1. SUFFICES ASSUME Due(c, f, b) # "none"
               PROVE  /\ \E r \in leases' : Covers(r, c, f, b)
                      /\ \A r \in leases' : Covers(r, c, f, b) =>
                             r.typ = Due(c, f, b) /\ Renewed(r, c, f)'
  BY Zenon DEF Backed, DueKept, Covers, At
<1>2. ASSUME NEW r \in leases
      PROVE  g[r] \in leases' /\ g[r].typ = r.typ /\ (Covers(g[r], c, f, b) <=> Covers(r, c, f, b))
  <2>1. r \in LeaseRow /\ g[r] \in LeaseRow /\ Row(g[r]) = Row(r) /\ g[r] \in leases'
    BY Zenon DEF AgedBy, LockTypes
  <2> DEFINE s == g[r]
  <2>2. s \in LeaseRow /\ Row(s) = Row(r)
    BY Zenon, <2>1
  <2> HIDE DEF s
  <2>3. s.typ = r.typ /\ (Covers(s, c, f, b) <=> Covers(r, c, f, b))
    BY Zenon, <2>1, <2>2, SameRow
  <2> QED BY Zenon, <2>1, <2>3 DEF s
<1>3. \E r \in leases' : Covers(r, c, f, b)
  BY Zenon, <1>1, <1>2 DEF Backed
<1>4. ASSUME NEW s \in leases', Covers(s, c, f, b) PROVE s.typ = Due(c, f, b) /\ Renewed(s, c, f)'
  <2>1. PICK r \in leases : s = g[r]
    BY Zenon DEF AgedBy
  <2>2. Covers(r, c, f, b) /\ s.typ = r.typ
    BY Zenon, <1>2, <1>4, <2>1
  <2>3. r.typ = Due(c, f, b) /\ Renewed(r, c, f)
    BY Zenon, <1>1, <2>2 DEF Backed
  <2>4. Renewed(g[r], c, f)'
    BY Zenon, <1>1, <2>2, <2>3
  <2> QED BY Zenon, <2>1, <2>2, <2>3, <2>4
<1> QED BY Zenon, <1>3, <1>4

LEMMA BeatStartInv ==
    ASSUME LockConstants, LockInv, NEW m \in Mounts, BeatStart(m)
    PROVE  LockInv'
<1> DEFINE H == heartbeat_pg_mount_state(m)
           n == [todo |-> H, done |-> H = {}]
<1>1. /\ LockTypes /\ DownOK /\ OwnDisjoint /\ Covered /\ BeatOK /\ NoClock
  BY Zenon DEF LockInv
<1>2. /\ UNCHANGED <<lockConf, leases, session, up, mirror, lockOwners, call, lockFaults, held>>
      /\ beat' = [beat EXCEPT ![m] = n]
  BY Zenon DEF BeatStart
<1>3. H \subseteq LockRow
  BY Zenon, <1>1 DEF heartbeat_pg_mount_state, LockTypes
<1>4. n \in Beats /\ n.todo = H /\ (n.done <=> H = {})
  <2>1. n.todo = H /\ (n.done <=> H = {})
    BY Zenon
  <2>2. H \in SUBSET LockRow /\ (H = {}) \in BOOLEAN
    BY Zenon, <1>3
  <2>3. n \in Beats
    BY Zenon, <2>2 DEF Beats
  <2> QED BY Zenon, <2>1, <2>3
<1>5. n.done => n # NoBeat
  BY DEF NoBeat
<1> HIDE DEF n
<1>6. beat \in [Mounts -> Beats]
  BY Zenon, <1>1 DEF LockTypes
<1>7. beat' \in [Mounts -> Beats] /\ beat'[m] = n /\ \A p \in Mounts : p # m => beat'[p] = beat[p]
  BY Zenon, <1>2, <1>4, <1>6
<1>8. BeatOK'
  <2>1. ASSUME NEW p \in Mounts, beat'[p].done PROVE beat'[p] # NoBeat /\ beat'[p].todo = {}
    <3>1. CASE p = m
      BY Zenon, <1>4, <1>5, <1>7, <2>1, <3>1
    <3>2. CASE p # m
      BY Zenon, <1>1, <1>7, <2>1, <3>2 DEF BeatOK
    <3> QED BY Zenon, <3>1, <3>2
  <2> QED BY Zenon, <1>2, <2>1, ConfSame DEF BeatOK, NoBeat
<1>9. \A c \in Clients, f \in LockFiles : DueKept(c, f)
  BY Zenon, <1>2, DueSame
<1>10. Covered'
  <2>1. ASSUME OnTime, NEW c \in Clients, NEW f \in LockFiles, NEW b \in Bytes
        PROVE  Backed(c, f, b)'
    <3>1. Backed(c, f, b) /\ DueKept(c, f) /\ RowsKept(c, f) /\ MountOf(c) \in Mounts
      BY Zenon, <1>1, <1>2, <1>9, <2>1 DEF Covered, RowsKept, Mounts, MountOf
    <3>2. CASE MountOf(c) # m
      BY Zenon, <1>2, <1>7, <3>1, <3>2, BackedKept
    <3>3. CASE MountOf(c) = m
      <4>1. ASSUME NEW r, r.owner = c, Renewed(r, c, f) PROVE Renewed(r, c, f)'
        <5>1. MountOf(c)' = MountOf(c) /\ (Serial(lockConf)' <=> Serial(lockConf))
              /\ (InFlight(c, f)' <=> InFlight(c, f))
          BY Zenon, <1>2, <3>1, ConfSame DEF DueKept
        <5>2. ASSUME lockConf.clock = "timely", Row(r) \notin H PROVE r.age = 0
          <6>1. Serial(lockConf)
            BY Zenon, <1>1, <5>2, ConfFacts DEF LockTypes
          <6>2. InFlight(c, f) \/ (Row(r) \in mirror[m] /\ c \in lockOwners[m])
            BY Zenon, <3>3, <4>1, <6>1 DEF Renewed
          <6>3. CASE InFlight(c, f)
            BY Zenon, <4>1, <5>2, <6>3 DEF Renewed
          <6>4. CASE Row(r) \in mirror[m] /\ c \in lockOwners[m]
            <7>1. Row(r).owner = c
              BY Zenon, <4>1 DEF Row
            <7> QED BY Zenon, <5>2, <6>4, <7>1 DEF heartbeat_pg_mount_state
          <6> QED BY Zenon, <6>2, <6>3, <6>4
        <5>3. lockConf.clock = "timely" =>
                /\ r.age <= 1
                /\ InFlight(c, f)' => r.age = 0
                /\ beat'[MountOf(c)] # NoBeat /\ Row(r) \notin beat'[MountOf(c)].todo => r.age = 0
          BY Zenon, <1>4, <1>7, <3>3, <4>1, <5>1, <5>2 DEF Renewed
        <5>4. Serial(lockConf) =>
                InFlight(c, f)' \/ (Row(r) \in mirror'[MountOf(c)] /\ c \in lockOwners'[MountOf(c)])
          BY Zenon, <1>2, <4>1, <5>1 DEF Renewed
        <5> QED BY Zenon, <1>2, <5>1, <5>3, <5>4 DEF Renewed, Row, NoBeat
      <4> QED BY Zenon, <1>2, <3>1, <4>1 DEF Backed, DueKept, Covers, At
    <3> QED BY Zenon, <3>2, <3>3
  <2> QED BY Zenon, <1>2, <2>1, CoveredNext
<1>11. OwnDisjoint' /\ NoClock'
  <2>1. OwnDisjoint'
    BY Zenon, <1>1, <1>2 DEF OwnDisjoint, At, Bytes
  <2>2. NoClock'
    BY Zenon, <1>1, <1>2 DEF NoClock
  <2> QED BY Zenon, <2>1, <2>2
<1>12. Aside
  BY Zenon, <1>1, <1>2, <1>7, <1>8, <1>10, <1>11 DEF Aside, LockTypes, DownOK
<1> QED BY Zenon, <1>12, AsideStep

LEMMA AgeSet ==
    ASSUME NEW r \in LeaseRow, NEW a \in 0..Ttl, NEW s, s = [r EXCEPT !.age = a]
    PROVE  s \in LeaseRow /\ Row(s) = Row(r) /\ s.age = a
<1>1. /\ s \in LeaseRow /\ s.age = a /\ s.file = r.file /\ s.owner = r.owner /\ s.typ = r.typ
      /\ s.start = r.start /\ s.end = r.end
  BY DEF LeaseRow
<1> QED BY Zenon, <1>1 DEF Row

LEMMA heartbeatInv ==
    ASSUME LockConstants, LockInv, NEW m \in Mounts, heartbeat_lock_range_lease(m)
    PROVE  LockInv'
<1>1. LockTypes /\ DownOK /\ OwnDisjoint /\ Covered /\ BeatOK /\ NoClock
  BY Zenon DEF LockInv
<1>2. PICK w \in beat[m].todo :
        /\ leases' = {IF Row(x) = w THEN [x EXCEPT !.age = 0] ELSE x : x \in leases}
        /\ beat' = [beat EXCEPT ![m] = [todo |-> @.todo \ {w}, done |-> @.todo = {w}]]
        /\ UNCHANGED <<lockConf, session, up, mirror, lockOwners, call, lockFaults, held>>
  BY Zenon DEF heartbeat_lock_range_lease
<1> DEFINE T == beat[m].todo
           n == [todo |-> T \ {w}, done |-> T = {w}]
<1> PICK g : g = [x \in leases |-> IF Row(x) = w THEN [x EXCEPT !.age = 0] ELSE x]
  BY Zenon
<1>3. beat \in [Mounts -> Beats] /\ leases \subseteq LeaseRow
  BY Zenon, <1>1 DEF LockTypes
<1>4. T \subseteq LockRow /\ beat[m] # NoBeat
  <2>1. beat[m] \in Beats
    BY Zenon, <1>3
  <2>2. T \in SUBSET LockRow
    BY Zenon, <2>1 DEF Beats
  <2>3. NoBeat.todo = {}
    BY Zenon DEF NoBeat
  <2> QED BY Zenon, <1>2, <2>2, <2>3
<1>5. n \in Beats /\ n.todo = T \ {w} /\ (n.done <=> T = {w})
  <2>1. n.todo = T \ {w} /\ (n.done <=> T = {w})
    BY Zenon
  <2>2. T \ {w} \in SUBSET LockRow /\ (T = {w}) \in BOOLEAN
    BY Zenon, <1>4
  <2>3. n \in Beats
    BY Zenon, <2>2 DEF Beats
  <2> QED BY Zenon, <2>1, <2>3
<1>6. n.done => n # NoBeat
  BY DEF NoBeat
<1>7. beat' = [beat EXCEPT ![m] = n]
  BY Zenon, <1>2
<1> HIDE DEF n
<1>8. beat' \in [Mounts -> Beats] /\ beat'[m] = n /\ \A p \in Mounts : p # m => beat'[p] = beat[p]
  BY Zenon, <1>3, <1>5, <1>7
<1>9. BeatOK'
  <2>1. ASSUME NEW p \in Mounts, beat'[p].done PROVE beat'[p] # NoBeat /\ beat'[p].todo = {}
    <3>1. CASE p = m
      <4>1. T \ {w} = {}
        BY Zenon, <1>5, <1>8, <2>1, <3>1
      <4> QED BY Zenon, <1>5, <1>6, <1>8, <2>1, <3>1, <4>1
    <3>2. CASE p # m
      BY Zenon, <1>1, <1>8, <2>1, <3>2 DEF BeatOK
    <3> QED BY Zenon, <3>1, <3>2
  <2> QED BY Zenon, <1>2, <2>1, ConfSame DEF BeatOK, NoBeat
<1>10. \A x \in leases : g[x] = IF Row(x) = w THEN [x EXCEPT !.age = 0] ELSE x
  BY Zenon
<1>11. leases' = {g[x] : x \in leases}
  BY Zenon, <1>2
<1> HIDE DEF T
<1>12. ASSUME NEW x \in leases
       PROVE  /\ g[x] \in LeaseRow /\ Row(g[x]) = Row(x)
              /\ g[x].age = 0 \/ (g[x] = x /\ Row(x) # w)
  <2>1. x \in LeaseRow
    BY Zenon, <1>3
  <2>2. 0 \in 0..Ttl
    <3>1. Ttl \in Nat
      BY Zenon, <1>1, ConfFacts DEF LockTypes
    <3> QED BY ONLY <3>1, SMTT(30)
  <2>3. CASE Row(x) = w
    <3> DEFINE s == [x EXCEPT !.age = 0]
    <3>1. s \in LeaseRow /\ Row(s) = Row(x) /\ s.age = 0
      BY Zenon, <2>1, <2>2, AgeSet
    <3>2. g[x] = s
      BY Zenon, <1>10, <2>3
    <3> QED BY Zenon, <3>1, <3>2
  <2>4. CASE Row(x) # w
    BY Zenon, <1>10, <2>1, <2>4
  <2> QED BY Zenon, <2>3, <2>4
<1>13. AgedBy(g)
  BY Zenon, <1>11, <1>12 DEF AgedBy
<1>14. \A c \in Clients, f \in LockFiles : DueKept(c, f)
  BY Zenon, <1>2, DueSame
<1>15. Covered'
  <2>1. ASSUME OnTime, NEW c \in Clients, NEW f \in LockFiles, NEW b \in Bytes
        PROVE  Backed(c, f, b)'
    <3>1. Backed(c, f, b) /\ DueKept(c, f) /\ MountOf(c) \in Mounts
      BY Zenon, <1>1, <1>14, <2>1 DEF Covered, Mounts, MountOf
    <3>2. ASSUME NEW r \in leases, Renewed(r, c, f) PROVE Renewed(g[r], c, f)'
      <4>1. MountOf(c)' = MountOf(c) /\ (Serial(lockConf)' <=> Serial(lockConf))
            /\ (InFlight(c, f)' <=> InFlight(c, f))
        BY Zenon, <1>2, <3>1, ConfSame DEF DueKept
      <4>2. Row(g[r]) = Row(r) /\ (g[r].age = 0 \/ (g[r] = r /\ Row(r) # w))
        BY Zenon, <1>12
      <4> PICK s : s = g[r]
        BY Zenon
      <4>3. ASSUME lockConf.clock = "timely", s = r, Row(r) # w, beat'[MountOf(c)] # NoBeat,
                   Row(r) \notin beat'[MountOf(c)].todo
            PROVE  r.age = 0
        <5>1. CASE MountOf(c) = m
          <6>1. Row(r) \notin T \ {w}
            BY Zenon, <1>5, <1>8, <4>3, <5>1
          <6>2. Row(r) \notin T
            BY Zenon, <4>3, <6>1
          <6> QED BY Zenon, <1>4, <3>2, <4>3, <5>1, <6>2 DEF Renewed, T
        <5>2. CASE MountOf(c) # m
          BY Zenon, <1>8, <3>1, <3>2, <4>3, <5>2 DEF Renewed
        <5> QED BY Zenon, <5>1, <5>2
      <4>4. s.age <= 1 \/ s = r
        <5>1. s.age = 0 => s.age <= 1
          BY SMTT(30)
        <5> QED BY Zenon, <4>2, <5>1
      <4>5. lockConf.clock = "timely" =>
              /\ s.age <= 1
              /\ InFlight(c, f)' => s.age = 0
              /\ beat'[MountOf(c)] # NoBeat /\ Row(s) \notin beat'[MountOf(c)].todo => s.age = 0
        BY Zenon, <3>2, <4>1, <4>2, <4>3, <4>4 DEF Renewed
      <4>6. Serial(lockConf) =>
              InFlight(c, f)' \/ (Row(s) \in mirror'[MountOf(c)] /\ c \in lockOwners'[MountOf(c)])
        BY Zenon, <1>2, <3>2, <4>1, <4>2 DEF Renewed
      <4> QED BY Zenon, <1>2, <4>1, <4>5, <4>6 DEF Renewed, Row, NoBeat
    <3> QED BY Zenon, <1>1, <1>13, <3>1, <3>2, AgedBacked
  <2> QED BY Zenon, <1>2, <2>1, CoveredNext
<1>16. NoClock'
  <2>1. ASSUME lockConf.clock = "none", NEW r \in leases' PROVE r.age = 0
    <3>1. PICK x \in leases : r = g[x]
      BY Zenon, <1>11
    <3>2. x.age = 0
      BY Zenon, <1>1, <2>1 DEF NoClock
    <3> QED BY Zenon, <1>12, <3>1, <3>2
  <2>2. lockConf' = lockConf
    BY Zenon, <1>2
  <2> QED BY Zenon, <2>1, <2>2 DEF NoClock
<1>17. /\ leases' \subseteq LeaseRow /\ \A r \in leases' : \E s \in leases : Row(s) = Row(r)
       /\ OwnDisjoint'
  BY Zenon, <1>1, <1>13, AgedRows
<1>18. Aside
  BY Zenon, <1>1, <1>2, <1>8, <1>9, <1>15, <1>16, <1>17 DEF Aside, LockTypes, DownOK
<1> QED BY Zenon, <1>18, AsideStep

LEMMA TickInv ==
    ASSUME LockConstants, LockInv, Tick
    PROVE  LockInv'
<1>1. LockTypes /\ DownOK /\ OwnDisjoint /\ Covered /\ BeatOK /\ NoClock
  BY Zenon DEF LockInv
<1> DEFINE older(a) == IF a < Ttl THEN a + 1 ELSE a
<1> PICK g : g = [x \in leases |-> [x EXCEPT !.age = older(x.age)]]
  BY Zenon
<1>2. /\ leases' = {[x EXCEPT !.age = older(x.age)] : x \in leases}
      /\ beat' = [p \in Mounts |-> NoBeat]
      /\ UNCHANGED <<lockConf, session, up, mirror, lockOwners, call, lockFaults, held>>
      /\ lockConf.clock # "none"
  BY DEF Tick
<1>3. leases \subseteq LeaseRow /\ Ttl \in Nat /\ Ttl >= 2
  BY Zenon, <1>1, ConfFacts DEF LockTypes
<1>4. NoBeat \in Beats /\ NoBeat.done = FALSE
  BY DEF NoBeat, Beats
<1>5. beat' \in [Mounts -> Beats] /\ \A p \in Mounts : beat'[p] = NoBeat
  BY Zenon, <1>2, <1>4
<1>6. BeatOK'
  BY Zenon, <1>2, <1>4, <1>5, ConfSame DEF BeatOK, NoBeat
<1>7. ASSUME NEW a \in 0..Ttl PROVE older(a) \in 0..Ttl /\ (a = 0 => older(a) = 1)
  BY <1>3
<1>8. \A x \in leases : g[x] = [x EXCEPT !.age = older(x.age)]
  BY Zenon
<1>9. leases' = {g[x] : x \in leases}
  BY Zenon, <1>2
<1> HIDE DEF older
<1>10. ASSUME NEW x \in leases
       PROVE  g[x] \in LeaseRow /\ Row(g[x]) = Row(x) /\ (x.age = 0 => g[x].age = 1)
  <2>1. x \in LeaseRow
    BY Zenon, <1>3
  <2>2. x.age \in 0..Ttl
    BY Zenon, <2>1 DEF LeaseRow
  <2>3. older(x.age) \in 0..Ttl /\ (x.age = 0 => older(x.age) = 1)
    BY Zenon, <1>7, <2>2
  <2> DEFINE s == [x EXCEPT !.age = older(x.age)]
  <2>4. s \in LeaseRow /\ Row(s) = Row(x) /\ s.age = older(x.age)
    BY Zenon, <2>1, <2>3, AgeSet
  <2>5. g[x] = s
    BY Zenon, <1>8
  <2> QED BY Zenon, <2>3, <2>4, <2>5
<1>11. AgedBy(g)
  BY Zenon, <1>9, <1>10 DEF AgedBy
<1>12. \A c \in Clients, f \in LockFiles : DueKept(c, f)
  BY Zenon, <1>2, DueSame
<1>13. Covered'
  <2>1. ASSUME OnTime, NEW c \in Clients, NEW f \in LockFiles, NEW b \in Bytes
        PROVE  Backed(c, f, b)'
    <3>1. Backed(c, f, b) /\ DueKept(c, f) /\ MountOf(c) \in Mounts
      BY Zenon, <1>1, <1>12, <2>1 DEF Covered, Mounts, MountOf
    <3>2. lockConf.clock = "timely"
      <4>1. lockConf.clock \in {"none", "timely", "late"}
        BY Zenon, <1>1, ConfFacts DEF LockTypes
      <4> QED BY Zenon, <1>2, <2>1, <4>1 DEF OnTime
    <3>3. ~InFlight(c, f)
      BY Zenon, <3>2 DEF Tick, InFlight, Flying
    <3>4. ASSUME NEW r \in leases, Due(c, f, b) # "none", Renewed(r, c, f) PROVE Renewed(g[r], c, f)'
      <4>1. MountOf(c)' = MountOf(c) /\ (Serial(lockConf)' <=> Serial(lockConf)) /\ ~InFlight(c, f)'
        BY Zenon, <1>2, <3>1, <3>3, ConfSame DEF DueKept
      <4>2. MountOf(c) \in up
        BY Zenon, <3>4, DueServed
      <4>3. beat[MountOf(c)].done
        BY Zenon, <3>2, <4>2 DEF Tick
      <4>4. beat[MountOf(c)] # NoBeat /\ beat[MountOf(c)].todo = {}
        BY Zenon, <1>1, <3>1, <4>3 DEF BeatOK
      <4>5. r.age = 0
        BY Zenon, <3>2, <3>4, <4>4 DEF Renewed
      <4>6. Row(g[r]) = Row(r) /\ g[r].age = 1
        BY Zenon, <1>10, <4>5
      <4> PICK s : s = g[r]
        BY Zenon
      <4>7. s.age <= 1
        BY ONLY <4>6, s = g[r], SMTT(30)
      <4>8. beat'[MountOf(c)] = NoBeat
        BY Zenon, <1>5, <3>1
      <4>9. Serial(lockConf) => Row(s) \in mirror'[MountOf(c)] /\ c \in lockOwners'[MountOf(c)]
        BY Zenon, <1>2, <3>3, <3>4, <4>6 DEF Renewed
      <4> QED BY Zenon, <1>2, <4>1, <4>7, <4>8, <4>9 DEF Renewed, Row, NoBeat
    <3> QED BY Zenon, <1>1, <1>11, <3>1, <3>4, AgedBacked
  <2> QED BY Zenon, <1>2, <2>1, CoveredNext
<1>14. NoClock'
  BY Zenon, <1>2 DEF NoClock
<1>15. /\ leases' \subseteq LeaseRow /\ \A r \in leases' : \E s \in leases : Row(s) = Row(r)
       /\ OwnDisjoint'
  BY Zenon, <1>1, <1>11, AgedRows
<1>16. Aside
  BY Zenon, <1>1, <1>2, <1>5, <1>6, <1>13, <1>14, <1>15 DEF Aside, LockTypes, DownOK
<1> QED BY Zenon, <1>16, AsideStep

LEMMA SessionLapsesInv ==
    ASSUME LockConstants, LockInv, NEW m \in Mounts, SessionLapses(m)
    PROVE  LockInv'
<1>1. LockTypes /\ DownOK /\ OwnDisjoint /\ Covered /\ BeatOK /\ NoClock
  BY Zenon DEF LockInv
<1>2. /\ UNCHANGED <<lockConf, leases, up, mirror, lockOwners, call, beat, lockFaults, held>>
      /\ session' = [session EXCEPT ![m] = "lapsed"] /\ m \notin up
  BY Zenon DEF SessionLapses
<1>3. /\ session' \in [Mounts -> {"live", "lapsed", "gone"}]
      /\ \A p \in up : session'[p] = "live"
  BY Zenon, <1>1, <1>2 DEF LockTypes, DownOK
<1>4. Covered'
  <2>1. ASSUME OnTime, NEW c \in Clients, NEW f \in LockFiles, NEW b \in Bytes
        PROVE  Backed(c, f, b)'
    <3>1. Backed(c, f, b) /\ DueKept(c, f) /\ RowsKept(c, f)
      BY Zenon, <1>1, <1>2, <2>1, DueSame DEF Covered, RowsKept
    <3> QED BY Zenon, <1>2, <3>1, BackedKept
  <2> QED BY Zenon, <1>2, <2>1, CoveredNext
<1>5. OwnDisjoint'
  BY Zenon, <1>1, <1>2 DEF OwnDisjoint, At, Bytes
<1>6. BeatOK'
  BY Zenon, <1>1, <1>2, ConfSame DEF BeatOK, NoBeat
<1>7. NoClock'
  BY Zenon, <1>1, <1>2 DEF NoClock
<1>8. Aside
  BY Zenon, <1>1, <1>2, <1>3, <1>4, <1>5, <1>6, <1>7 DEF Aside, LockTypes
<1> QED BY Zenon, <1>8, AsideStep

LEMMA PruneSessionInv ==
    ASSUME LockConstants, LockInv, NEW m \in Mounts, PruneSession(m)
    PROVE  LockInv'
<1>1. LockTypes /\ DownOK /\ OwnDisjoint /\ Covered /\ BeatOK /\ NoClock
  BY Zenon DEF LockInv
<1>2. /\ UNCHANGED <<lockConf, up, mirror, lockOwners, call, beat, lockFaults, held>>
      /\ session' = [session EXCEPT ![m] = "gone"] /\ session[m] = "lapsed"
      /\ leases' = {r \in leases : MountOf(r.owner) # m}
  BY Zenon DEF PruneSession
<1>3. m \notin up
  BY Zenon, <1>1, <1>2 DEF DownOK
<1>4. /\ session' \in [Mounts -> {"live", "lapsed", "gone"}]
      /\ \A p \in up : session'[p] = "live"
  BY Zenon, <1>1, <1>2, <1>3 DEF LockTypes, DownOK
<1>5. Covered'
  <2>1. ASSUME OnTime, NEW c \in Clients, NEW f \in LockFiles, NEW b \in Bytes
        PROVE  Backed(c, f, b)'
    <3>1. Backed(c, f, b) /\ DueKept(c, f)
      BY Zenon, <1>1, <1>2, <2>1, DueSame DEF Covered
    <3>2. CASE MountOf(c) = m
      <4>1. Due(c, f, b) = "none"
        BY Zenon, <1>3, <3>2, DueServed
      <4>2. Due(c, f, b)' = "none"
        BY Zenon, <3>1, <4>1 DEF DueKept
      <4> QED BY Zenon, <4>2 DEF Backed
    <3>3. CASE MountOf(c) # m
      <4>1. RowsKept(c, f)
        BY Zenon, <1>2, <3>3 DEF RowsKept
      <4> QED BY Zenon, <1>2, <3>1, <4>1, BackedKept
    <3> QED BY Zenon, <3>2, <3>3
  <2> QED BY Zenon, <1>2, <2>1, CoveredNext
<1>6. leases' \subseteq leases
  BY Zenon, <1>2
<1>7. OwnDisjoint'
  BY Zenon, <1>1, <1>6 DEF OwnDisjoint, At, Bytes
<1>8. BeatOK'
  BY Zenon, <1>1, <1>2, ConfSame DEF BeatOK, NoBeat
<1>9. NoClock'
  <2>1. lockConf' = lockConf
    BY Zenon, <1>2
  <2> QED BY Zenon, <1>1, <1>6, <2>1 DEF NoClock
<1>10. Aside
  <2>1. UNCHANGED <<lockConf, up, mirror, lockOwners, call, lockFaults, held>>
    BY Zenon, <1>2
  <2>2. leases' \subseteq LeaseRow /\ beat' \in [Mounts -> Beats]
    BY Zenon, <1>1, <1>2, <1>6 DEF LockTypes
  <2> QED BY Zenon, <1>4, <1>5, <1>6, <1>7, <1>8, <1>9, <2>1, <2>2 DEF Aside
<1> QED BY Zenon, <1>10, AsideStep

-----------------------------------------------------------------------------
(* The commit of a request: the rows of its owner on its file are replaced. *)

Committed(c, q, k, h) ==
    /\ UNCHANGED <<lockConf, session, up, mirror, lockOwners, beat, lockFaults>>
    /\ q \in Request /\ q.start <= q.end /\ q.typ # "G" /\ ReplaceRows(c, q)
    /\ call' = [call EXCEPT ![c] = k] /\ k \in Calls /\ k.pc = "load" /\ k.req = q /\ k.todo = {}
    /\ held' = [held EXCEPT ![c] = h] /\ h \in [LockFiles -> [Bytes -> {"none", "R", "W"}]]
    /\ call[c].pc \in {"update", "closing"}
    /\ \A f \in LockFiles, b \in Bytes : f # q.file \/ ~At(q, b) => h[f][b] = held[c][f][b]
    /\ \A b \in Bytes : At(q, b) => h[q.file][b] \in {"none", Asked(q)} \/ Asked(q) = "W"
    /\ OnTime => \A d \in Clients, b \in Bytes :
                     d # c /\ At(q, b) => Apart(Asked(q), Due(d, q.file, b))
    /\ OnTime /\ lockFaults = lockConf.faults =>
          \A s \in leases, b \in Bytes :
              s.owner = c /\ At(s, b) /\ (s.file # q.file \/ ~At(q, b)) => Due(c, s.file, b) = s.typ

\* What is due to the owner of the request once it has committed.
LEMMA CommittedDue ==
    ASSUME LockTypes, NEW c \in Clients, NEW q, NEW k, NEW h, Committed(c, q, k, h)
    PROVE  /\ call'[c] = k /\ held'[c] = h
           /\ \A d \in Clients : d # c => call'[d] = call[d] /\ held'[d] = held[d]
           /\ \A f : ~InFlight(c, f) /\ (InFlight(c, f)' <=> f = q.file)
           /\ \A f \in LockFiles, b \in Bytes :
                 Due(c, f, b)' = IF f = q.file /\ At(q, b) THEN Asked(q) ELSE Due(c, f, b)
<1>1. call'[c] = k /\ \A d \in Clients : d # c => call'[d] = call[d]
  BY Zenon DEF Committed, LockTypes
<1>2. held'[c] = h /\ \A d \in Clients : d # c => held'[d] = held[d]
  BY Zenon DEF Committed, LockTypes
<1>3. k.pc = "load" /\ k.req = q /\ q.typ # "G" /\ call[c].pc \in {"update", "closing"}
  BY Zenon DEF Committed
<1>4. \A f : ~InFlight(c, f) /\ (InFlight(c, f)' <=> f = q.file)
  BY Zenon, <1>1, <1>3 DEF InFlight, Flying
<1>5. ASSUME NEW f \in LockFiles, NEW b \in Bytes
      PROVE  Due(c, f, b)' = IF f = q.file /\ At(q, b) THEN Asked(q) ELSE Due(c, f, b)
  <2>1. call'[c].req = q
    BY Zenon, <1>1, <1>3
  <2>2. Due(c, f, b)' = IF InFlight(c, f)' /\ At(q, b) THEN Asked(q) ELSE held'[c][f][b]
    BY Zenon, <2>1 DEF Due, At, Asked
  <2>3. Due(c, f, b) = held[c][f][b]
    BY Zenon, <1>4 DEF Due
  <2>4. f # q.file \/ ~At(q, b) => held'[c][f][b] = held[c][f][b]
    BY Zenon, <1>2 DEF Committed
  <2> QED BY Zenon, <1>4, <2>2, <2>3, <2>4
<1> QED BY Zenon, <1>1, <1>2, <1>4, <1>5

LEMMA CommitBacked ==
    ASSUME LockConstants, LockInv, NEW c \in Clients, NEW q, NEW k, NEW h, Committed(c, q, k, h),
           Replaced(c, q), OnTime, NEW b \in Bytes
    PROVE  Backed(c, q.file, b)'
<1> PICK f : f = q.file
  BY Zenon
<1>1. f \in LockFiles
  BY Zenon DEF Committed, Request
<1>2. LockTypes /\ Covered
  BY Zenon DEF LockInv
<1>3. InFlight(c, f)' /\ Due(c, f, b)' = IF At(q, b) THEN Asked(q) ELSE Due(c, f, b)
  <2>1. /\ \A g : InFlight(c, g)' <=> g = q.file
        /\ \A g \in LockFiles, x \in Bytes :
              Due(c, g, x)' = IF g = q.file /\ At(q, x) THEN Asked(q) ELSE Due(c, g, x)
    BY Zenon, <1>2, CommittedDue
  <2> QED BY Zenon, <1>1, <2>1
<1>4. SUFFICES ASSUME Due(c, f, b)' # "none"
               PROVE  /\ \E r \in leases' : Covers(r, c, f, b)
                      /\ \A r \in leases' : Covers(r, c, f, b) =>
                             r.typ = Due(c, f, b)' /\ Renewed(r, c, f)'
  BY Zenon DEF Backed, Covers, At
<1>5. ASSUME ~At(q, b), NEW s \in leases, Covers(s, c, f, b)
      PROVE  s.age < Ttl /\ s.typ = Due(c, f, b)'
  <2>1. Due(c, f, b) # "none" /\ Due(c, f, b)' = Due(c, f, b)
    BY Zenon, <1>3, <1>4, <1>5
  <2> QED BY Zenon, <1>1, <1>5, <2>1, LiveRow
<1>6. \E r \in leases' : Covers(r, c, f, b)
  <2>1. CASE At(q, b)
    <3>1. q.typ # "U"
      BY Zenon, <1>3, <1>4, <2>1 DEF Asked
    <3> QED BY Zenon, <2>1, <3>1 DEF Replaced
  <2>2. CASE ~At(q, b)
    <3>1. Due(c, f, b) # "none"
      BY Zenon, <1>3, <1>4, <2>2
    <3>2. PICK s \in leases : Covers(s, c, f, b)
      BY Zenon, <1>1, <1>2, <3>1 DEF Covered, Backed
    <3> QED BY Zenon, <1>5, <2>2, <3>2 DEF Replaced
  <2> QED BY Zenon, <2>1, <2>2
<1>7. ASSUME NEW r \in leases', Covers(r, c, f, b) PROVE r.typ = Due(c, f, b)' /\ Renewed(r, c, f)'
  <2>1. r.age = 0 /\ (FromRequest(r, q) \/ FromRow(r, c, q)) /\ At(r, b)
    BY Zenon, <1>7 DEF Replaced, Covers
  <2>2. r.typ = Due(c, f, b)'
    <3>1. CASE FromRequest(r, q)
      <4>1. At(q, b) /\ r.typ = q.typ /\ q.typ # "U"
        BY Zenon, <2>1, <3>1 DEF FromRequest
      <4> QED BY Zenon, <1>3, <4>1 DEF Asked
    <3>2. CASE FromRow(r, c, q)
      <4>1. PICK s \in leases : /\ s.owner = c /\ s.file = f /\ s.typ = r.typ
                                /\ At(s, b) /\ ~At(q, b)
        BY Zenon, <2>1, <3>2 DEF FromRow
      <4> QED BY Zenon, <1>5, <4>1 DEF Covers
    <3> QED BY Zenon, <2>1, <3>1, <3>2
  <2>3. r.age <= 1
    BY ONLY <2>1, SMTT(30)
  <2>4. Renewed(r, c, f)'
    BY Zenon, <1>3, <2>1, <2>3 DEF Renewed
  <2> QED BY Zenon, <2>2, <2>4
<1> QED BY Zenon, <1>6, <1>7

LEMMA CommitStep ==
    ASSUME LockConstants, LockInv, NEW c \in Clients, NEW q, NEW k, NEW h, Committed(c, q, k, h)
    PROVE  LockInv'
<1>1. /\ LockTypes /\ CallsOK /\ DownOK /\ OneActive /\ OwnersOK /\ HeldLow /\ DueApart /\ OwnDisjoint
      /\ Covered /\ BeatOK /\ NoClock /\ SeenOK /\ Exact
  BY Zenon DEF LockInv
<1>2. /\ lockConf' = lockConf /\ session' = session /\ up' = up /\ mirror' = mirror
      /\ lockOwners' = lockOwners /\ beat' = beat /\ lockFaults' = lockFaults
      /\ q \in Request /\ q.start <= q.end /\ q.typ # "G" /\ ReplaceRows(c, q)
      /\ k \in Calls /\ k.pc = "load" /\ k.req = q /\ k.todo = {}
      /\ call[c].pc \in {"update", "closing"}
  BY Zenon DEF Committed
<1>3. Replaced(c, q) /\ OwnDisjoint'
  BY Zenon, <1>1, <1>2, ReplaceRowsOK
<1>4. q.file \in LockFiles
  BY Zenon, <1>2 DEF Request
<1>5. /\ call'[c] = k /\ held'[c] = h
      /\ \A d \in Clients : d # c => call'[d] = call[d] /\ held'[d] = held[d]
      /\ \A f : ~InFlight(c, f) /\ (InFlight(c, f)' <=> f = q.file)
      /\ \A f \in LockFiles, b \in Bytes :
            Due(c, f, b)' = IF f = q.file /\ At(q, b) THEN Asked(q) ELSE Due(c, f, b)
  BY Zenon, <1>1, CommittedDue
<1>6. ASSUME NEW d \in Clients, NEW f \in LockFiles, d # c \/ f # q.file
      PROVE  DueKept(d, f) /\ RowsKept(d, f)
  <2>1. RowsKept(d, f)
    BY Zenon, <1>3, <1>6 DEF Replaced, RowsKept
  <2>2. CASE d # c
    BY Zenon, <1>5, <2>1, <2>2, DueSame
  <2>3. CASE d = c
    BY Zenon, <1>5, <1>6, <2>1, <2>3 DEF DueKept
  <2> QED BY Zenon, <2>2, <2>3
<1>7. Active(c) /\ MountOf(c) \in up
  BY Zenon, <1>2, Served DEF Active
<1>8. LockTypes'
  <2>1. /\ session' \in [Mounts -> {"live", "lapsed", "gone"}] /\ up' \subseteq Mounts
        /\ mirror' \in [Mounts -> SUBSET LockRow] /\ lockOwners' \in [Mounts -> SUBSET Clients]
        /\ beat' \in [Mounts -> Beats] /\ lockFaults' \in 0..lockConf.faults
    BY Zenon, <1>1, <1>2 DEF LockTypes
  <2>2. call' \in [Clients -> Calls] /\ leases' \subseteq LeaseRow
    BY Zenon, <1>1, <1>2, <1>3 DEF Committed, LockTypes, Replaced
  <2>3. held' \in [Clients -> [LockFiles -> [Bytes -> {"none", "R", "W"}]]]
    BY Zenon, <1>1 DEF Committed, LockTypes
  <2> QED BY Zenon, <1>1, <1>2, <2>1, <2>2, <2>3, TypesNext
<1>9. CallsOK'
  <2>1. CallFits(c, k, h)
    BY Zenon, <1>2 DEF CallFits
  <2>2. ASSUME NEW d \in Clients PROVE CallFits(d, call'[d], held'[d])
    BY Zenon, <1>1, <1>5, <2>1 DEF CallsOK
  <2> QED BY Zenon, <1>2, <2>2, CallsNext
<1>10. DownOK'
  <2>1. ASSUME NEW d \in Clients, MountOf(d) \notin up' PROVE call'[d] = NoCall /\ held'[d] = NothingHeld
    BY Zenon, <1>1, <1>2, <1>5, <1>7, <2>1 DEF DownOK
  <2>2. \A m \in up' : session'[m] = "live"
    BY Zenon, <1>1, <1>2 DEF DownOK
  <2> QED BY Zenon, <1>2, <2>1, <2>2, DownNext
<1>11. OneActive'
  <2>1. ASSUME NEW d \in Clients, Active(d)' PROVE Active(d)
    BY Zenon, <1>5, <1>7, <2>1 DEF Active
  <2>2. ASSUME Serial(lockConf), NEW d \in Clients, NEW e \in Clients, MountOf(d) = MountOf(e),
               Active(d)', Active(e)'
        PROVE  d = e
    BY Zenon, <1>1, <2>1, <2>2 DEF OneActive
  <2> QED BY Zenon, <1>2, <2>2, ActiveNext
<1>12. HeldLow'
  <2>1. ASSUME NEW d \in Clients, NEW f \in LockFiles, NEW b \in Bytes
        PROVE  held'[d][f][b] \in {"none", Due(d, f, b)'} \/ Due(d, f, b)' = "W"
    <3>1. CASE d = c /\ f = q.file /\ At(q, b)
      BY Zenon, <1>5, <3>1 DEF Committed
    <3>2. CASE d # c
      BY Zenon, <1>1, <1>5, <1>6, <3>2 DEF HeldLow, DueKept
    <3>3. CASE d = c /\ (f # q.file \/ ~At(q, b))
      <4>1. held'[c][f][b] = held[c][f][b]
        <5>1. \A g \in LockFiles, x \in Bytes : g # q.file \/ ~At(q, x) => h[g][x] = held[c][g][x]
          BY Zenon DEF Committed
        <5>2. h[f][b] = held[c][f][b]
          BY Zenon, <3>3, <5>1
        <5> QED BY Zenon, <1>5, <5>2
      <4>2. Due(c, f, b)' = Due(c, f, b)
        BY Zenon, <1>5, <3>3
      <4> QED BY Zenon, <1>1, <3>3, <4>1, <4>2 DEF HeldLow
    <3> QED BY Zenon, <3>1, <3>2, <3>3
  <2> QED BY Zenon, <1>2, <2>1, LowNext
<1>13. DueApart'
  <2>1. ASSUME OnTime, NEW d \in Clients, d # c, NEW f \in LockFiles, NEW b \in Bytes
        PROVE  Apart(Due(c, f, b)', Due(d, f, b)') /\ Apart(Due(d, f, b)', Due(c, f, b)')
    <3>1. Due(d, f, b)' = Due(d, f, b)
      BY Zenon, <1>6, <2>1 DEF DueKept
    <3>2. CASE f = q.file /\ At(q, b)
      <4>1. Apart(Asked(q), Due(d, f, b))
        BY Zenon, <2>1, <3>2 DEF Committed
      <4>2. Due(c, f, b)' = Asked(q)
        BY Zenon, <1>5, <3>2
      <4> QED BY Zenon, <3>1, <4>1, <4>2 DEF Apart
    <3>3. CASE ~(f = q.file /\ At(q, b))
      <4>1. Apart(Due(c, f, b), Due(d, f, b))
        BY Zenon, <1>1, <2>1 DEF DueApart
      <4>2. Due(c, f, b)' = Due(c, f, b)
        BY Zenon, <1>5, <3>3
      <4> QED BY Zenon, <3>1, <4>1, <4>2 DEF Apart
    <3> QED BY Zenon, <3>2, <3>3
  <2>2. ASSUME OnTime, NEW d \in Clients, NEW e \in Clients, NEW f \in LockFiles, NEW b \in Bytes, d # e
        PROVE  Apart(Due(d, f, b)', Due(e, f, b)')
    <3>1. CASE d = c
      BY Zenon, <2>1, <2>2, <3>1
    <3>2. CASE e = c
      BY Zenon, <2>1, <2>2, <3>2
    <3>3. CASE d # c /\ e # c
      <4>1. Apart(Due(d, f, b), Due(e, f, b))
        BY Zenon, <1>1, <2>2 DEF DueApart
      <4>2. Due(d, f, b)' = Due(d, f, b) /\ Due(e, f, b)' = Due(e, f, b)
        BY Zenon, <1>6, <3>3 DEF DueKept
      <4> QED BY Zenon, <4>1, <4>2
    <3> QED BY Zenon, <3>1, <3>2, <3>3
  <2> QED BY Zenon, <1>2, <2>2, ApartNext
<1>14. Covered'
  <2>1. ASSUME OnTime, NEW d \in Clients, NEW f \in LockFiles, NEW b \in Bytes
        PROVE  Backed(d, f, b)'
    <3>1. CASE d = c /\ f = q.file
      BY Zenon, <1>3, <2>1, <3>1, CommitBacked
    <3>2. CASE d # c \/ f # q.file
      <4>1. Backed(d, f, b) /\ DueKept(d, f) /\ RowsKept(d, f)
        BY Zenon, <1>1, <1>6, <2>1, <3>2 DEF Covered
      <4> QED BY Zenon, <1>2, <4>1, BackedKept
    <3> QED BY Zenon, <3>1, <3>2
  <2> QED BY Zenon, <1>2, <2>1, CoveredNext
<1>15. BeatOK' /\ NoClock'
  <2>1. BeatOK'
    BY Zenon, <1>1, <1>2, ConfSame DEF BeatOK, NoBeat
  <2>2. ASSUME lockConf.clock = "none", NEW r \in leases' PROVE r.age = 0
    BY Zenon, <1>1, <1>3, <2>2 DEF NoClock, Replaced
  <2>3. NoClock'
    BY Zenon, <1>2, <2>2 DEF NoClock
  <2> QED BY Zenon, <2>1, <2>3
<1>16. SeenOK'
  <2>1. ASSUME OnTime, Serial(lockConf), NEW d \in Clients, NEW e \in Clients, NEW f \in LockFiles,
               NEW b \in Bytes, NEW r \in leases', call'[d].pc = "insert", call'[d].req.file = f,
               MountOf(e) = MountOf(d), Due(e, f, b)' # "none", Covers(r, e, f, b)
        PROVE  Row(r) \in call'[d].seen
    <3>1. d # c /\ call'[d] = call[d]
      BY Zenon, <1>2, <1>5, <2>1
    <3>2. Active(d)
      BY Zenon, <2>1, <3>1 DEF Active
    <3>3. e # c
      BY Zenon, <1>1, <1>7, <2>1, <3>1, <3>2 DEF OneActive
    <3>4. Due(e, f, b) # "none" /\ r \in leases
      BY Zenon, <1>6, <2>1, <3>3 DEF DueKept, RowsKept, Covers
    <3>5. SeenBy(d, f, call[d].seen)
      BY Zenon, <1>1, <2>1, <3>1 DEF SeenOK
    <3> QED BY Zenon, <2>1, <3>1, <3>4, <3>5 DEF SeenBy
  <2> QED BY Zenon, <1>2, <2>1, SeenNext
<1>17. Exact'
  <2>1. ASSUME OnTime, lockFaults' = lockConf.faults, NEW r \in leases', NEW b \in Bytes,
               MountOf(r.owner) \in up', call'[r.owner].pc # "closing", At(r, b)
        PROVE  Due(r.owner, r.file, b)' = r.typ
    <3>1. r \in LeaseRow
      BY Zenon, <1>3 DEF Replaced
    <3>2. r.owner \in Clients /\ r.file \in LockFiles
      BY Zenon, <3>1 DEF LeaseRow
    <3>3. CASE r.owner # c
      <4>1. r \in leases /\ call[r.owner].pc # "closing"
        BY Zenon, <1>3, <1>5, <2>1, <3>2, <3>3 DEF Replaced
      <4>2. Due(r.owner, r.file, b) = r.typ
        BY Zenon, <1>1, <1>2, <2>1, <4>1 DEF Exact
      <4> QED BY Zenon, <1>6, <3>2, <3>3, <4>2 DEF DueKept
    <3>4. ASSUME NEW s \in leases, s.owner = c, s.typ = r.typ, s.file = r.file, At(s, b),
                 s.file # q.file \/ ~At(q, b)
          PROVE  Due(c, r.file, b)' = r.typ
      <4>1. Due(c, s.file, b) = s.typ
        BY Zenon, <1>2, <2>1, <3>4 DEF Committed
      <4> QED BY Zenon, <1>5, <3>2, <3>4, <4>1
    <3>5. CASE r.owner = c /\ r.file # q.file
      <4>1. r \in leases
        BY Zenon, <1>3, <3>5 DEF Replaced
      <4> QED BY Zenon, <2>1, <3>4, <3>5, <4>1
    <3>6. CASE r.owner = c /\ r.file = q.file
      <4>1. FromRequest(r, q) \/ FromRow(r, c, q)
        BY Zenon, <1>3, <3>6 DEF Replaced
      <4>2. CASE FromRequest(r, q)
        <5>1. At(q, b) /\ Asked(q) = r.typ
          BY Zenon, <2>1, <4>2 DEF FromRequest, Asked
        <5> QED BY Zenon, <1>4, <1>5, <3>6, <5>1
      <4>3. CASE FromRow(r, c, q)
        <5>1. PICK s \in leases : s.owner = c /\ s.file = r.file /\ s.typ = r.typ /\ At(s, b) /\ ~At(q, b)
          BY Zenon, <2>1, <3>6, <4>3 DEF FromRow
        <5> QED BY Zenon, <3>4, <3>6, <5>1
      <4> QED BY Zenon, <4>1, <4>2, <4>3
    <3> QED BY Zenon, <3>3, <3>5, <3>6
  <2> QED BY Zenon, <1>2, <2>1, ExactNext
<1>18. OwnersOK'
  <2>1. Serving(call[c])
    BY Zenon, <1>2 DEF Serving
  <2>2. ASSUME NEW d \in Clients, Serving(call'[d]) PROVE d \in lockOwners'[MountOf(d)]
    BY Zenon, <1>1, <1>2, <1>5, <2>1, <2>2 DEF OwnersOK
  <2> QED BY Zenon, <1>2, <2>2, OwnersNext
<1> QED
  BY Zenon, <1>18, <1>3, <1>8, <1>9, <1>10, <1>11, <1>12, <1>13, <1>14, <1>15, <1>16, <1>17 DEF LockInv

\* What POSIX takes from a client when its request commits.
Conceded(c, q, h) ==
    /\ h \in [LockFiles -> [Bytes -> {"none", "R", "W"}]]
    /\ \A f \in LockFiles, b \in Bytes : f # q.file \/ ~At(q, b) => h[f][b] = held[c][f][b]
    /\ \A b \in Bytes : At(q, b) /\ q.typ = "U" => h[q.file][b] = "none"
    /\ \A b \in Bytes : At(q, b) /\ q.typ = "R" => h[q.file][b] \in {"none", "R"}

LEMMA GivenUpFacts ==
    ASSUME LockTypes, NEW c \in Clients, NEW q \in Request, q.start <= q.end, MaxByte \in Nat,
           NEW h, h = GivenUp(c, q)
    PROVE  Conceded(c, q, h)
<1> DEFINE new(b) == IF b \in q.start..q.end /\ (q.typ = "U" \/ (q.typ = "R" /\ held[c][q.file][b] = "W"))
                     THEN (IF q.typ = "U" THEN "none" ELSE "R") ELSE held[c][q.file][b]
           F == [b \in Bytes |-> new(b)]
<1>1. h = [held[c] EXCEPT ![q.file] = F]
  BY Zenon DEF GivenUp
<1>2. held[c] \in [LockFiles -> [Bytes -> {"none", "R", "W"}]] /\ q.file \in LockFiles
  BY Zenon DEF LockTypes, Request
<1>3. ASSUME NEW b \in Bytes PROVE b \in q.start..q.end <=> At(q, b)
  <2>1. q.start \in Bytes /\ q.end \in Bytes
    BY Zenon DEF Request
  <2> QED BY ONLY <2>1, MaxByte \in Nat, b \in Bytes, SMTT(30) DEF Bytes, At
<1>4. ASSUME NEW b \in Bytes
      PROVE  /\ held[c][q.file][b] \in {"none", "R", "W"}
             /\ new(b) \in {"none", "R", "W"}
             /\ ~At(q, b) => new(b) = held[c][q.file][b]
             /\ At(q, b) /\ q.typ = "U" => new(b) = "none"
             /\ At(q, b) /\ q.typ = "R" => new(b) \in {"none", "R"}
  <2>1. held[c][q.file] \in [Bytes -> {"none", "R", "W"}]
    BY Zenon, <1>2
  <2>2. held[c][q.file][b] \in {"none", "R", "W"}
    BY Zenon, <2>1
  <2> QED BY Zenon, <1>3, <2>2
<1>5. \A b \in Bytes : F[b] = new(b)
  BY Zenon
<1> HIDE DEF new
<1>6. F \in [Bytes -> {"none", "R", "W"}]
  BY Zenon, <1>4
<1> HIDE DEF F
<1>7. /\ h \in [LockFiles -> [Bytes -> {"none", "R", "W"}]]
      /\ h[q.file] = F
      /\ \A f \in LockFiles : f # q.file => h[f] = held[c][f]
  BY Zenon, <1>1, <1>2, <1>6
<1>8. ASSUME NEW f \in LockFiles, NEW b \in Bytes, f # q.file \/ ~At(q, b)
      PROVE  h[f][b] = held[c][f][b]
  BY Zenon, <1>4, <1>5, <1>7, <1>8
<1> QED BY Zenon, <1>4, <1>5, <1>7, <1>8 DEF Conceded

\* A request that is not refused asks for nothing another client is due.
LEMMA GrantedApart ==
    ASSUME LockConstants, LockInv, OnTime, NEW c \in Clients, NEW q \in Request, q.start <= q.end,
           q.typ # "G", ~Refused(c, q), NEW d \in Clients, d # c, NEW b \in Bytes, At(q, b)
    PROVE  Apart(Asked(q), Due(d, q.file, b))
<1> PICK f : f = q.file
  BY Zenon
<1>1. f \in LockFiles /\ q.typ \in {"R", "W", "U"} /\ LockTypes /\ CallsOK /\ Covered
  BY Zenon DEF Request, LockInv
<1>2. CASE Asked(q) = "none" \/ Due(d, f, b) = "none"
  BY Zenon, <1>2 DEF Apart
<1>3. CASE Asked(q) # "none" /\ Due(d, f, b) # "none"
  <2>1. q.typ \in {"R", "W"} /\ Asked(q) = q.typ
    BY Zenon, <1>1, <1>3 DEF Asked
  <2>2. PICK r \in leases : Covers(r, d, f, b)
    BY Zenon, <1>1, <1>3 DEF Covered, Backed
  <2>3. r.age < Ttl /\ r.typ = Due(d, f, b)
    BY Zenon, <1>1, <1>3, <2>2, LiveRow
  <2>4. r \in LeaseRow /\ r.owner = d /\ r.file = f /\ At(r, b)
    BY Zenon, <1>1, <2>2 DEF LockTypes, Covers
  <2>5. /\ Row(r) \in RowsOf(q.file) /\ Row(r).file = q.file /\ Row(r).owner # c
        /\ Row(r).typ = r.typ /\ At(Row(r), b) /\ Row(r) \in LockRow
    BY Zenon, <2>3, <2>4, RowFacts DEF RowsOf, Live
  <2> PICK w : w = Row(r)
    BY Zenon
  <2>6. range_overlaps(w, q)
    <3>1. w.start \in Bytes /\ w.end \in Bytes /\ q.start \in Bytes /\ q.end \in Bytes
      BY Zenon, <2>5 DEF LockRow, Request
    <3>2. At(w, b) /\ At(q, b) /\ MaxByte \in Nat
      BY Zenon, <1>1, <2>5, ConfFacts DEF LockTypes
    <3> QED BY ONLY <3>1, <3>2, b \in Bytes, SMTT(30) DEF Bytes, At, range_overlaps
  <2>7. ~posix_lock_type_conflicts(w.typ, q.typ)
    BY Zenon, <2>1, <2>5, <2>6 DEF Refused, lock_conflict
  <2>8. w.typ \in {"R", "W"}
    BY Zenon, <2>5 DEF LockRow
  <2>9. q.typ # "W" /\ w.typ # "W"
    BY Zenon, <2>1, <2>7, <2>8 DEF posix_lock_type_conflicts
  <2> QED BY Zenon, <2>1, <2>3, <2>5, <2>9 DEF Apart
<1> QED BY Zenon, <1>2, <1>3

LEMMA UpdateInv ==
    ASSUME LockConstants, LockInv, NEW c \in Clients, Update(c)
    PROVE  LockInv'
<1> PICK q : q = call[c].req
  BY Zenon
<1>1. /\ call[c].pc = "update"
      /\ UNCHANGED <<lockConf, session, up, mirror, lockOwners, beat, lockFaults>>
  BY Zenon DEF Update
<1>2. /\ call[c] \in Calls /\ q \in Request /\ q.start <= q.end /\ q.typ # "G" /\ call[c].todo = {}
  BY Zenon, <1>1, CallTyped DEF CallFits
<1>3. LockTypes /\ Exact /\ lockConf \in Deployments
  BY Zenon DEF LockInv, LockTypes
<1>4. CASE Refused(c, q)
  <2>1. call' = [call EXCEPT ![c] = IF q.wait THEN [@ EXCEPT !.pc = "blocked"] ELSE NoCall]
        /\ UNCHANGED <<leases, held>>
    BY Zenon, <1>4 DEF Update
  <2>2. CASE q.wait
    BY Zenon, <1>1, <2>1, <2>2, MoveStep
  <2>3. CASE ~q.wait
    BY Zenon, <1>1, <2>1, <2>3, EndStep
  <2> QED BY Zenon, <2>2, <2>3
<1>5. CASE ~Refused(c, q)
  <2> DEFINE k == [call[c] EXCEPT !.pc = "load"]
  <2> PICK h : h = GivenUp(c, q)
    BY Zenon
  <2>1. ReplaceRows(c, q) /\ call' = [call EXCEPT ![c] = k] /\ held' = [held EXCEPT ![c] = h]
    BY Zenon, <1>5 DEF Update
  <2>2. k \in Calls /\ k.pc = "load" /\ k.req = q /\ k.todo = {}
    BY ONLY <1>2, q = call[c].req, SMTT(30) DEF Calls, Pcs
  <2>3. Conceded(c, q, h)
    <3>1. MaxByte \in Nat
      BY Zenon, <1>3, ConfFacts
    <3> QED BY Zenon, <1>2, <1>3, <3>1, GivenUpFacts
  <2> PICK kk : kk = k
    BY Zenon
  <2> HIDE DEF k
  <2>4. \A b \in Bytes : At(q, b) => h[q.file][b] \in {"none", Asked(q)} \/ Asked(q) = "W"
    <3>1. q.typ \in {"R", "W", "U"}
      BY Zenon, <1>2 DEF Request
    <3> QED BY Zenon, <2>3, <3>1 DEF Asked, Conceded
  <2>5. OnTime => \A d \in Clients, b \in Bytes :
                     d # c /\ At(q, b) => Apart(Asked(q), Due(d, q.file, b))
    BY Zenon, <1>2, <1>5, GrantedApart
  <2>6. ASSUME OnTime, lockFaults = lockConf.faults, NEW s \in leases, NEW b \in Bytes,
               s.owner = c, At(s, b)
        PROVE  Due(c, s.file, b) = s.typ
    <3>1. MountOf(c) \in up
      BY Zenon, <1>1, Served
    <3> QED BY Zenon, <1>1, <1>3, <2>6, <3>1 DEF Exact
  <2>7. Committed(c, q, kk, h)
    BY Zenon, <1>1, <1>2, <2>1, <2>2, <2>3, <2>4, <2>5, <2>6 DEF Committed, Conceded
  <2> QED BY Zenon, <2>7, CommitStep
<1> QED BY Zenon, <1>4, <1>5

-----------------------------------------------------------------------------
(* What a client is due stays, is answered, or is given up: an answer, a failed request, a *)
(* close, a crash.                                                                          *)

Kept(d, f) ==
    /\ DueKept(d, f) /\ RowsKept(d, f) /\ held'[d][f] = held[d][f]
    /\ beat'[MountOf(d)] = beat[MountOf(d)]
    /\ OnTime /\ Serial(lockConf) => \A b \in Bytes, r \in leases :
          /\ Covers(r, d, f, b) /\ Due(d, f, b) # "none"
          /\ Row(r) \in mirror[MountOf(d)] /\ d \in lockOwners[MountOf(d)]
          => Row(r) \in mirror'[MountOf(d)] /\ d \in lockOwners'[MountOf(d)]
Met(d, f) ==
    /\ RowsKept(d, f)
    /\ \A b \in Bytes : /\ Due(d, f, b)' = Due(d, f, b) /\ held'[d][f][b] = Due(d, f, b)
                        /\ OnTime => Backed(d, f, b)'
Void(d, f) == \A b \in Bytes : Due(d, f, b)' = "none" /\ held'[d][f][b] = "none"
Settles == /\ \A d \in Clients, f \in LockFiles : Kept(d, f) \/ Met(d, f) \/ Void(d, f)
           /\ \A d \in Clients : call'[d].pc = "insert" => call'[d] = call[d]

LEMMA SettlesStep ==
    ASSUME LockInv, lockConf' = lockConf, Settles
    PROVE  HeldLow' /\ DueApart' /\ Covered' /\ SeenOK'
<1>1. HeldLow /\ DueApart /\ Covered /\ SeenOK
  BY Zenon DEF LockInv
<1>2. ASSUME NEW d \in Clients, NEW f \in LockFiles, Kept(d, f), OnTime, NEW b \in Bytes
      PROVE  Backed(d, f, b)'
  <2>1. Backed(d, f, b)
    BY Zenon, <1>1, <1>2 DEF Covered
  <2>2. DueKept(d, f) /\ RowsKept(d, f) /\ beat'[MountOf(d)] = beat[MountOf(d)]
    BY Zenon, <1>2 DEF Kept
  <2>3. ASSUME Serial(lockConf), NEW r \in leases, Covers(r, d, f, b), Due(d, f, b) # "none",
               Row(r) \in mirror[MountOf(d)], d \in lockOwners[MountOf(d)]
        PROVE  Row(r) \in mirror'[MountOf(d)] /\ d \in lockOwners'[MountOf(d)]
    BY Zenon, <1>2, <2>3 DEF Kept
  <2> QED BY Zenon, <2>1, <2>2, <2>3, BackedKept
<1>3. ASSUME NEW d \in Clients, NEW f \in LockFiles, NEW b \in Bytes
      PROVE  \/ Due(d, f, b)' = "none" /\ held'[d][f][b] = "none"
             \/ /\ Due(d, f, b)' = Due(d, f, b) /\ held'[d][f][b] \in {held[d][f][b], Due(d, f, b)}
                /\ RowsKept(d, f) /\ (OnTime => Backed(d, f, b)')
  <2>1. CASE Kept(d, f)
    BY Zenon, <1>2, <2>1 DEF Kept, DueKept
  <2>2. CASE Met(d, f)
    BY Zenon, <2>2 DEF Met
  <2>3. CASE Void(d, f)
    BY Zenon, <2>3 DEF Void
  <2> QED BY Zenon, <2>1, <2>2, <2>3 DEF Settles
<1>4. HeldLow'
  <2>1. ASSUME NEW d \in Clients, NEW f \in LockFiles, NEW b \in Bytes
        PROVE  held'[d][f][b] \in {"none", Due(d, f, b)'} \/ Due(d, f, b)' = "W"
    <3>1. held[d][f][b] \in {"none", Due(d, f, b)} \/ Due(d, f, b) = "W"
      BY Zenon, <1>1 DEF HeldLow
    <3> QED BY Zenon, <1>3, <3>1
  <2> QED BY Zenon, <2>1, LowNext
<1>5. DueApart'
  <2>1. ASSUME OnTime, NEW d \in Clients, NEW e \in Clients, NEW f \in LockFiles, NEW b \in Bytes, d # e
        PROVE  Apart(Due(d, f, b)', Due(e, f, b)')
    <3>1. Apart(Due(d, f, b), Due(e, f, b))
      BY Zenon, <1>1, <2>1 DEF DueApart
    <3>2. Due(d, f, b)' \in {"none", Due(d, f, b)} /\ Due(e, f, b)' \in {"none", Due(e, f, b)}
      BY Zenon, <1>3
    <3> QED BY Zenon, <3>1, <3>2 DEF Apart
  <2> QED BY Zenon, <2>1, ApartNext
<1>6. Covered'
  <2>1. ASSUME OnTime, NEW d \in Clients, NEW f \in LockFiles, NEW b \in Bytes
        PROVE  Backed(d, f, b)'
    <3>1. CASE Due(d, f, b)' = "none"
      BY Zenon, <3>1 DEF Backed
    <3> QED BY Zenon, <1>3, <2>1, <3>1
  <2> QED BY Zenon, <2>1, CoveredNext
<1>7. SeenOK'
  <2>1. ASSUME OnTime, Serial(lockConf), NEW d \in Clients, NEW e \in Clients, NEW f \in LockFiles,
               NEW b \in Bytes, NEW r \in leases', call'[d].pc = "insert", call'[d].req.file = f,
               MountOf(e) = MountOf(d), Due(e, f, b)' # "none", Covers(r, e, f, b)
        PROVE  Row(r) \in call'[d].seen
    <3>1. call'[d] = call[d]
      BY Zenon, <2>1 DEF Settles
    <3>2. Due(e, f, b) # "none" /\ RowsKept(e, f)
      BY Zenon, <1>3, <2>1
    <3>3. r \in leases
      BY Zenon, <2>1, <3>2 DEF RowsKept, Covers
    <3>4. SeenBy(d, f, call[d].seen)
      BY Zenon, <1>1, <2>1, <3>1 DEF SeenOK
    <3> QED BY Zenon, <2>1, <3>1, <3>2, <3>3, <3>4 DEF SeenBy
  <2> QED BY Zenon, <2>1, SeenNext
<1> QED BY Zenon, <1>4, <1>5, <1>6, <1>7

LEMMA UpdateFailsInv ==
    ASSUME LockConstants, LockInv, NEW c \in Clients, UpdateFails(c)
    PROVE  LockInv'
<1> PICK q : q = call[c].req
  BY Zenon
<1> DEFINE F == [b \in Bytes |-> "none"]
<1>1. /\ LockTypes /\ CallsOK /\ DownOK /\ OneActive /\ OwnersOK /\ OwnDisjoint /\ BeatOK /\ NoClock
      /\ lockConf \in Deployments
  BY Zenon DEF LockInv, LockTypes
<1>2. /\ lockConf' = lockConf /\ session' = session /\ up' = up /\ mirror' = mirror
      /\ lockOwners' = lockOwners /\ beat' = beat
      /\ call[c].pc = "update" /\ lockFaults > 0 /\ lockFaults' = lockFaults - 1
      /\ call' = [call EXCEPT ![c] = NoCall]
      /\ held' = [held EXCEPT ![c][q.file] = F]
      /\ ReplaceRows(c, q) \/ leases' = leases
  BY Zenon DEF UpdateFails
<1>3. q \in Request /\ q.start <= q.end /\ q.typ # "G" /\ q.file \in LockFiles
  <2>1. q \in Request /\ q.start <= q.end /\ q.typ # "G"
    BY Zenon, <1>2, CallTyped DEF CallFits
  <2> QED BY Zenon, <2>1 DEF Request
<1>4. /\ call'[c] = NoCall /\ \A d \in Clients : d # c => call'[d] = call[d]
      /\ call' \in [Clients -> Calls]
  BY Zenon, <1>1, <1>2, NoCallFits DEF LockTypes
<1>5. F \in [Bytes -> {"none", "R", "W"}] /\ \A b \in Bytes : F[b] = "none"
  BY Zenon
<1> HIDE DEF F
<1>6. /\ held' \in [Clients -> [LockFiles -> [Bytes -> {"none", "R", "W"}]]]
      /\ held'[c][q.file] = F
      /\ \A f \in LockFiles : f # q.file => held'[c][f] = held[c][f]
      /\ \A d \in Clients : d # c => held'[d] = held[d]
  <2>1. held \in [Clients -> [LockFiles -> [Bytes -> {"none", "R", "W"}]]]
    BY Zenon, <1>1 DEF LockTypes
  <2> DEFINE h == [held[c] EXCEPT ![q.file] = F]
  <2>2. held' = [held EXCEPT ![c] = h]
    BY Zenon, <1>2
  <2>3. /\ h \in [LockFiles -> [Bytes -> {"none", "R", "W"}]] /\ h[q.file] = F
        /\ \A f \in LockFiles : f # q.file => h[f] = held[c][f]
    BY Zenon, <1>3, <1>5, <2>1
  <2> HIDE DEF h
  <2> QED BY Zenon, <2>1, <2>2, <2>3
<1>7. /\ OwnDisjoint' /\ leases' \subseteq LeaseRow
      /\ \A r \in leases : r.owner # c \/ r.file # q.file => r \in leases'
      /\ \A r \in leases' : r \in leases \/ (r.owner = c /\ r.file = q.file /\ r.age = 0)
  <2>1. CASE ReplaceRows(c, q)
    <3>1. Replaced(c, q) /\ OwnDisjoint'
      BY Zenon, <1>1, <1>3, <2>1, ReplaceRowsOK
    <3> QED BY Zenon, <3>1 DEF Replaced
  <2>2. CASE leases' = leases
    BY Zenon, <1>1, <2>2 DEF OwnDisjoint, At, Bytes, LockTypes
  <2> QED BY Zenon, <1>2, <2>1, <2>2
<1>8. \A f : ~InFlight(c, f) /\ ~InFlight(c, f)'
  BY Zenon, <1>2, <1>4, NoCallFits DEF InFlight, Flying
<1>9. Settles
  <2>1. ASSUME NEW d \in Clients, NEW f \in LockFiles PROVE Kept(d, f) \/ Met(d, f) \/ Void(d, f)
    <3>1. CASE d = c /\ f = q.file
      <4>1. \A b \in Bytes : held'[d][f][b] = "none"
        BY Zenon, <1>5, <1>6, <3>1
      <4>2. \A b \in Bytes : Due(d, f, b)' = "none"
        BY Zenon, <1>8, <3>1, <4>1 DEF Due
      <4> QED BY Zenon, <4>1, <4>2 DEF Void
    <3>2. CASE d # c \/ f # q.file
      <4>1. RowsKept(d, f)
        <5>1. ASSUME NEW r, r.owner = d, r.file = f PROVE r.owner # c \/ r.file # q.file
          BY Zenon, <3>2, <5>1
        <5>2. \A r \in leases : r.owner = d /\ r.file = f => r \in leases'
          BY Zenon, <1>7, <5>1
        <5>3. \A r \in leases' : r.owner = d /\ r.file = f => r \in leases
          BY Zenon, <1>7, <5>1
        <5> QED BY Zenon, <5>2, <5>3 DEF RowsKept
      <4>2. held'[d][f] = held[d][f]
        BY Zenon, <1>6, <3>2
      <4>3. DueKept(d, f)
        <5>1. CASE d # c
          BY Zenon, <1>4, <1>6, <5>1, DueSame
        <5>2. CASE d = c
          BY Zenon, <1>8, <4>2, <5>2 DEF DueKept, Due
        <5> QED BY Zenon, <5>1, <5>2
      <4> QED BY Zenon, <1>2, <4>1, <4>2, <4>3 DEF Kept
    <3> QED BY Zenon, <3>1, <3>2
  <2>2. \A d \in Clients : call'[d].pc = "insert" => call'[d] = call[d]
    BY Zenon, <1>4, NoCallFits
  <2> QED BY Zenon, <2>1, <2>2 DEF Settles
<1>10. HeldLow' /\ DueApart' /\ Covered' /\ SeenOK'
  BY Zenon, <1>2, <1>9, SettlesStep
<1>11. lockFaults' \in 0..lockConf.faults /\ lockFaults' # lockConf.faults
  <2>1. lockFaults \in 0..lockConf.faults /\ lockConf.faults \in Nat
    BY Zenon, <1>1, ConfFacts DEF LockTypes
  <2>2. lockFaults > 0 /\ lockFaults' = lockFaults - 1
    BY Zenon, <1>2
  <2> QED BY ONLY <2>1, <2>2, SMTT(30)
<1>12. LockTypes'
  <2>1. /\ session' \in [Mounts -> {"live", "lapsed", "gone"}] /\ up' \subseteq Mounts
        /\ mirror' \in [Mounts -> SUBSET LockRow] /\ lockOwners' \in [Mounts -> SUBSET Clients]
        /\ beat' \in [Mounts -> Beats]
    BY Zenon, <1>1, <1>2 DEF LockTypes
  <2> QED BY Zenon, <1>1, <1>2, <1>4, <1>6, <1>7, <1>11, <2>1, TypesNext
<1>13. CallsOK'
  <2>1. ASSUME NEW d \in Clients PROVE CallFits(d, call'[d], held'[d])
    BY Zenon, <1>1, <1>4, <1>6, NoCallFits DEF CallsOK
  <2> QED BY Zenon, <1>2, <2>1, CallsNext
<1>14. DownOK'
  <2>1. MountOf(c) \in up
    BY Zenon, <1>2, Served
  <2>2. ASSUME NEW d \in Clients, MountOf(d) \notin up' PROVE call'[d] = NoCall /\ held'[d] = NothingHeld
    BY Zenon, <1>1, <1>2, <1>4, <1>6, <2>1, <2>2 DEF DownOK
  <2>3. \A m \in up' : session'[m] = "live"
    BY Zenon, <1>1, <1>2 DEF DownOK
  <2> QED BY Zenon, <1>2, <2>2, <2>3, DownNext
<1>15. OneActive'
  <2>1. ASSUME NEW d \in Clients, Active(d)' PROVE Active(d)
    BY Zenon, <1>4, <2>1, NoCallFits DEF Active
  <2>2. ASSUME Serial(lockConf), NEW d \in Clients, NEW e \in Clients, MountOf(d) = MountOf(e),
               Active(d)', Active(e)'
        PROVE  d = e
    BY Zenon, <1>1, <2>1, <2>2 DEF OneActive
  <2> QED BY Zenon, <1>2, <2>2, ActiveNext
<1>16. BeatOK' /\ NoClock'
  <2>1. BeatOK'
    BY Zenon, <1>1, <1>2, ConfSame DEF BeatOK, NoBeat
  <2>2. ASSUME lockConf.clock = "none", NEW r \in leases' PROVE r.age = 0
    BY Zenon, <1>1, <1>7, <2>2 DEF NoClock
  <2>3. NoClock'
    BY Zenon, <1>2, <2>2 DEF NoClock
  <2> QED BY Zenon, <2>1, <2>3
<1>17. Exact'
  BY Zenon, <1>2, <1>11, ExactNext
<1>18. OwnersOK'
  <2>1. ASSUME NEW d \in Clients, Serving(call'[d]) PROVE d \in lockOwners'[MountOf(d)]
    BY Zenon, <1>1, <1>2, <1>4, <2>1, NoCallFits DEF OwnersOK
  <2> QED BY Zenon, <1>2, <2>1, OwnersNext
<1> QED
  BY Zenon, <1>18, <1>7, <1>10, <1>12, <1>13, <1>14, <1>15, <1>16, <1>17 DEF LockInv

\* What a client holds once its request is answered is what it was due.
Answered(c, q, h) ==
    /\ h \in [LockFiles -> [Bytes -> {"none", "R", "W"}]]
    /\ \A f \in LockFiles : f # q.file => h[f] = held[c][f]
    /\ \A b \in Bytes : h[q.file][b] = IF At(q, b) THEN Asked(q) ELSE held[c][q.file][b]

LEMMA AfterFacts ==
    ASSUME LockTypes, NEW c \in Clients, NEW q \in Request, q.typ # "G", MaxByte \in Nat,
           NEW h, h = AfterRequest(c, q)
    PROVE  Answered(c, q, h)
<1> DEFINE new(b) == IF b \in q.start..q.end THEN Asked(q) ELSE held[c][q.file][b]
           F == [b \in Bytes |-> new(b)]
<1>1. h = [held[c] EXCEPT ![q.file] = F]
  BY Zenon DEF AfterRequest, Asked
<1>2. held[c] \in [LockFiles -> [Bytes -> {"none", "R", "W"}]] /\ q.file \in LockFiles
      /\ Asked(q) \in {"none", "R", "W"}
  BY Zenon DEF LockTypes, Request, Asked
<1>3. ASSUME NEW b \in Bytes PROVE b \in q.start..q.end <=> At(q, b)
  <2>1. q.start \in Bytes /\ q.end \in Bytes
    BY Zenon DEF Request
  <2> QED BY ONLY <2>1, MaxByte \in Nat, b \in Bytes, SMTT(30) DEF Bytes, At
<1>4. ASSUME NEW b \in Bytes
      PROVE  /\ new(b) \in {"none", "R", "W"}
             /\ new(b) = IF At(q, b) THEN Asked(q) ELSE held[c][q.file][b]
  <2>1. held[c][q.file] \in [Bytes -> {"none", "R", "W"}]
    BY Zenon, <1>2
  <2>2. held[c][q.file][b] \in {"none", "R", "W"}
    BY Zenon, <2>1
  <2> QED BY Zenon, <1>2, <1>3, <2>2
<1>5. \A b \in Bytes : F[b] = new(b)
  BY Zenon
<1> HIDE DEF new
<1>6. F \in [Bytes -> {"none", "R", "W"}]
  BY Zenon, <1>4
<1> HIDE DEF F
<1>7. /\ h \in [LockFiles -> [Bytes -> {"none", "R", "W"}]] /\ h[q.file] = F
      /\ \A f \in LockFiles : f # q.file => h[f] = held[c][f]
  BY Zenon, <1>1, <1>2, <1>6
<1> QED BY Zenon, <1>4, <1>5, <1>7 DEF Answered

\* The answer: the mirror has the rows that were read, and the owner stays while it has some.
Stored(c, q, M) ==
    /\ UNCHANGED <<lockConf, leases, session, up, beat, lockFaults>>
    /\ call[c].pc = "insert" /\ call[c].req = q /\ q \in Request
    /\ call' = [call EXCEPT ![c] = NoCall]
    /\ mirror' = [mirror EXCEPT ![MountOf(c)] = M] /\ M \subseteq LockRow
    /\ \A r \in mirror[MountOf(c)] : r.file # q.file => r \in M
    /\ call[c].seen \subseteq M
    /\ held' \in [Clients -> [LockFiles -> [Bytes -> {"none", "R", "W"}]]]
    /\ \A d \in Clients : d # c => held'[d] = held[d]
    /\ lockOwners' \in [Mounts -> SUBSET Clients]
    /\ \A m \in Mounts, d \in Clients : d # c /\ d \in lockOwners[m] => d \in lockOwners'[m]
    /\ c \in lockOwners[MountOf(c)] /\ (q.typ = "G" \/ \E r \in M : r.owner = c) =>
          c \in lockOwners'[MountOf(c)]
    /\ q.typ = "G" => held'[c] = held[c]
    /\ q.typ # "G" => Answered(c, q, held'[c])

LEMMA InsertStored ==
    ASSUME LockConstants, LockInv, NEW c \in Clients, Insert(c)
    PROVE  \E q, M : Stored(c, q, M)
<1> PICK m, q, M : /\ m = MountOf(c) /\ q = call[c].req
                   /\ M = {r \in mirror[m] : r.file # q.file} \cup call[c].seen
  BY Zenon
<1>1. LockTypes /\ lockConf \in Deployments
  BY Zenon DEF LockInv, LockTypes
<1>2. call[c].pc = "insert" /\ call[c].todo = {} /\ call[c] \in Calls /\ q \in Request
  BY Zenon, CallTyped DEF Insert, CallFits
<1>3. /\ UNCHANGED <<lockConf, leases, session, up, beat, lockFaults>>
      /\ mirror' = [mirror EXCEPT ![m] = M]
      /\ call' = [call EXCEPT ![c] = NoCall]
      /\ lockOwners' = IF q.typ = "G" THEN lockOwners
                       ELSE [lockOwners EXCEPT ![m] = refresh_local_lock_owner_state(c, M)]
      /\ held' = IF q.typ = "G" THEN held ELSE [held EXCEPT ![c] = AfterRequest(c, q)]
  BY Zenon, <1>2 DEF Insert
<1>4. m \in Mounts /\ MaxByte \in Nat
  BY Zenon, <1>1, ConfFacts DEF Mounts, MountOf
<1>5. M \subseteq LockRow
  <2>1. mirror[m] \subseteq LockRow
    BY Zenon, <1>1, <1>4 DEF LockTypes
  <2>2. call[c].seen \in SUBSET LockRow
    BY Zenon, <1>2 DEF Calls
  <2> QED BY Zenon, <2>1, <2>2
<1>6. /\ held' \in [Clients -> [LockFiles -> [Bytes -> {"none", "R", "W"}]]]
      /\ \A d \in Clients : d # c => held'[d] = held[d]
      /\ q.typ = "G" => held'[c] = held[c]
      /\ q.typ # "G" => Answered(c, q, held'[c])
  <2>1. held \in [Clients -> [LockFiles -> [Bytes -> {"none", "R", "W"}]]]
    BY Zenon, <1>1 DEF LockTypes
  <2>2. CASE q.typ = "G"
    BY Zenon, <1>3, <2>1, <2>2
  <2>3. CASE q.typ # "G"
    <3> PICK h : h = AfterRequest(c, q)
      BY Zenon
    <3>1. Answered(c, q, h)
      BY Zenon, <1>1, <1>2, <1>4, <2>3, AfterFacts
    <3>2. held' = [held EXCEPT ![c] = h] /\ h \in [LockFiles -> [Bytes -> {"none", "R", "W"}]]
      BY Zenon, <1>3, <2>3, <3>1 DEF Answered
    <3> QED BY Zenon, <2>1, <2>3, <3>1, <3>2
  <2> QED BY Zenon, <2>2, <2>3
<1>7. /\ lockOwners' \in [Mounts -> SUBSET Clients]
      /\ \A p \in Mounts, d \in Clients : d # c /\ d \in lockOwners[p] => d \in lockOwners'[p]
      /\ c \in lockOwners[m] /\ (q.typ = "G" \/ \E r \in M : r.owner = c) => c \in lockOwners'[m]
  <2>1. lockOwners \in [Mounts -> SUBSET Clients]
    BY Zenon, <1>1 DEF LockTypes
  <2>2. CASE q.typ = "G"
    BY Zenon, <1>3, <2>1, <2>2
  <2>3. CASE q.typ # "G"
    <3> DEFINE O == refresh_local_lock_owner_state(c, M)
    <3>1. /\ O \subseteq Clients
          /\ \A d \in Clients : d # c /\ d \in lockOwners[m] => d \in O
          /\ c \in lockOwners[m] /\ (\E r \in M : r.owner = c) => c \in O
      BY Zenon, <1>4, <2>1 DEF refresh_local_lock_owner_state
    <3>2. lockOwners' = [lockOwners EXCEPT ![m] = O]
      BY Zenon, <1>3, <2>3
    <3> HIDE DEF O
    <3>3. lockOwners' \in [Mounts -> SUBSET Clients] /\ lockOwners'[m] = O
          /\ \A p \in Mounts : p # m => lockOwners'[p] = lockOwners[p]
      BY Zenon, <1>4, <2>1, <3>1, <3>2
    <3>4. ASSUME NEW p \in Mounts, NEW d \in Clients, d # c, d \in lockOwners[p] PROVE d \in lockOwners'[p]
      BY Zenon, <3>1, <3>3, <3>4
    <3> QED BY Zenon, <2>3, <3>1, <3>3, <3>4
  <2> QED BY Zenon, <2>2, <2>3
<1>8. Stored(c, q, M)
  BY Zenon, <1>2, <1>3, <1>5, <1>6, <1>7 DEF Stored
<1> QED BY Zenon, <1>8

LEMMA StoredSettles ==
    ASSUME LockConstants, LockInv, NEW c \in Clients, NEW q, NEW M, Stored(c, q, M)
    PROVE  Settles /\ \A d \in Clients, f \in LockFiles, b \in Bytes : Due(d, f, b)' = Due(d, f, b)
<1> PICK m : m = MountOf(c)
  BY Zenon
<1>1. LockTypes /\ CallsOK /\ OwnersOK /\ Covered /\ SeenOK
  BY Zenon DEF LockInv
<1>2. /\ lockConf' = lockConf /\ leases' = leases /\ beat' = beat
      /\ call[c].pc = "insert" /\ call[c].req = q /\ q \in Request /\ call[c].seen \subseteq M
  BY Zenon DEF Stored
<1>3. m \in Mounts /\ q.file \in LockFiles
  BY Zenon, <1>2 DEF Mounts, MountOf, Request
<1>4. /\ call'[c] = NoCall /\ \A d \in Clients : d # c => call'[d] = call[d] /\ held'[d] = held[d]
      /\ mirror'[m] = M /\ \A p \in Mounts : p # m => mirror'[p] = mirror[p]
  BY Zenon, <1>1, <1>3 DEF Stored, LockTypes
<1>5. \A f : ~InFlight(c, f)' /\ (InFlight(c, f) <=> q.typ # "G" /\ f = q.file)
  BY Zenon, <1>2, <1>4, NoCallFits DEF InFlight, Flying
<1>6. \A d \in Clients, f \in LockFiles : RowsKept(d, f)
  BY Zenon, <1>2 DEF RowsKept
<1>7. ASSUME OnTime, Serial(lockConf), NEW d \in Clients, MountOf(d) = m, NEW b \in Bytes,
             NEW r \in leases, Due(d, q.file, b) # "none", Covers(r, d, q.file, b)
      PROVE  Row(r) \in M
  <2>1. SeenBy(c, q.file, call[c].seen)
    BY Zenon, <1>1, <1>2, <1>3, <1>7 DEF SeenOK
  <2> QED BY Zenon, <1>2, <1>7, <2>1 DEF SeenBy
<1>8. ASSUME NEW d \in Clients, NEW f \in LockFiles, ~(d = c /\ f = q.file /\ q.typ # "G")
      PROVE  Kept(d, f)
  <2>1. held'[d][f] = held[d][f]
    BY Zenon, <1>4, <1>8 DEF Stored, Answered
  <2>2. DueKept(d, f)
    <3>1. CASE d # c
      BY Zenon, <1>4, <3>1, DueSame
    <3>2. CASE d = c
      <4>1. ~InFlight(c, f) /\ ~InFlight(c, f)'
        BY Zenon, <1>5, <1>8, <3>2
      <4> QED BY Zenon, <2>1, <3>2, <4>1 DEF DueKept, Due
    <3> QED BY Zenon, <3>1, <3>2
  <2>3. ASSUME OnTime, Serial(lockConf), NEW b \in Bytes, NEW r \in leases, Covers(r, d, f, b),
               Due(d, f, b) # "none", Row(r) \in mirror[MountOf(d)], d \in lockOwners[MountOf(d)]
        PROVE  Row(r) \in mirror'[MountOf(d)] /\ d \in lockOwners'[MountOf(d)]
    <3>1. MountOf(d) \in Mounts
      BY Zenon DEF Mounts, MountOf
    <3>2. r \in LeaseRow /\ Row(r).owner = d /\ Row(r).file = f
      BY Zenon, <1>1, <2>3, RowFacts DEF LockTypes, Covers
    <3>3. Row(r) \in mirror'[MountOf(d)]
      <4>1. CASE MountOf(d) # m
        BY Zenon, <1>4, <2>3, <3>1, <4>1
      <4>2. CASE MountOf(d) = m /\ f = q.file
        BY Zenon, <1>4, <1>7, <2>3, <4>2
      <4>3. CASE MountOf(d) = m /\ f # q.file
        BY Zenon, <1>4, <2>3, <3>2, <4>3 DEF Stored
      <4> QED BY Zenon, <4>1, <4>2, <4>3
    <3>4. d \in lockOwners'[MountOf(d)]
      <4>1. CASE d # c
        BY Zenon, <2>3, <3>1, <4>1 DEF Stored
      <4>2. CASE d = c
        <5>1. Row(r) \in M
          BY Zenon, <1>4, <3>3, <4>2
        <5> QED BY Zenon, <2>3, <3>2, <4>2, <5>1 DEF Stored
      <4> QED BY Zenon, <4>1, <4>2
    <3> QED BY Zenon, <3>3, <3>4
  <2> QED BY Zenon, <1>2, <1>6, <2>1, <2>2, <2>3 DEF Kept
<1>9. ASSUME q.typ # "G" PROVE Met(c, q.file)
  <2> PICK f : f = q.file
    BY Zenon
  <2>1. InFlight(c, f) /\ ~InFlight(c, f)' /\ f \in LockFiles
    BY Zenon, <1>3, <1>5, <1>9
  <2>2. ASSUME NEW b \in Bytes PROVE held'[c][f][b] = Due(c, f, b) /\ Due(c, f, b)' = Due(c, f, b)
    <3>1. held'[c][f][b] = IF At(q, b) THEN Asked(q) ELSE held[c][f][b]
      BY Zenon, <1>9 DEF Stored, Answered
    <3>2. Due(c, f, b) = IF At(q, b) THEN Asked(q) ELSE held[c][f][b]
      BY Zenon, <1>2, <2>1 DEF Due
    <3>3. Due(c, f, b)' = held'[c][f][b]
      BY Zenon, <2>1 DEF Due
    <3> QED BY Zenon, <3>1, <3>2, <3>3
  <2>3. ASSUME OnTime, NEW b \in Bytes PROVE Backed(c, f, b)'
    <3>1. SUFFICES ASSUME Due(c, f, b) # "none", NEW r \in leases, Covers(r, c, f, b)
                   PROVE  Renewed(r, c, f)'
      <4>1. Backed(c, f, b)
        BY Zenon, <1>1, <2>1, <2>3 DEF Covered
      <4> QED BY Zenon, <1>2, <2>2, <4>1 DEF Backed, Covers, At
    <3>2. Renewed(r, c, f)
      BY Zenon, <1>1, <2>1, <2>3, <3>1 DEF Covered, Backed
    <3>3. MountOf(c)' = MountOf(c) /\ (Serial(lockConf)' <=> Serial(lockConf))
      BY Zenon, <1>2, ConfSame
    <3>4. lockConf.clock = "timely" => r.age <= 1 /\ r.age = 0
      BY Zenon, <2>1, <3>2 DEF Renewed
    <3>5. ASSUME Serial(lockConf)
          PROVE  Row(r) \in mirror'[MountOf(c)] /\ c \in lockOwners'[MountOf(c)]
      <4>1. Row(r) \in M
        BY Zenon, <1>7, <2>3, <3>1, <3>5
      <4>2. r \in LeaseRow /\ Row(r).owner = c
        BY Zenon, <1>1, <3>1, RowFacts DEF LockTypes, Covers
      <4>3. c \in lockOwners[MountOf(c)]
        BY Zenon, <1>1, <2>1 DEF OwnersOK, Serving, InFlight
      <4> QED BY Zenon, <1>4, <4>1, <4>2, <4>3 DEF Stored
    <3> QED BY Zenon, <1>2, <2>1, <3>3, <3>4, <3>5 DEF Renewed, Row
  <2> QED BY Zenon, <1>6, <2>1, <2>2, <2>3 DEF Met
<1>10. \A d \in Clients, f \in LockFiles, b \in Bytes : Due(d, f, b)' = Due(d, f, b)
  BY Zenon, <1>8, <1>9 DEF Kept, DueKept, Met
<1>11. \A d \in Clients : call'[d].pc = "insert" => call'[d] = call[d]
  BY Zenon, <1>4, NoCallFits
<1>12. \A d \in Clients, f \in LockFiles : Kept(d, f) \/ Met(d, f) \/ Void(d, f)
  BY Zenon, <1>8, <1>9
<1> QED BY Zenon, <1>10, <1>11, <1>12 DEF Settles

LEMMA InsertInv ==
    ASSUME LockConstants, LockInv, NEW c \in Clients, Insert(c)
    PROVE  LockInv'
<1> PICK q, M : Stored(c, q, M)
  BY Zenon, InsertStored
<1>1. /\ LockTypes /\ CallsOK /\ DownOK /\ OneActive /\ OwnersOK /\ OwnDisjoint /\ BeatOK /\ NoClock
      /\ Exact
  BY Zenon DEF LockInv
<1>2. /\ lockConf' = lockConf /\ leases' = leases /\ session' = session /\ up' = up /\ beat' = beat
      /\ lockFaults' = lockFaults /\ call[c].pc = "insert"
      /\ held' \in [Clients -> [LockFiles -> [Bytes -> {"none", "R", "W"}]]]
      /\ lockOwners' \in [Mounts -> SUBSET Clients]
  BY Zenon DEF Stored
<1>3. /\ call'[c] = NoCall /\ \A d \in Clients : d # c => call'[d] = call[d] /\ held'[d] = held[d]
      /\ call' \in [Clients -> Calls] /\ mirror' \in [Mounts -> SUBSET LockRow]
  <2>1. MountOf(c) \in Mounts
    BY Zenon DEF Mounts, MountOf
  <2> QED BY Zenon, <1>1, <2>1, NoCallFits DEF Stored, LockTypes
<1>4. /\ HeldLow' /\ DueApart' /\ Covered' /\ SeenOK'
      /\ \A d \in Clients, f \in LockFiles, b \in Bytes : Due(d, f, b)' = Due(d, f, b)
  BY Zenon, <1>2, StoredSettles, SettlesStep
<1>5. LockTypes'
  <2>1. /\ session' \in [Mounts -> {"live", "lapsed", "gone"}] /\ up' \subseteq Mounts
        /\ leases' \subseteq LeaseRow /\ lockFaults' \in 0..lockConf.faults
        /\ beat' \in [Mounts -> Beats]
    BY Zenon, <1>1, <1>2 DEF LockTypes
  <2> QED BY Zenon, <1>1, <1>2, <1>3, <2>1, TypesNext
<1>6. CallsOK'
  <2>1. ASSUME NEW d \in Clients PROVE CallFits(d, call'[d], held'[d])
    BY Zenon, <1>1, <1>3, NoCallFits DEF CallsOK
  <2> QED BY Zenon, <1>2, <2>1, CallsNext
<1>7. DownOK'
  <2>1. MountOf(c) \in up
    BY Zenon, <1>2, Served
  <2>2. ASSUME NEW d \in Clients, MountOf(d) \notin up' PROVE call'[d] = NoCall /\ held'[d] = NothingHeld
    BY Zenon, <1>1, <1>2, <1>3, <2>1, <2>2 DEF DownOK
  <2>3. \A m \in up' : session'[m] = "live"
    BY Zenon, <1>1, <1>2 DEF DownOK
  <2> QED BY Zenon, <1>2, <2>2, <2>3, DownNext
<1>8. OneActive'
  <2>1. ASSUME NEW d \in Clients, Active(d)' PROVE Active(d)
    BY Zenon, <1>3, <2>1, NoCallFits DEF Active
  <2>2. ASSUME Serial(lockConf), NEW d \in Clients, NEW e \in Clients, MountOf(d) = MountOf(e),
               Active(d)', Active(e)'
        PROVE  d = e
    BY Zenon, <1>1, <2>1, <2>2 DEF OneActive
  <2> QED BY Zenon, <1>2, <2>2, ActiveNext
<1>9. OwnersOK'
  <2>1. ASSUME NEW d \in Clients, Serving(call'[d]) PROVE d \in lockOwners'[MountOf(d)]
    <3>1. d # c /\ call'[d] = call[d]
      BY Zenon, <1>3, <2>1, NoCallFits
    <3>2. MountOf(d) \in Mounts
      BY Zenon DEF Mounts, MountOf
    <3> QED BY Zenon, <1>1, <2>1, <3>1, <3>2 DEF OwnersOK, Stored
  <2> QED BY Zenon, <1>2, <2>1, OwnersNext
<1>10. OwnDisjoint' /\ BeatOK' /\ NoClock'
  <2>1. OwnDisjoint'
    BY Zenon, <1>1, <1>2 DEF OwnDisjoint, At, Bytes
  <2>2. BeatOK'
    BY Zenon, <1>1, <1>2, ConfSame DEF BeatOK, NoBeat
  <2>3. NoClock'
    BY Zenon, <1>1, <1>2 DEF NoClock
  <2> QED BY Zenon, <2>1, <2>2, <2>3
<1>11. Exact'
  <2>1. ASSUME OnTime, lockFaults' = lockConf.faults, NEW r \in leases', NEW b \in Bytes,
               MountOf(r.owner) \in up', call'[r.owner].pc # "closing", At(r, b)
        PROVE  Due(r.owner, r.file, b)' = r.typ
    <3>1. r \in leases /\ r \in LeaseRow
      BY Zenon, <1>1, <1>2 DEF LockTypes
    <3>2. r.owner \in Clients /\ r.file \in LockFiles
      BY Zenon, <3>1 DEF LeaseRow
    <3>3. call[r.owner].pc # "closing"
      BY Zenon, <1>2, <1>3, <2>1, <3>2
    <3>4. Due(r.owner, r.file, b) = r.typ
      BY Zenon, <1>1, <1>2, <2>1, <3>1, <3>3 DEF Exact
    <3> QED BY Zenon, <1>4, <3>2, <3>4
  <2> QED BY Zenon, <1>2, <2>1, ExactNext
<1> QED
  BY Zenon, <1>4, <1>5, <1>6, <1>7, <1>8, <1>9, <1>10, <1>11 DEF LockInv

LEMMA NothingFacts ==
    /\ NothingHeld \in [LockFiles -> [Bytes -> {"none", "R", "W"}]]
    /\ \A f \in LockFiles, b \in Bytes : NothingHeld[f][b] = "none"
BY Zenon DEF NothingHeld

LEMMA FieldsGiven ==
    ASSUME NEW A, NEW B, NEW C, NEW D, NEW E, NEW n,
           n \in [typ : A, file : B, start : C, end : D, wait : E],
           NEW t \in A, NEW f \in B, NEW e \in D
    PROVE  LET z == [n EXCEPT !.typ = t, !.file = f, !.end = e] IN
           /\ z \in [typ : A, file : B, start : C, end : D, wait : E]
           /\ z.typ = t /\ z.file = f /\ z.end = e
<1> DEFINE T == [typ : A, file : B, start : C, end : D, wait : E]
<1>1. PICK x : x = [n EXCEPT !.typ = t]
  BY Zenon
<1>2. x \in T /\ x.typ = t
  BY ONLY n \in T, t \in A, <1>1, SMTT(30)
<1>3. PICK y : y = [x EXCEPT !.file = f]
  BY Zenon
<1>4. y \in T /\ y.typ = t /\ y.file = f
  BY ONLY <1>2, <1>3, f \in B, SMTT(30)
<1>5. PICK z : z = [y EXCEPT !.end = e]
  BY Zenon
<1>6. z \in T /\ z.typ = t /\ z.file = f /\ z.end = e
  BY ONLY <1>4, <1>5, e \in D, SMTT(30)
<1> QED BY Zenon, <1>1, <1>3, <1>5, <1>6

LEMMA CloseFileInv ==
    ASSUME LockConstants, LockInv, NEW c \in Clients, CloseFile(c)
    PROVE  LockInv'
<1>1. PICK f \in call[c].todo :
        LET q == [NoRequest EXCEPT !.typ = "U", !.file = f, !.end = MaxByte] IN
        /\ ReplaceRows(c, q)
        /\ call' = [call EXCEPT ![c].pc = "load", ![c].req = q, ![c].todo = @ \ {f}]
  BY Zenon DEF CloseFile
<1> DEFINE Q == [NoRequest EXCEPT !.typ = "U", !.file = f, !.end = MaxByte]
           K == [call[c] EXCEPT !.pc = "load", !.req = Q, !.todo = @ \ {f}]
<1>2. /\ UNCHANGED <<lockConf, session, up, mirror, lockOwners, beat, lockFaults, held>>
      /\ call[c].pc = "closing"
  BY Zenon DEF CloseFile
<1>3. /\ LockTypes /\ lockConf \in Deployments /\ call[c] \in Calls /\ CallFits(c, call[c], held[c])
      /\ held \in [Clients -> [LockFiles -> [Bytes -> {"none", "R", "W"}]]]
  BY Zenon, CallTyped DEF LockInv, LockTypes
<1>4. lockConf.closes /\ held[c] = NothingHeld /\ MaxByte \in Nat /\ \A g, h \in LockFiles : g = h
  BY Zenon, <1>2, <1>3, ConfFacts DEF CallFits
<1>5. call[c].todo \in SUBSET LockFiles
  BY Zenon, <1>3 DEF Calls
<1>6. f \in LockFiles /\ call[c].todo \ {f} = {}
  BY Zenon, <1>1, <1>4, <1>5
<1>7. Q.typ = "U" /\ Q.file = f /\ Q.start = 0 /\ Q.end = MaxByte /\ Q.wait = FALSE
      /\ Q = [typ |-> Q.typ, file |-> Q.file, start |-> Q.start, end |-> Q.end, wait |-> Q.wait]
  <2> DEFINE T == [typ : {"none", "U"}, file : LockFiles \cup {"none"}, start : {0},
                   end : {0, MaxByte}, wait : {FALSE}]
  <2>1. PICK n : n = NoRequest
    BY Zenon
  <2>2. n \in T
    BY Zenon, <2>1 DEF NoRequest
  <2>3. "U" \in {"none", "U"} /\ f \in LockFiles \cup {"none"} /\ MaxByte \in {0, MaxByte}
    BY Zenon, <1>6
  <2>4. PICK z : z = Q
    BY Zenon
  <2>5. z = [n EXCEPT !.typ = "U", !.file = f, !.end = MaxByte]
    BY Zenon, <2>1, <2>4
  <2> HIDE DEF Q
  <2>6. z \in T /\ z.typ = "U" /\ z.file = f /\ z.end = MaxByte
    BY Zenon, <2>2, <2>3, <2>5, FieldsGiven
  <2> QED BY Zenon, <2>4, <2>6
<1>8. ReplaceRows(c, Q) /\ call' = [call EXCEPT ![c] = K]
  BY <1>1
<1> PICK q : q = Q
  BY Zenon
<1> HIDE DEF Q
<1>9. 0 \in Bytes /\ MaxByte \in Bytes /\ 0 <= MaxByte /\ \A b \in Bytes : 0 <= b /\ b <= MaxByte
  BY ONLY <1>4, SMTT(30) DEF Bytes
<1>10. q \in Request /\ q.start <= q.end /\ q.typ # "G"
  BY Zenon, <1>6, <1>7, <1>9 DEF Request
<1>11. \A b \in Bytes : At(q, b)
  BY Zenon, <1>7, <1>9 DEF At
<1>12. K \in Calls /\ K.pc = "load" /\ K.req = q /\ K.todo = {}
  <2>1. call[c] \in Calls
    BY Zenon, <1>3
  <2>2. PICK x : x = [call[c] EXCEPT !.pc = "load"]
    BY Zenon
  <2>3. x \in Calls /\ x.pc = "load" /\ x.todo = call[c].todo
    BY ONLY <2>1, <2>2, SMTT(30) DEF Calls, Pcs
  <2>4. PICK y : y = [x EXCEPT !.req = q]
    BY Zenon
  <2>5. y \in Calls /\ y.pc = "load" /\ y.req = q /\ y.todo = call[c].todo
    BY ONLY <2>3, <2>4, <1>10, SMTT(30) DEF Calls
  <2>6. PICK z : z = [y EXCEPT !.todo = {}]
    BY Zenon
  <2>7. z \in Calls /\ z.pc = "load" /\ z.req = q /\ z.todo = {}
    BY ONLY <2>5, <2>6, SMTT(30) DEF Calls
  <2>8. z = K
    BY Zenon, <1>6, <2>2, <2>4, <2>5, <2>6
  <2> HIDE DEF K
  <2> QED BY Zenon, <2>7, <2>8
<1> PICK k, h : k = K /\ h = held[c]
  BY Zenon
<1> HIDE DEF K
<1>13. held' = [held EXCEPT ![c] = h] /\ h \in [LockFiles -> [Bytes -> {"none", "R", "W"}]]
  BY Zenon, <1>2, <1>3
<1>14. \A b \in Bytes : h[q.file][b] = "none"
  BY Zenon, <1>4, <1>6, <1>7, NothingFacts
<1>15. \A d \in Clients, b \in Bytes : Apart(Asked(q), Due(d, q.file, b))
  BY Zenon, <1>7 DEF Asked, Apart
<1>16. ASSUME NEW s \in leases, NEW b \in Bytes PROVE ~(s.file # q.file \/ ~At(q, b))
  <2>1. s.file \in LockFiles
    BY Zenon, <1>3 DEF LockTypes, LeaseRow
  <2> QED BY Zenon, <1>4, <1>6, <1>7, <1>11, <2>1
<1>17. Committed(c, q, k, h)
  BY Zenon, <1>2, <1>8, <1>10, <1>12, <1>13, <1>14, <1>15, <1>16 DEF Committed
<1> QED BY Zenon, <1>17, CommitStep

LEMMA CrashInv ==
    ASSUME LockConstants, LockInv, NEW m \in Mounts, Crash(m)
    PROVE  LockInv'
<1>1. /\ LockTypes /\ CallsOK /\ DownOK /\ OneActive /\ OwnersOK /\ OwnDisjoint /\ BeatOK /\ NoClock
      /\ Exact
  BY Zenon DEF LockInv
<1>2. /\ lockConf' = lockConf /\ leases' = leases /\ session' = session /\ lockFaults' = lockFaults
      /\ up' = up \ {m} /\ m \in up /\ up = Mounts
  BY Zenon DEF Crash
<1>3. /\ \A c \in Clients : MountOf(c) = m => call'[c] = NoCall /\ held'[c] = NothingHeld
      /\ \A c \in Clients : MountOf(c) # m => call'[c] = call[c] /\ held'[c] = held[c]
      /\ \A p \in Mounts : p # m => /\ mirror'[p] = mirror[p] /\ lockOwners'[p] = lockOwners[p]
                                    /\ beat'[p] = beat[p]
      /\ beat'[m] = NoBeat
  BY Zenon, <1>1 DEF Crash, LockTypes
<1>4. NoBeat \in Beats /\ ~NoBeat.done
  BY Zenon DEF NoBeat, Beats
<1>5. \A c \in Clients : MountOf(c) \in Mounts
  BY Zenon DEF Mounts, MountOf
<1>6. ASSUME NEW d \in Clients, MountOf(d) # m, NEW f \in LockFiles PROVE Kept(d, f)
  <2>1. DueKept(d, f) /\ held'[d][f] = held[d][f]
    BY Zenon, <1>3, <1>6, DueSame
  <2> QED BY Zenon, <1>2, <1>3, <1>5, <1>6, <2>1 DEF Kept, RowsKept
<1>7. ASSUME NEW d \in Clients, MountOf(d) = m, NEW f \in LockFiles PROVE Void(d, f)
  <2>1. ~InFlight(d, f)' /\ held'[d] = NothingHeld
    BY Zenon, <1>3, <1>7, NoCallFits DEF InFlight
  <2>2. ASSUME NEW b \in Bytes PROVE Due(d, f, b)' = "none" /\ held'[d][f][b] = "none"
    BY Zenon, <2>1, NothingFacts DEF Due
  <2> QED BY Zenon, <2>2 DEF Void
<1>8. Settles
  <2>1. \A d \in Clients : call'[d].pc = "insert" => call'[d] = call[d]
    BY Zenon, <1>3, NoCallFits
  <2>2. \A d \in Clients, f \in LockFiles : Kept(d, f) \/ Met(d, f) \/ Void(d, f)
    BY Zenon, <1>6, <1>7
  <2> QED BY Zenon, <2>1, <2>2 DEF Settles
<1>9. HeldLow' /\ DueApart' /\ Covered' /\ SeenOK'
  BY Zenon, <1>2, <1>8, SettlesStep
<1>10. LockTypes'
  <2>1. /\ session' \in [Mounts -> {"live", "lapsed", "gone"}] /\ up' \subseteq Mounts
        /\ leases' \subseteq LeaseRow /\ lockFaults' \in 0..lockConf.faults
    BY Zenon, <1>1, <1>2 DEF LockTypes
  <2>2. beat' \in [Mounts -> Beats]
    BY Zenon, <1>1, <1>4 DEF LockTypes, Crash
  <2>3. mirror' \in [Mounts -> SUBSET LockRow]
    BY Zenon, <1>1 DEF LockTypes, Crash
  <2>4. lockOwners' \in [Mounts -> SUBSET Clients]
    BY Zenon, <1>1 DEF LockTypes, Crash
  <2>5. \A c \in Clients : call'[c] \in Calls
    <3>1. \A c \in Clients : call[c] \in Calls
      BY Zenon, <1>1 DEF LockTypes
    <3> QED BY Zenon, <1>3, <3>1, NoCallFits
  <2>6. call' \in [Clients -> Calls]
    <3>1. call' = [c \in Clients |-> IF MountOf(c) = m THEN NoCall ELSE call[c]]
      BY Zenon DEF Crash
    <3>2. call' = [c \in Clients |-> call'[c]]
      BY Zenon, <3>1
    <3> QED BY Zenon, <2>5, <3>2
  <2>7. \A c \in Clients : held'[c] \in [LockFiles -> [Bytes -> {"none", "R", "W"}]]
    <3>1. \A c \in Clients : held[c] \in [LockFiles -> [Bytes -> {"none", "R", "W"}]]
      BY Zenon, <1>1 DEF LockTypes
    <3> QED BY Zenon, <1>3, <3>1, NothingFacts
  <2>8. held' \in [Clients -> [LockFiles -> [Bytes -> {"none", "R", "W"}]]]
    <3>1. held' = [c \in Clients |-> IF MountOf(c) = m THEN NothingHeld ELSE held[c]]
      BY Zenon DEF Crash
    <3>2. held' = [c \in Clients |-> held'[c]]
      BY Zenon, <3>1
    <3> QED BY Zenon, <2>7, <3>2
  <2> QED BY Zenon, <1>1, <1>2, <2>1, <2>2, <2>3, <2>4, <2>6, <2>8, TypesNext
<1>11. CallsOK'
  <2>1. ASSUME NEW d \in Clients PROVE CallFits(d, call'[d], held'[d])
    BY Zenon, <1>1, <1>3, NoCallFits DEF CallsOK
  <2> QED BY Zenon, <1>2, <2>1, CallsNext
<1>12. DownOK'
  <2>1. ASSUME NEW d \in Clients, MountOf(d) \notin up' PROVE call'[d] = NoCall /\ held'[d] = NothingHeld
    BY Zenon, <1>2, <1>3, <1>5, <2>1
  <2>2. \A p \in up' : session'[p] = "live"
    BY Zenon, <1>1, <1>2 DEF DownOK
  <2> QED BY Zenon, <1>2, <2>1, <2>2, DownNext
<1>13. OneActive'
  <2>1. ASSUME NEW d \in Clients, Active(d)' PROVE Active(d)
    BY Zenon, <1>3, <2>1, NoCallFits DEF Active
  <2>2. ASSUME Serial(lockConf), NEW d \in Clients, NEW e \in Clients, MountOf(d) = MountOf(e),
               Active(d)', Active(e)'
        PROVE  d = e
    BY Zenon, <1>1, <2>1, <2>2 DEF OneActive
  <2> QED BY Zenon, <1>2, <2>2, ActiveNext
<1>14. OwnersOK'
  <2>1. ASSUME NEW d \in Clients, Serving(call'[d]) PROVE d \in lockOwners'[MountOf(d)]
    <3>1. MountOf(d) # m /\ call'[d] = call[d]
      BY Zenon, <1>3, <2>1, NoCallFits
    <3> QED BY Zenon, <1>1, <1>3, <1>5, <2>1, <3>1 DEF OwnersOK
  <2> QED BY Zenon, <1>2, <2>1, OwnersNext
<1>15. OwnDisjoint'
  BY Zenon, <1>1, <1>2 DEF OwnDisjoint, At, Bytes
<1>16. BeatOK'
  <2>1. ASSUME NEW p \in Mounts, beat'[p].done PROVE beat'[p] # NoBeat /\ beat'[p].todo = {}
    BY Zenon, <1>1, <1>3, <1>4, <2>1 DEF BeatOK
  <2> QED BY Zenon, <1>2, <2>1, ConfSame DEF BeatOK, NoBeat
<1>17. NoClock'
  BY Zenon, <1>1, <1>2 DEF NoClock
<1>18. Exact'
  <2>1. ASSUME OnTime, lockFaults' = lockConf.faults, NEW r \in leases', NEW b \in Bytes,
               MountOf(r.owner) \in up', call'[r.owner].pc # "closing", At(r, b)
        PROVE  Due(r.owner, r.file, b)' = r.typ
    <3>1. r \in leases /\ r \in LeaseRow
      BY Zenon, <1>1, <1>2 DEF LockTypes
    <3>2. r.owner \in Clients /\ r.file \in LockFiles /\ MountOf(r.owner) # m /\ MountOf(r.owner) \in up
      BY Zenon, <1>2, <2>1, <3>1 DEF LeaseRow
    <3>3. Due(r.owner, r.file, b) = r.typ
      BY Zenon, <1>1, <1>2, <1>3, <2>1, <3>1, <3>2 DEF Exact
    <3> QED BY Zenon, <1>6, <3>2, <3>3 DEF Kept, DueKept
  <2> QED BY Zenon, <1>2, <2>1, ExactNext
<1> QED
  BY Zenon, <1>9, <1>10, <1>11, <1>12, <1>13, <1>14, <1>15, <1>16, <1>17, <1>18 DEF LockInv

\* What a close leaves: the client holds nothing, and its rows are off the mirror.
Closed(c, m, gone) ==
    /\ lockConf' = lockConf /\ leases' = leases /\ session' = session /\ up' = up /\ beat' = beat
    /\ lockFaults' = lockFaults
    /\ lockConf.closes /\ call[c].pc = "idle" /\ FreeThread(m)
    /\ \A d \in Clients : d # c => call'[d] = call[d] /\ held'[d] = held[d]
    /\ held'[c] = NothingHeld /\ held' \in [Clients -> [LockFiles -> [Bytes -> {"none", "R", "W"}]]]
    /\ mirror' \in [Mounts -> SUBSET LockRow] /\ lockOwners' \in [Mounts -> SUBSET Clients]
    /\ call' \in [Clients -> Calls]
    /\ \A p \in Mounts, r \in LockRow : r \in mirror[p] /\ r.owner # c => r \in mirror'[p]
    /\ \A p \in Mounts, d \in Clients : d \in lockOwners[p] /\ d # c => d \in lockOwners'[p]
    /\ \/ /\ gone = {} /\ call'[c] = call[c]
       \/ /\ gone # {} /\ call'[c].pc = "closing" /\ call'[c].todo # {} /\ c \in lockOwners'[m]
    /\ \A r \in mirror[m] : r.owner = c => gone # {}

LEMMA CloseClosed ==
    ASSUME LockConstants, LockInv, NEW c \in Clients, Close(c)
    PROVE  \E gone : Closed(c, MountOf(c), gone)
<1>1. LockTypes /\ lockConf \in Deployments
  BY Zenon DEF LockInv, LockTypes
<1> PICK m, gone : m = MountOf(c) /\ gone = {r.file : r \in {x \in mirror[m] : x.owner = c}}
  BY Zenon
<1>2. /\ UNCHANGED <<lockConf, leases, session, up, beat, lockFaults>>
      /\ lockConf.closes /\ call[c].pc = "idle" /\ FreeThread(m)
      /\ mirror' = [mirror EXCEPT ![m] = {r \in @ : r.owner # c}]
  BY Zenon DEF Close
<1>3. /\ gone = {} => lockOwners' = [lockOwners EXCEPT ![m] = @ \ {c}] /\ call' = call
      /\ gone # {} => /\ lockOwners' = [lockOwners EXCEPT ![m] = @ \cup {c}]
                      /\ call' = [call EXCEPT ![c].pc = "closing", ![c].todo = gone]
  BY Zenon DEF Close
<1>4. m \in Mounts /\ call[c] \in Calls
  BY Zenon, CallTyped DEF Mounts, MountOf
<1>5. PICK f \in LockFiles : held' = [held EXCEPT ![c][f] = [b \in Bytes |-> "none"]]
  BY Zenon DEF Close
<1>6. /\ held' \in [Clients -> [LockFiles -> [Bytes -> {"none", "R", "W"}]]] /\ held'[c] = NothingHeld
      /\ \A d \in Clients : d # c => held'[d] = held[d]
  <2>1. held \in [Clients -> [LockFiles -> [Bytes -> {"none", "R", "W"}]]]
    BY Zenon, <1>1 DEF LockTypes
  <2>2. held[c] \in [LockFiles -> [Bytes -> {"none", "R", "W"}]]
    BY Zenon, <2>1
  <2>3. PICK n, h : n = [b \in Bytes |-> "none"] /\ h = [held[c] EXCEPT ![f] = n]
    BY Zenon
  <2>4. n \in [Bytes -> {"none", "R", "W"}]
    BY Zenon, <2>3
  <2>5. h \in [LockFiles -> [Bytes -> {"none", "R", "W"}]] /\ h[f] = n
    BY Zenon, <2>2, <2>3, <2>4
  <2>6. \A g \in LockFiles : g = f
    BY Zenon, <1>1, <1>2, ConfFacts
  <2>7. h = [g \in LockFiles |-> n]
    BY Zenon, <2>5, <2>6
  <2>8. h = NothingHeld
    BY Zenon, <2>3, <2>7 DEF NothingHeld
  <2>9. held' = [held EXCEPT ![c] = h]
    BY Zenon, <1>5, <2>3
  <2> QED BY Zenon, <2>1, <2>5, <2>8, <2>9
<1>7. gone \in SUBSET LockFiles /\ \A r \in mirror[m] : r.owner = c => r.file \in gone
  <2>1. mirror[m] \in SUBSET LockRow
    BY Zenon, <1>1, <1>4 DEF LockTypes
  <2>2. \A r \in mirror[m] : r.file \in LockFiles
    BY Zenon, <2>1 DEF LockRow
  <2> QED BY Zenon, <2>2
<1>8. /\ mirror' \in [Mounts -> SUBSET LockRow]
      /\ \A p \in Mounts, r \in LockRow : r \in mirror[p] /\ r.owner # c => r \in mirror'[p]
  BY Zenon, <1>1, <1>2, <1>4 DEF LockTypes
<1>9. CASE gone = {}
  <2>1. /\ lockOwners' \in [Mounts -> SUBSET Clients]
        /\ \A p \in Mounts, d \in Clients : d \in lockOwners[p] /\ d # c => d \in lockOwners'[p]
    <3>1. lockOwners \in [Mounts -> SUBSET Clients] /\ lockOwners[m] \in SUBSET Clients
      BY Zenon, <1>1, <1>4 DEF LockTypes
    <3>2. PICK w : w = lockOwners[m] \ {c}
      BY Zenon
    <3>3. lockOwners' = [lockOwners EXCEPT ![m] = w] /\ w \in SUBSET Clients
      BY Zenon, <1>3, <1>9, <3>1, <3>2
    <3>4. lockOwners' \in [Mounts -> SUBSET Clients] /\ lockOwners'[m] = w
      BY Zenon, <1>4, <3>1, <3>3
    <3>5. \A p \in Mounts : p # m => lockOwners'[p] = lockOwners[p]
      BY Zenon, <3>1, <3>3
    <3>6. \A d \in Clients : d \in lockOwners[m] /\ d # c => d \in w
      BY Zenon, <3>2
    <3> QED BY Zenon, <3>2, <3>4, <3>5, <3>6
  <2>2. call' \in [Clients -> Calls] /\ call' = call
    BY Zenon, <1>1, <1>3, <1>9 DEF LockTypes
  <2> QED BY Zenon, <1>2, <1>6, <1>7, <1>8, <1>9, <2>1, <2>2 DEF Closed
<1>10. CASE gone # {}
  <2>1. /\ lockOwners' \in [Mounts -> SUBSET Clients] /\ c \in lockOwners'[m]
        /\ \A p \in Mounts, d \in Clients : d \in lockOwners[p] /\ d # c => d \in lockOwners'[p]
    <3>1. lockOwners \in [Mounts -> SUBSET Clients] /\ lockOwners[m] \in SUBSET Clients
      BY Zenon, <1>1, <1>4 DEF LockTypes
    <3>2. PICK w : w = lockOwners[m] \cup {c}
      BY Zenon
    <3>3. lockOwners' = [lockOwners EXCEPT ![m] = w] /\ w \in SUBSET Clients
      BY Zenon, <1>3, <1>10, <3>1, <3>2
    <3>4. lockOwners' \in [Mounts -> SUBSET Clients] /\ lockOwners'[m] = w
      BY Zenon, <1>4, <3>1, <3>3
    <3>5. \A p \in Mounts : p # m => lockOwners'[p] = lockOwners[p]
      BY Zenon, <3>1, <3>3
    <3>6. \A d \in Clients : d \in lockOwners[m] /\ d # c => d \in w
      BY Zenon, <3>2
    <3> QED BY Zenon, <3>2, <3>4, <3>5, <3>6
  <2>2. PICK k : k = [call[c] EXCEPT !.pc = "closing", !.todo = gone]
    BY Zenon
  <2>3. k \in Calls /\ k.pc = "closing" /\ k.todo = gone
    <3>1. PICK x : x = [call[c] EXCEPT !.pc = "closing"]
      BY Zenon
    <3>2. x \in Calls /\ x.pc = "closing"
      BY ONLY <1>4, <3>1, SMTT(30) DEF Calls, Pcs
    <3>3. k = [x EXCEPT !.todo = gone] /\ gone \in SUBSET LockFiles
      BY Zenon, <1>7, <2>2, <3>1
    <3> QED BY ONLY <3>2, <3>3, SMTT(30) DEF Calls
  <2>4. call' = [call EXCEPT ![c] = k] /\ call \in [Clients -> Calls]
    BY Zenon, <1>1, <1>3, <1>10, <2>2 DEF LockTypes
  <2>5. call' \in [Clients -> Calls] /\ call'[c] = k /\ \A d \in Clients : d # c => call'[d] = call[d]
    BY Zenon, <2>3, <2>4
  <2> QED BY Zenon, <1>2, <1>6, <1>7, <1>8, <1>10, <2>1, <2>3, <2>5 DEF Closed
<1> QED BY Zenon, <1>9, <1>10

LEMMA CloseInv ==
    ASSUME LockConstants, LockInv, NEW c \in Clients, Close(c)
    PROVE  LockInv'
<1> PICK m : m = MountOf(c)
  BY Zenon
<1> PICK gone : Closed(c, m, gone)
  BY Zenon, CloseClosed
<1>1. /\ LockTypes /\ CallsOK /\ DownOK /\ OneActive /\ OwnersOK /\ OwnDisjoint /\ Covered /\ BeatOK
      /\ NoClock /\ Exact
  BY Zenon DEF LockInv
<1>2. /\ lockConf' = lockConf /\ leases' = leases /\ session' = session /\ up' = up /\ beat' = beat
      /\ lockFaults' = lockFaults /\ lockConf.closes /\ call[c].pc = "idle" /\ FreeThread(m)
      /\ held'[c] = NothingHeld
      /\ \A d \in Clients : d # c => call'[d] = call[d] /\ held'[d] = held[d]
  BY Zenon DEF Closed
<1>3. Serial(lockConf) /\ m \in Mounts /\ m \in up
  BY Zenon, <1>1, <1>2, ConfFacts DEF LockTypes, Mounts, MountOf, FreeThread
<1>4. call'[c].pc \in {"idle", "closing"}
  BY Zenon, <1>2 DEF Closed
<1>5. \A d \in Clients : MountOf(d) \in Mounts
  BY Zenon DEF Mounts, MountOf
<1>6. ASSUME NEW d \in Clients, d # c, NEW f \in LockFiles PROVE Kept(d, f)
  <2>1. DueKept(d, f) /\ held'[d][f] = held[d][f]
    BY Zenon, <1>2, <1>6, DueSame
  <2>2. ASSUME NEW b \in Bytes, NEW r \in leases, Covers(r, d, f, b),
               Row(r) \in mirror[MountOf(d)], d \in lockOwners[MountOf(d)]
        PROVE  Row(r) \in mirror'[MountOf(d)] /\ d \in lockOwners'[MountOf(d)]
    <3>1. r \in LeaseRow /\ Row(r).owner = d /\ Row(r) \in LockRow
      BY Zenon, <1>1, <2>2, RowFacts DEF LockTypes, Covers
    <3> QED BY Zenon, <1>5, <1>6, <2>2, <3>1 DEF Closed
  <2> QED BY Zenon, <1>2, <2>1, <2>2 DEF Kept, RowsKept
<1>7. ASSUME NEW f \in LockFiles PROVE Void(c, f)
  <2>1. ~InFlight(c, f)'
    BY Zenon, <1>4 DEF InFlight, Flying
  <2>2. ASSUME NEW b \in Bytes PROVE Due(c, f, b)' = "none" /\ held'[c][f][b] = "none"
    BY Zenon, <1>2, <2>1, NothingFacts DEF Due
  <2> QED BY Zenon, <2>2 DEF Void
<1>8. Settles
  <2>1. \A d \in Clients : call'[d].pc = "insert" => call'[d] = call[d]
    BY Zenon, <1>2, <1>4
  <2>2. \A d \in Clients, f \in LockFiles : Kept(d, f) \/ Met(d, f) \/ Void(d, f)
    BY Zenon, <1>6, <1>7
  <2> QED BY Zenon, <2>1, <2>2 DEF Settles
<1>9. HeldLow' /\ DueApart' /\ Covered' /\ SeenOK'
  BY Zenon, <1>2, <1>8, SettlesStep
<1>10. LockTypes'
  <2>1. /\ session' \in [Mounts -> {"live", "lapsed", "gone"}] /\ up' \subseteq Mounts
        /\ leases' \subseteq LeaseRow /\ lockFaults' \in 0..lockConf.faults
        /\ beat' \in [Mounts -> Beats]
    BY Zenon, <1>1, <1>2 DEF LockTypes
  <2>2. /\ held' \in [Clients -> [LockFiles -> [Bytes -> {"none", "R", "W"}]]]
        /\ mirror' \in [Mounts -> SUBSET LockRow] /\ lockOwners' \in [Mounts -> SUBSET Clients]
        /\ call' \in [Clients -> Calls]
    BY Zenon DEF Closed
  <2> QED BY Zenon, <1>1, <1>2, <2>1, <2>2, TypesNext
<1>11. CallsOK'
  <2>1. CallFits(c, call'[c], held'[c])
    <3>1. CASE call'[c] = call[c]
      BY Zenon, <1>1, <1>2, <3>1 DEF CallsOK, CallFits
    <3>2. CASE call'[c].pc = "closing" /\ call'[c].todo # {}
      BY Zenon, <1>2, <3>2 DEF CallFits
    <3> QED BY Zenon, <3>1, <3>2 DEF Closed
  <2>2. ASSUME NEW d \in Clients PROVE CallFits(d, call'[d], held'[d])
    BY Zenon, <1>1, <1>2, <2>1 DEF CallsOK
  <2> QED BY Zenon, <1>2, <2>2, CallsNext
<1>12. DownOK'
  <2>1. ASSUME NEW d \in Clients, MountOf(d) \notin up' PROVE call'[d] = NoCall /\ held'[d] = NothingHeld
    BY Zenon, <1>1, <1>2, <1>3, <2>1 DEF DownOK
  <2>2. \A p \in up' : session'[p] = "live"
    BY Zenon, <1>1, <1>2 DEF DownOK
  <2> QED BY Zenon, <1>2, <2>1, <2>2, DownNext
<1>13. OneActive'
  <2>1. ASSUME NEW d \in Clients, d # c, Active(d)' PROVE Active(d)
    BY Zenon, <1>2, <2>1 DEF Active
  <2>2. ASSUME NEW d \in Clients, NEW e \in Clients, MountOf(d) = MountOf(e), Active(d)', Active(e)', d # e
        PROVE  FALSE
    <3>1. CASE d = c
      BY Zenon, <1>1, <1>2, <1>3, <2>1, <2>2, <3>1, FreeAlone
    <3>2. CASE e = c
      BY Zenon, <1>1, <1>2, <1>3, <2>1, <2>2, <3>2, FreeAlone
    <3>3. CASE d # c /\ e # c
      BY Zenon, <1>1, <1>3, <2>1, <2>2, <3>3 DEF OneActive
    <3> QED BY Zenon, <3>1, <3>2, <3>3
  <2>3. ASSUME Serial(lockConf), NEW d \in Clients, NEW e \in Clients, MountOf(d) = MountOf(e),
               Active(d)', Active(e)'
        PROVE  d = e
    BY Zenon, <2>2, <2>3
  <2> QED BY Zenon, <1>2, <2>3, ActiveNext
<1>14. OwnersOK'
  <2>1. ASSUME NEW d \in Clients, Serving(call'[d]) PROVE d \in lockOwners'[MountOf(d)]
    <3>1. CASE d # c
      BY Zenon, <1>1, <1>2, <1>5, <2>1, <3>1 DEF OwnersOK, Closed
    <3>2. CASE d = c
      <4>1. call'[c].pc # "idle"
        BY Zenon, <2>1, <3>2 DEF Serving, Flying
      <4> QED BY Zenon, <1>2, <3>2, <4>1 DEF Closed
    <3> QED BY Zenon, <3>1, <3>2
  <2> QED BY Zenon, <1>2, <2>1, OwnersNext
<1>15. OwnDisjoint'
  BY Zenon, <1>1, <1>2 DEF OwnDisjoint, At, Bytes
<1>16. BeatOK'
  BY Zenon, <1>1, <1>2, ConfSame DEF BeatOK, NoBeat
<1>17. NoClock'
  BY Zenon, <1>1, <1>2 DEF NoClock
<1>18. Exact'
  <2>1. ASSUME OnTime, lockFaults' = lockConf.faults, NEW r \in leases', NEW b \in Bytes,
               MountOf(r.owner) \in up', call'[r.owner].pc # "closing", At(r, b)
        PROVE  Due(r.owner, r.file, b)' = r.typ
    <3>1. r \in leases /\ r \in LeaseRow
      BY Zenon, <1>1, <1>2 DEF LockTypes
    <3>2. r.owner \in Clients /\ r.file \in LockFiles /\ r.typ # "none" /\ MountOf(r.owner) \in up
      BY Zenon, <1>2, <2>1, <3>1 DEF LeaseRow
    <3>3. call[r.owner].pc # "closing"
      BY Zenon, <1>2, <2>1, <3>2
    <3>4. Due(r.owner, r.file, b) = r.typ
      BY Zenon, <1>1, <1>2, <2>1, <3>1, <3>2, <3>3 DEF Exact
    <3>5. CASE r.owner # c
      BY Zenon, <1>6, <3>2, <3>4, <3>5 DEF Kept, DueKept
    <3>6. CASE r.owner = c
      <4>1. Backed(c, r.file, b) /\ Due(c, r.file, b) # "none"
        BY Zenon, <1>1, <2>1, <3>2, <3>4, <3>6 DEF Covered
      <4>2. Covers(r, c, r.file, b)
        BY Zenon, <2>1, <3>6 DEF Covers
      <4>3. Renewed(r, c, r.file)
        BY Zenon, <3>1, <4>1, <4>2 DEF Backed
      <4>4. ~InFlight(c, r.file)
        BY Zenon, <1>2 DEF InFlight, Flying
      <4>5. Row(r) \in mirror[m]
        BY Zenon, <1>3, <4>3, <4>4 DEF Renewed
      <4>6. Row(r).owner = c
        BY Zenon, <3>1, <3>6, RowFacts
      <4>7. gone # {}
        BY Zenon, <4>5, <4>6 DEF Closed
      <4> QED BY Zenon, <2>1, <3>6, <4>7 DEF Closed
    <3> QED BY Zenon, <3>5, <3>6
  <2> QED BY Zenon, <1>2, <2>1, ExactNext
<1> QED
  BY Zenon, <1>9, <1>10, <1>11, <1>12, <1>13, <1>14, <1>15, <1>16, <1>17, <1>18 DEF LockInv

-----------------------------------------------------------------------------
(* The theorems. *)

LEMMA InitInv ==
    ASSUME LockConstants, LockInit
    PROVE  LockInv
<1>1. /\ leases = {} /\ lockFaults = lockConf.faults /\ lockConf \in Deployments /\ up = Mounts
      /\ \A m \in Mounts : session[m] = "live" /\ beat[m] = NoBeat
      /\ \A c \in Clients : call[c] = NoCall /\ held[c] = NothingHeld
  BY Zenon DEF LockInit
<1>2. \A c \in Clients : MountOf(c) \in Mounts
  BY Zenon DEF Mounts, MountOf
<1>3. \A c \in Clients, f \in LockFiles, b \in Bytes : Due(c, f, b) = "none" /\ held[c][f][b] = "none"
  BY Zenon, <1>1, NoCallFits, NothingFacts DEF Due, InFlight
<1>4. LockTypes
  <2>1. NoBeat \in Beats
    BY Zenon DEF NoBeat, Beats
  <2>2. lockFaults \in 0..lockConf.faults
    <3>1. lockConf.faults \in Nat
      BY Zenon, <1>1, ConfFacts
    <3> QED BY ONLY <1>1, <3>1, SMTT(30)
  <2>3. session \in [Mounts -> {"live", "lapsed", "gone"}] /\ beat \in [Mounts -> Beats]
    BY Zenon, <2>1 DEF LockInit
  <2>4. mirror \in [Mounts -> SUBSET LockRow] /\ lockOwners \in [Mounts -> SUBSET Clients]
    BY Zenon DEF LockInit
  <2>5. call \in [Clients -> Calls]
    BY Zenon, NoCallFits DEF LockInit
  <2>6. held \in [Clients -> [LockFiles -> [Bytes -> {"none", "R", "W"}]]]
    BY Zenon, NothingFacts DEF LockInit
  <2> QED BY Zenon, <1>1, <2>2, <2>3, <2>4, <2>5, <2>6 DEF LockTypes
<1>5. CallsOK
  BY Zenon, <1>1, NoCallFits DEF CallsOK
<1>6. DownOK
  BY Zenon, <1>1, <1>2 DEF DownOK
<1>7. OneActive /\ OwnersOK
  BY Zenon, <1>1, NoCallFits DEF OneActive, Active, OwnersOK
<1>8. HeldLow /\ DueApart
  BY Zenon, <1>3 DEF HeldLow, DueApart, Apart
<1>9. OwnDisjoint /\ Covered /\ NoClock /\ Exact
  BY Zenon, <1>1, <1>3 DEF OwnDisjoint, Covered, Backed, NoClock, Exact
<1>10. BeatOK
  <2>1. ~NoBeat.done
    BY Zenon DEF NoBeat
  <2> QED BY Zenon, <1>1, <2>1 DEF BeatOK
<1>11. SeenOK
  BY Zenon, <1>1, NoCallFits DEF SeenOK
<1> QED BY Zenon, <1>4, <1>5, <1>6, <1>7, <1>8, <1>9, <1>10, <1>11 DEF LockInv

LEMMA StutterInv ==
    ASSUME LockConstants, LockInv, UNCHANGED lockVars
    PROVE  LockInv'
<1>1. LockTypes /\ DownOK /\ OwnDisjoint /\ Covered /\ BeatOK /\ NoClock
  BY Zenon DEF LockInv
<1>2. UNCHANGED <<lockConf, leases, session, up, mirror, lockOwners, call, beat, lockFaults, held>>
  BY Zenon DEF lockVars
<1>3. Covered'
  <2>1. ASSUME OnTime, NEW c \in Clients, NEW f \in LockFiles, NEW b \in Bytes
        PROVE  Backed(c, f, b)'
    <3>1. Backed(c, f, b) /\ DueKept(c, f) /\ RowsKept(c, f)
      BY Zenon, <1>1, <1>2, <2>1, DueSame DEF Covered, RowsKept
    <3> QED BY Zenon, <1>2, <3>1, BackedKept
  <2> QED BY Zenon, <1>2, <2>1, CoveredNext
<1>4. OwnDisjoint'
  BY Zenon, <1>1, <1>2 DEF OwnDisjoint, At, Bytes
<1>5. BeatOK'
  BY Zenon, <1>1, <1>2, ConfSame DEF BeatOK, NoBeat
<1>6. NoClock'
  BY Zenon, <1>1, <1>2 DEF NoClock
<1>7. Aside
  BY Zenon, <1>1, <1>2, <1>3, <1>4, <1>5, <1>6 DEF Aside, LockTypes, DownOK
<1> QED BY Zenon, <1>7, AsideStep

LEMMA NextInv ==
    ASSUME LockConstants, LockInv, [LockNext]_lockVars
    PROVE  LockInv'
<1>1. CASE UNCHANGED lockVars
  BY Zenon, <1>1, StutterInv
<1>2. ASSUME NEW c \in Clients, RequestStep(c) PROVE LockInv'
  BY Zenon, <1>2, getlkInv, setlkInv, UpdateInv, LoadInv, InsertInv, RegisterInv, WakeInv,
     CloseFileInv DEF RequestStep
<1>3. ASSUME NEW c \in Clients, Ask(c) \/ UpdateFails(c) \/ Interrupt(c) \/ Close(c) PROVE LockInv'
  BY Zenon, <1>3, AskInv, UpdateFailsInv, InterruptInv, CloseInv
<1>4. ASSUME NEW m \in Mounts,
             BeatStart(m) \/ heartbeat_lock_range_lease(m) \/ Crash(m) \/ SessionLapses(m) \/ PruneSession(m)
      PROVE  LockInv'
  BY Zenon, <1>4, BeatStartInv, heartbeatInv, CrashInv, SessionLapsesInv, PruneSessionInv
<1>5. CASE Tick
  BY Zenon, <1>5, TickInv
<1> QED BY Zenon, <1>1, <1>2, <1>3, <1>4, <1>5 DEF LockNext

\* What the lock tables, the mirrors and the requests have to do with each other in every
\* deployment: between the commit of a request and its answer the rows say what the client
\* is about to hold, the rows of what is held are renewed before they lapse, and the mirror
\* from which the heartbeat works has them (update_lock_range_state_blob_for_owner,
\* load_lock_range_state, refresh_local_lock_owner_state, heartbeat_pg_mount_state).
THEOREM LockInvariant == LockConstants => (LockSpec => []LockInv)
<1> SUFFICES ASSUME LockConstants PROVE LockSpec => []LockInv
  BY Zenon
<1>1. LockInit => LockInv
  BY Zenon, InitInv
<1>2. LockInv /\ [LockNext]_lockVars => LockInv'
  BY Zenon, NextInv
<1> QED BY <1>1, <1>2, PTL DEF LockSpec

LEMMA InvExclusive ==
    ASSUME LockInv
    PROVE  HeldExclusive
<1>1. HeldLow /\ DueApart
  BY Zenon DEF LockInv
<1>2. SUFFICES ASSUME OnTime, NEW c \in Clients, NEW d \in Clients, NEW f \in LockFiles, NEW b \in Bytes,
                      c # d, "W" \in {held[c][f][b], held[d][f][b]}
               PROVE  "none" \in {held[c][f][b], held[d][f][b]}
  BY Zenon DEF HeldExclusive, OnTime
<1>3. Apart(Due(c, f, b), Due(d, f, b))
  BY Zenon, <1>1, <1>2 DEF DueApart
<1>4. /\ held[c][f][b] \in {"none", Due(c, f, b)} \/ Due(c, f, b) = "W"
      /\ held[d][f][b] \in {"none", Due(d, f, b)} \/ Due(d, f, b) = "W"
  BY Zenon, <1>1 DEF HeldLow
<1>5. ASSUME NEW x, NEW y, NEW g, NEW h, Apart(x, y), g \in {"none", x} \/ x = "W",
             h \in {"none", y} \/ y = "W", g = "W"
      PROVE  "none" \in {g, h}
  <2>1. x = "W"
    BY Zenon, <1>5
  <2>2. y = "none"
    BY Zenon, <1>5, <2>1 DEF Apart
  <2> QED BY Zenon, <1>5, <2>2
<1>6. CASE held[c][f][b] = "W"
  BY Zenon, <1>3, <1>4, <1>5, <1>6
<1>7. CASE held[d][f][b] = "W"
  <2>1. Apart(Due(d, f, b), Due(c, f, b))
    BY Zenon, <1>3 DEF Apart
  <2> QED BY Zenon, <1>4, <1>5, <1>7, <2>1
<1> QED BY Zenon, <1>2, <1>6, <1>7

\* Where leases are renewed in time, two clients never both hold a byte that one of them
\* may write, whatever the requests, the mounts, the crashes and the failed commits
\* (update_lock_range_state_blob_for_owner, heartbeat_pg_mount_state).
THEOREM LocksHeldApart == LockConstants => (LockSpec => []HeldExclusive)
<1> SUFFICES ASSUME LockConstants PROVE LockSpec => []HeldExclusive
  BY Zenon
<1>1. LockSpec => []LockInv
  BY Zenon, LockInvariant
<1>2. LockInv => HeldExclusive
  BY Zenon, InvExclusive
<1> QED BY <1>1, <1>2, PTL

LEMMA InvExact ==
    ASSUME LockConstants, LockInv
    PROVE  RangesExact
<1>1. LockTypes /\ OwnDisjoint /\ Covered /\ Exact
  BY Zenon DEF LockInv
<1>2. SUFFICES ASSUME OnTime, NEW c \in Clients, call[c].pc = "idle", MountOf(c) \in up,
                      NEW f \in LockFiles, NEW b \in Bytes,
                      NEW rows,
                      rows = {r \in Live(leases) : r.owner = c /\ r.file = f /\ b \in r.start..r.end}
               PROVE  /\ held[c][f][b] # "none" =>
                            Cardinality(rows) = 1 /\ \A r \in rows : r.typ = held[c][f][b]
                      /\ held[c][f][b] = "none" /\ lockFaults = lockConf.faults => rows = {}
  BY Zenon DEF RangesExact, OnTime
<1>3. Due(c, f, b) = held[c][f][b]
  BY Zenon, <1>2 DEF Due, InFlight, Flying
<1>4. ASSUME NEW r \in leases PROVE b \in r.start..r.end <=> At(r, b)
  <2>1. r.start \in Bytes /\ r.end \in Bytes
    BY Zenon, <1>1, <1>4 DEF LockTypes, LeaseRow
  <2>2. lockConf \in Deployments
    BY Zenon, <1>1 DEF LockTypes
  <2>3. MaxByte \in Nat
    BY Zenon, <2>2, ConfFacts
  <2> QED BY ONLY <2>1, <2>3, b \in Bytes, SMTT(30) DEF At, Bytes
<1>5. \A r : r \in rows <=> r \in leases /\ r.age < Ttl /\ Covers(r, c, f, b)
  BY Zenon, <1>2, <1>4 DEF Live, Covers
<1>6. ASSUME held[c][f][b] # "none"
      PROVE  Cardinality(rows) = 1 /\ \A r \in rows : r.typ = held[c][f][b]
  <2>1. PICK s \in leases : Covers(s, c, f, b)
    BY Zenon, <1>1, <1>2, <1>3, <1>6 DEF Covered, Backed
  <2>2. s \in rows
    BY Zenon, <1>2, <1>3, <1>5, <1>6, <2>1, LiveRow
  <2>3. \A r \in rows : r = s
    BY Zenon, <1>1, <1>2, <1>5, <2>1 DEF OwnDisjoint, Covers
  <2>4. rows = {s}
    BY Zenon, <2>2, <2>3
  <2>5. s.typ = held[c][f][b]
    BY Zenon, <1>2, <1>3, <1>6, <2>1, LiveRow
  <2>6. Cardinality({s}) = 1
    BY Zenon, FS_Singleton
  <2> QED BY Zenon, <2>4, <2>5, <2>6
<1>7. ASSUME held[c][f][b] = "none", lockFaults = lockConf.faults PROVE rows = {}
  <2>1. ASSUME NEW r \in rows PROVE FALSE
    <3>1. r \in leases /\ r.owner = c /\ r.file = f /\ At(r, b)
      BY Zenon, <1>5, <2>1 DEF Covers
    <3>2. r.typ \in {"R", "W"}
      BY Zenon, <1>1, <3>1 DEF LockTypes, LeaseRow
    <3>3. call[r.owner].pc # "closing" /\ MountOf(r.owner) \in up
      BY Zenon, <1>2, <3>1
    <3>4. Due(r.owner, r.file, b) = r.typ
      BY Zenon, <1>1, <1>2, <1>7, <3>1, <3>3 DEF Exact
    <3> QED BY Zenon, <1>3, <1>7, <3>1, <3>2, <3>4
  <2> QED BY Zenon, <2>1
<1> QED BY Zenon, <1>6, <1>7

\* A client that is in no request has, for every byte it holds, exactly one live row of
\* the right type, and without a failed commit no other rows: splitting, replacing and
\* merging ranges in any order loses no byte and invents none (update_owner_lock_range,
\* clear_locks_for_owner_and_sync).
THEOREM LockRangesExact == LockConstants => (LockSpec => []RangesExact)
<1> SUFFICES ASSUME LockConstants PROVE LockSpec => []RangesExact
  BY Zenon
<1>1. LockSpec => []LockInv
  BY Zenon, LockInvariant
<1>2. LockInv => RangesExact
  BY Zenon, InvExact
<1> QED BY <1>1, <1>2, PTL
=============================================================================
