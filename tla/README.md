# A TLA+ model of the lld-leasing dqlite client driver

This directory holds the verification project for the C client driver in
`src/lib/c_client.c`. The entry points in `src/lib/tmp/sqlite3_if.c` call it,
and it talks to a dqlite cluster over one socket per node.

## The system

| Part | Source | Role |
|---|---|---|
| Wire codec and transport | `c_client.c:49-133` (`REQUEST2`, `READ2`, `DECODE2`) | Writes one request as a header plus a body. Reads one response: an 8-byte header, then `words*8` body bytes. |
| Leader resolution | `c_client.c:190-224` (`get_leader`), `236-270` (the probe loop of `exec`/`raw_query`) | Asks nodes for the leader. |
| Statement driver | `c_client.c:226-369` (`exec`, `raw_query`), `410-440` (`createTable`) | Runs Prepare → Stmt → Exec/Query → Result/Rows on the chosen session, then combines the four results with `&&`. |
| Facade | `send_open` 371-408, `addServer`/`removeServer` 451-491, `close_sockets` 493-500, getters and `set_n_clients` 502-520 | The remaining entry points. |
| SQL-API shim | `sqlite3_if.c:97-120` | `sqlite3_exec`, `sqlite3_changes` and `sqlite3_close` forward to the driver. |
| Address parsing, IP list | `connect_socket` (`c_client.c:148-188`), `init_ips` (`net.c:20-39`), called by `sqlite3_open_v2` (`sqlite3_if.c:101-105`) | Read the address file, then copy the host part of the url and dial it. |
| Node bootstrap | `src/run_server.c` | Not modelled. |
| dqlite nodes | external | The environment. Modelled from the spec. |

The caller is single-threaded: it runs one entry point at a time. The
concurrency that matters is between the caller's blocking steps and the
cluster:
- nodes serve requests;
- leadership moves;
- nodes crash.

## Modules

- **`LldClient.tla`** is the whole model.
  - **Cluster variables:** `leader`, `up`, `opened`, `prepared`, `dbLog`,
    `changes` and `crashes`.
  - **Session variables:** `conn`, `tx` (requests not yet served) and `rx`
    (the byte stream, in 8-byte units).
  - **Caller variables:** the C locals and globals under their source names:
    `client_index`, `leader_index`, `leader_id`, `stmt_id`, `rows_affected`,
    `n_changed`, `remaining_servers`, `remaining_attempts` and `node_infos`.
    In addition:
    - `pc` marks which blocking call comes next;
    - `errs` holds the failed sub-steps `res0..res3`;
    - `results` records every value returned to the caller.
  - **Actions.** Each blocking send or receive of an entry point is one
    action: `LeaderSend`, `LeaderRecv`, `PrepSend`, `PrepRecv`, `RunSend`,
    `RunRecv`, `OpenSend`, `OpenRecv` (with `OpenBackoff`), `AdmSend`,
    `AdmRecv`, `GlSend`, `GlRecv` and `GlDone`.
    - Each action includes the code's error path: `exit(1)` becomes
      `pc = "exited"`, and a logged failure is added to `errs`.
    - Each action includes the code's bookkeeping, such as the
      `client_index++` and the countdown of `send_open`.
    - `Start*` and `CloseSockets` begin an entry point.
    - `Serve*`, `Crash` and `ChangeLeader` are the cluster.
  - **Uninitialised locals.** `stmt_id` and `rows_affected` are left unset
    when the receive that fills them fails. The model then lets them take any
    value in `Garbage` (a call id or `Junk`).
  - **READ2.** It consumes the header and then stops on a type mismatch. The
    body stays in the stream, which is the root of two of the findings.
- **`LldOpen.tla`** models `sqlite3_open_v2`: `init_ips` followed by
  `connect_socket`. Strings are sequences over a small alphabet, with the
  terminating NUL implicit past their end.
  - `IpsLoop` is one turn of `while (fgets(line, MAXLINESIZE, fp) || n == 0)`.
    `FgetsChunk` is what `fgets` reads: up to and including the next newline,
    at most `MAXLINESIZE - 1` characters. At end of file `line` keeps its old
    contents. A missing file is the crash of `fgets(NULL)`.
  - `CopyStep` is one turn of the copy loop into the `calloc(strlen)` buffer
    `str_address`.
  - `OpenSocket` and `Connect` are `socket()` and `connect()`, each with both
    outcomes.
  - `DialPc` and `DialAddress` map it onto `LldDial`: every state before the
    copy loop stops is "before the dial", with the buffer as `calloc` left it.
    `ImplementsDial` is `LldDial`'s `Spec`, checked as a PROPERTY.
- **`LldDial.tla`** is what `connect_socket` promises `sqlite3_open_v2`.
  - `CopyHost` fills the buffer with the host part of the url in one step.
  - `OpenSocket` returns 1 when `socket()` fails. Otherwise `Connect` returns
    `connect()`'s result.
  - `Abort` is the process dying first, in `init_ips`.
  - `Safety` is `Init /\ [][Next]_dvars`. `Spec` adds weak fairness.
- **`LldStrings.tla`** holds the C-string helpers that `LldOpen` and `LldDial`
  share:
  - `CharAt` is 0-based indexing with the terminating NUL;
  - `Calloc` is the zeroed buffer of `strlen` bytes;
  - `HostPart` is the prefix before the first `':'`;
  - `HostBuffer` is that prefix in a buffer of `strlen` bytes.
- **`MC_LldClient.tla`** and **`MC_LldOpen.tla`** hold the constants of the
  small instances. `MC_LldOpen` uses `MAXSERVERS` = `MAXLINESIZE` = 32, as in
  `net.c:11-12`, and files of 0, 1 and 2 lines and lines of 31 and 32
  characters. Those are the boundaries of the `fgets` buffer and of the `n == 0` clause.
  The ips_bound run uses files of 32 and 33 lines, the two sides of the
  `MAXSERVERS` bound. The `n == 0` clause, under the `// fix` comment at
  `net.c:24`, deliberately stores the line of a one-line file twice, and no
  property treats that as wrong.
- **`LldClientProofs.tla`**, **`LldClientOpenProofs.tla`**,
  **`LldClientStreamProofs.tla`** and
  **`LldOpenProofs.tla`** hold the TLAPS proofs.

## Runs

| Run (cfg) | Checks | Result | What it shows |
|---|---|---|---|
| stream (`MC_Stream`) | `ExecStatementIsOwn`, `QuietProbe`, `ProbeReadIsClean` | pass, 5.3M states | `exec`/`raw_query` always run the statement they prepared. This holds across leader changes, one crash, and stray replies left by other entry points, because their leader probe exits on any stray reply. `QuietProbe` is the stream discipline behind it (see Proofs). `ProbeReadIsClean` is an action property: a successful `clientRecvLeader` in `exec`, `raw_query` or `get_leader` leaves the probed session with nothing pending and nothing unread. |
| pool (`MC_Pool`) | `TypeOK`, `OpenTargetsPool` | pass, 2.5M states | The countdown in `send_open` never indexes outside the pool. |
| live (`MC_Live`) | `CallsComplete` | pass, 168k states | Under fairness, every entry point returns or exits: the retry loops of `send_open` and `get_leader` end, and no read waits for a reply that was already consumed. |
| open_pass (`MC_LldOpen`) | `HostCopied`, `IpsCoverFile`, `ImplementsDial` | pass | `str_address` holds exactly the host part of the url, in a buffer of `strlen` bytes. The entries of `ips`, concatenated, start with the whole file. The copy loop implements `LldDial`. |
| ips_bound (`MC_IpsBound`) | `IpsInArray` | violation | An address file of 33 lines makes `init_ips` write `ips[32]`, past the 32 pointers allocated at `net.c:26`. The loop has no bound of its own. |
| host_nul | `HostTerminated` | violation | For a url without a port, `calloc(strlen)` leaves no room for the NUL that `inet_addr` needs. |
| exec_failure | `ExecFailureReported` | violation | `res0 && res1 && res2 && res3` reports success unless *every* step failed. |
| duplicate | `NoDuplicateExecution` | violation | A failed Prepare leaves the previous `stmt_id`, and Exec runs the old statement again. |
| exec_leader | `ExecTargetsLeader` | violation | `exec` prepares on whichever node answered the probe, even when that node reports another leader or none. |
| get_leader | `GetLeaderReturnsLeader` | violation | `client_index++` before `return clients[client_index]` returns the wrong session. |
| stale | `StatementIsOwn` | violation | A FAILURE body left unread by `addServer` makes a later `createTable` on `clients[1]` accept a stale Stmt. |

Each property of a passing run has a mutant, and TLC catches every one:

| Mutant | Change | Property that catches it |
|---|---|---|
| `PrepRecvNoTypeCheck` | No type check in READ2 | `ExecStatementIsOwn` |
| `ConsumeNoBody` | READ2 skips the body of a matching response | `QuietProbe` |
| `GlRecvNoBody` | `get_leader` reads the LEADER header and not its body | `ProbeReadIsClean` |
| `OpenBackoffNoReset` | The attempt budget is never refilled | `TypeOK` |
| `StartOpenAllServers` | The countdown starts at `n_clients`, as the TODO suggests | `OpenTargetsPool` |
| `GlSendStuck` | No `client_index++` after a failed send | `CallsComplete` |
| `IpsLoopAnd` | The loop condition written with `&&` | `IpsCoverFile` |
| `CopyStepKeepsPort` | The copy loop does not stop at `:` | `HostCopied` |
| `OpenSocketNoReturn` | No `return 1` after a failed `socket()` | `ImplementsDial` |

**Bounds.** The instances use:
- 2 or 3 nodes (3 for pool, exec_failure, duplicate, exec_leader
  and get_leader; 2 for stream, live and stale);
- 2 to 4 caller calls;
- 2 leader changes and 1 crash;
- `DIAL_ATTEMPTS` = 2 (the source has 3; 2 already exercises both branches
  of the backoff);
- a FAILURE body of 2 words.

These bounds are enough for the cases that matter:
- a leader change or a crash between any two steps of one call;
- a stale reply left by one call and read by the next;
- the countdown in `send_open` crossing a slot boundary.

`MaxClients` is 32, the value of `MAX_CLIENTS` (`c_client.c:16`).

**Fairness.** The model assumes:
- `WF_vars(Step)`: the caller's thread runs unless it is blocked in `read()`,
  which is exactly when `Step` is disabled;
- `WF_vars(Serve(i))`: a live dqlite node eventually serves a request
  waiting on its connection.

Nothing is assumed about the caller starting new calls, about crashes, or
about leader changes.

## Proofs

`LldClientProofs.tla` proves `THEOREM TypeCorrect == Spec => []TypeOK` for
every value of the constants that satisfies the module's ASSUMEs. The
constraints that matter are:
- `NClients \in 1..MaxClients`;
- `DialAttempts` and `FailureWords` are non-zero naturals.

**Inductive invariant.** `TypeOK` alone is not inductive. The invariant used
is `IInv == TypeOK /\ ControlOK`, where `ControlOK` says:
- a running call has a call number and an operation;
- in the leader-probe and `get_leader` receive states, `client_index` is a
  pool slot, so the stream it reads is typed;
- in `open_recv`, `remaining_servers` is a pool slot.

**Argument.**
- Lemmas about the stream operators say that `Frame`, `Consume`, `Append`
  and `Tail` keep `Seq(Unit)` and `Seq(Request)`. Others say that a header's
  payload has the type its tag promises (`UnitFacts`, `FrameType`,
  `ConsumeType`, `SentType`, `ReplyType`).
- `InitIInv` proves that the initial states satisfy `IInv`.
- `NextIInv` splits `Next` into the caller's start actions (`StartIInv`), the
  step groups (`LeaderStepsIInv`, `StatementStepsIInv`, `OpenStepsIInv`,
  `AdminStepsIInv`, `GetLeaderStepsIInv`) and the cluster (`ServeIInv`,
  `FaultIInv`).
- `TypeCorrect` combines these facts with PTL.

`LldClientOpenProofs.tla` proves `THEOREM OpenInPool`: under the
hypothesis `DialAttempts >= 2`, `Spec => []OpenTargetsPool`.
- The hypothesis holds for the code, where `DIAL_ATTEMPTS` is 3
  (`c_client.c:17`).
- It is needed. With a pool of one session and one attempt, the first failed
  `clientRecvDb` moves the countdown to `clients[-1]` without failing the
  call.

The inductive invariant adds `OpenCtl` to `IInv`. Inside `send_open`:
- `remaining_servers` is a pool slot;
- it is 0 only while the attempt budget there is still full.

So a failed receive either stays on its slot, steps down to a slot of at
least 1, or ends the call on reaching 0.

`LldClientStreamProofs.tla` proves three theorems for every value of the
constants:
- `THEOREM ExecRunsOwnStatement == Spec => []ExecStatementIsOwn`;
- `THEOREM StreamDiscipline == Spec => []QuietProbe`;
- `THEOREM ProbeReadsClean == Spec => ProbeReadIsClean`, the action property.

**Why a strengthening is needed.** `ExecStatementIsOwn` speaks of
`stmt_id` at `run_send`. It is set by `clientRecvStmt` from whatever Stmt
reply heads the session the probe chose. So the invariant is only inductive
together with what the sessions may hold. `QuietProbe` is the conjunction of:
- `OnlyProbeAsksLeader`: outside the probe being read, no session holds a
  Leader request or Leader header. On the probed session, the probe's request
  is the last request (`LeaderRequestLast`), or the request is gone and the
  Leader reply is the last frame (`LeaderReplyLast`).
- `PrepareInFlight`: in `exec`/`raw_query`, at `prep_send` the chosen session
  is empty both ways. At `prep_recv` it holds only this call's Prepare, or
  only `Frame(Stmt, call)` or `Frame(Failure, 0)`.

`SInv == IInv /\ QuietProbe /\ ExecStatementIsOwn` is the inductive
invariant. TLC checks `QuietProbe` on the stream run, and the mutant
`ConsumeNoBody` breaks it.

**Argument.**
- Sequence lemmas about `LeaderFree`:
  - it survives `SubSeq`, `Tail`, `Append`, `\o` and READ2;
  - a non-Leader `Frame` is Leader-free;
  - `ProbeAfterSend`, `ProbeAfterReply` and `ProbeAfterCrash` say how each
    kind of step moves the probe.
- `ProbeReadEmpties`: a Leader header at the head of the probed session is
  the probe's reply, and it is the whole stream. So a successful
  `clientRecvLeader` leaves that session empty both ways, and `exec` prepares
  on a clean session.
- `ServeShape`: a node answers Leader exactly for a Leader request, and
  Prepare with `Stmt(Arg)` or `Failure`.
- One lemma per group of steps: `StartQuiet`, `ProbeStepsQuiet`,
  `PrepareStepsQuiet`, `OtherStepsQuiet`, `ServeQuiet` and `FaultQuiet`.
  Together they give `NextSInv`.
- In `PrepareStepsQuiet`, `clientRecvStmt` succeeds only on
  `Frame(Stmt, call)`, so `stmt_id' = call`.
- `ProbeReadCleanStep` shows `SInv /\ [Next]_vars => ProbeReadClean`. Only
  `LeaderRecv` and `GlRecv` can leave a probe state. They leave it without
  exiting only when the head of the session is a Leader header, and then
  `ProbeReadQuiet` (through `ProbeReadEmpties`) gives empty streams both
  ways. No start, cluster or fault step changes `pc` in a probe state.

`LldOpenProofs.tla` proves `THEOREM HostCopiedAlways == Spec =>
[]HostCopied`.
- It rests on `CStringAssumption` in `LldOpen`: a url is a sequence with no
  NUL before its end, and NUL is not `':'`. A C string cannot hold a NUL
  before its terminator, so this is what `connect_socket` receives.
- The inductive invariant `CopyInv` is the copy loop's loop invariant.
  Before and inside the loop, `str_address` is `Copied(char_index)`: the
  first `char_index` characters of the url, then NUL. None of those
  characters is `':'`, and `char_index` stays within the url.
- `StopIsHost` shows that when the loop stops, the copied prefix is
  `HostPart`. A stop before the end is at a `':'` (`HostPartColon`, via
  `MinIs` on the least colon). A stop at the end means there is no colon at
  all (`HostPartWhole`).
- TLC checks `CopyInv` on both url sets of `MC_LldOpen` before the proof.

`LldOpenProofs.tla` also proves `THEOREM RefinesDial == Spec =>
Dial!Safety`, the refinement of `LldDial`, step by step:
- the initial states map to `LldDial`'s initial state (`Calloc`, "dial");
- `DialStep` maps every step to a step of `LldDial` or a stutter. Under
  `CopyInv`:
  - the turns of `IpsLoop` and of the copy loop that copy a character
    stutter;
  - `fgets(NULL)` is `Abort`, with the buffer still `Copied(0) = Calloc`;
  - the turn that stops the copy loop is `CopyHost`, because `CopyInv'`
    gives `HostCopied`;
  - `socket()` and `connect()` are `LldDial`'s own steps.
- `SameHostBuffer` equates `HostBuffer` with its instance in `LldDial`.

**What stays with TLC.**
- Liveness (`CallsComplete`, and the fairness part of `ImplementsDial`)
  needs fairness and ENABLED, which are out of reach of the prover, so it is
  only model-checked.
- `IpsCoverFile` (`LldOpen`) is only model-checked. It relates the entries
  `fgets` stores to the whole file through `FlattenSeq`, a fold over the
  sequence of entries. Proving it needs induction over that sequence, which
  is out of reach of the installed provers.

## Not modelled

- **`run_server.c`.** It is process start-up from environment variables,
  straight-line code with no state machine. `strncat` appends to the array
  `dir`, which has no spare room, so it overflows.
- **Repeated dials.** `connect_socket` leaks the descriptor and `str_address`
  when `connect()` fails. This is recorded as a hazard. Only one call of
  `sqlite3_open_v2` is modelled, and no caller dials twice.

Other parts of the code are left out because they change no state of the
driver:
- the payload encodings, which are abstracted to record fields;
- logging;
- the value accessors of `sqlite3_if.c`;
- the fixed port and the value `inet_addr` computes.
