-------------------------------- MODULE Sota --------------------------------
(***************************************************************************)
(* Firmware update over AT messages (components/ota): the state machine    *)
(* of sota.c, the package verification of package.c and the flash page     *)
(* with the upgrade flag and the record of sota.c (upgrade_flag.c,         *)
(* flag_manager.c).  The platform, the network, which loses and reorders   *)
(* messages, the bootloader and the flash, which may fail, are external.   *)
(* The device is reset at any time, also between two writes of a handler.  *)
(***************************************************************************)
EXTENDS Naturals, Sequences, FiniteSets

CONSTANTS
    Versions,           \* the versions the platform offers, with their check codes
    Blocks,             \* block_totalnum
    MaxNotices,         \* bound: messages the platform starts with
    MaxBadWrites,       \* bound: writes of the flash, and reads at a start, that fail
    MaxResets           \* bound: resets of the device

ASSUME SotaAssumption ==
    /\ IsFiniteSet(Versions) /\ "none" \notin Versions /\ "other" \notin Versions
    /\ Blocks \in Nat \ {0}
    /\ MaxNotices \in Nat /\ MaxBadWrites \in Nat /\ MaxResets \in Nat

None == "none"          \* a zeroed ver and ver_chk_code
Other == "other"        \* what is no version as a whole

(***************************************************************************)
(* g_at_update_record: block_offset follows block_num, block_tolen counts  *)
(* blocks, and ver_chk_code tells versions apart as ver does.              *)
(***************************************************************************)
Record(s, n, t, v) == [state |-> s, num |-> n, tolen |-> t, ver |-> v]
ZeroRecord == Record("IDLE", 0, 0, None)
ErasedPage == [boot |-> "erased", app |-> Record("erased", 0, 0, None)]

Msg(k, v, n) == [kind |-> k, ver |-> v, num |-> n]

VARIABLES
    mode,               \* g_flash_op.run_mode, fixed by the build
    phase,              \* "off", "check", "report", "run", "activate", "reboot", "failed"
    rec,                \* g_at_update_record
    g_flag,             \* upgrade_state of the copy of the flag in memory
    page,               \* the flash page: half of the flag, half of the record
    pack,               \* the head of the package and what was hashed so far
    image,              \* the flash of the package, block by block
    running, ver,       \* what is installed, and what get_ver returns
    net,                \* messages on their way to the device
    exc,                \* MSG_UPDATE_STATE made the platform want the update
    notices, badWrites, resets,
    checked,            \* history: write_software_end accepted the last download
    seen,               \* history: versions notified or written into this record
    astray              \* history: a write of the page or the read of the flag failed, a report
                        \* was cut short, or a block was taken for one of another version

packVars == <<pack, image, checked>>
netVars == <<net, exc, notices>>
flashVars == <<page, badWrites>>
deviceVars == <<mode, running, ver, resets, astray>>
sotaVars == <<phase, rec, g_flag, packVars, netVars, flashVars, deviceVars, seen>>

NoPack == [head |-> None, sum |-> <<>>]

SotaInit ==
    /\ mode \in {"APP", "BOOT"}
    /\ phase = "off" /\ rec = ZeroRecord /\ g_flag = "IDLE"
    /\ page = ErasedPage
    /\ pack = NoPack
    /\ image = [k \in 0 .. Blocks - 1 |-> Other]
    /\ running = None /\ ver = None
    /\ net = {} /\ exc = FALSE
    /\ notices = 0 /\ badWrites = 0 /\ resets = 0
    /\ checked = FALSE /\ seen = {} /\ astray = FALSE

-----------------------------------------------------------------------------
(* The flash page                                                          *)

(***************************************************************************)
(* flag_write reads the page, replaces one half and writes the page back:  *)
(* done, failed, or failed after the page was erased.                      *)
(***************************************************************************)
\* faulty: the other half is not read first
WritesHalfOnly(p, half, value) == [ErasedPage EXCEPT ![half] = value]
HalfReplaced(p, half, value) == [p EXCEPT ![half] = value]

flag_write(half, value) ==
    \/ page' = HalfReplaced(page, half, value) /\ UNCHANGED <<badWrites, astray>>
    \/ /\ badWrites < MaxBadWrites
       /\ badWrites' = badWrites + 1 /\ astray' = TRUE
       /\ page' \in {page, ErasedPage}

-----------------------------------------------------------------------------
(* The package                                                             *)

Uniform(v) == [k \in 1 .. Blocks |-> v]
Whole(v) == image = [k \in 0 .. Blocks - 1 |-> v]

(***************************************************************************)
(* write_software: block 0 brings the head and starts the hash anew; a     *)
(* later block needs the head.                                             *)
(***************************************************************************)
Accepts(n) == n = 0 \/ pack.head # None

Hashed(n, v) ==
    IF n = 0 THEN [head |-> v, sum |-> <<v>>]
             ELSE [pack EXCEPT !.sum = Append(@, v)]

(***************************************************************************)
(* pack_head_check: a head, the length it states, the hash it carries.     *)
(***************************************************************************)
\* faulty: the hash is not compared
LengthOnly(p, tolen) == p.head # None /\ tolen = Blocks
pack_head_check(p, tolen) ==
    /\ p.head # None
    /\ tolen = Blocks
    /\ p.sum = Uniform(p.head)

(***************************************************************************)
(* write_software_end forgets head and hash, accepted or not.              *)
(***************************************************************************)
\* faulty: only after an accepted download
EndIfAccepted(p, tolen) == IF pack_head_check(p, tolen) THEN NoPack ELSE p
write_software_end(p, tolen) == NoPack

-----------------------------------------------------------------------------
(* sota_process_main                                                       *)

(***************************************************************************)
(* A request for a block, answered with the block, with an error, or lost  *)
(* either way.                                                             *)
(***************************************************************************)
sota_request_block(rest, v, n) ==
    \/ net' = rest
    \/ net' = rest \cup {Msg("ERROR", v, n)}
    \/ n < Blocks /\ net' = rest \cup {Msg("BLOCK", v, n)}

\* faulty: the length received is cleared for a resumed download, too
NotifiedClears(v) ==
    IF rec.ver = v THEN Record("DOWNLOADING", rec.num, 0, v)
                   ELSE Record("DOWNLOADING", 0, rec.tolen, v)
(***************************************************************************)
(* A notified version with the check code of the last download continues   *)
(* it; another one starts at block 0.  block_tolen stays.                  *)
(***************************************************************************)
Notified(v) ==
    Record("DOWNLOADING", IF rec.ver = v THEN rec.num ELSE 0, rec.tolen, v)

ProcessIdle(m) ==
    /\ rec.state = "IDLE"
    /\ IF m.kind = "NOTIFY"
       THEN /\ rec' = Notified(m.ver) /\ seen' = seen \cup {m.ver}
            /\ flag_write("app", rec')
            /\ IF mode = "APP" THEN sota_request_block(net \ {m}, m.ver, rec'.num)
                               ELSE net' = net \ {m}
       ELSE net' = net \ {m} /\ UNCHANGED <<rec, page, badWrites, astray, seen>>
    /\ UNCHANGED <<phase, g_flag, packVars, exc, notices, mode, running, ver, resets>>

Expected(m) == m.kind = "BLOCK" /\ m.num = rec.num

DownloadWrong(m) ==
    /\ rec.state = "DOWNLOADING" /\ ~Expected(m)
    /\ rec' = [rec EXCEPT !.state = "IDLE"]
    /\ net' = net \ {m}
    /\ UNCHANGED <<phase, g_flag, packVars, exc, notices, flashVars, deviceVars, seen>>

(***************************************************************************)
(* write_software fails without the head, or in the flash, where what was  *)
(* there may be lost: the state stays and no block is asked for.           *)
(***************************************************************************)
WriteFails(m) ==
    /\ rec.state = "DOWNLOADING" /\ Expected(m)
    /\ net' = net \ {m}
    /\ \/ ~Accepts(m.num) /\ UNCHANGED <<pack, image, badWrites>>
       \/ /\ Accepts(m.num) /\ badWrites < MaxBadWrites
          /\ badWrites' = badWrites + 1
          /\ pack' = IF m.num = 0 THEN [head |-> m.ver, sum |-> <<>>] ELSE pack
          /\ image' \in {image, [image EXCEPT ![m.num] = Other]}
    /\ UNCHANGED <<phase, rec, g_flag, checked, seen, exc, notices, page, deviceVars>>

BlockWritten(m) ==
    /\ rec.state = "DOWNLOADING" /\ Expected(m) /\ Accepts(m.num)
    /\ image' = [image EXCEPT ![m.num] = m.ver]
    /\ seen' = seen \cup {m.ver}
    /\ LET next == [rec EXCEPT !.num = @ + 1, !.tolen = @ + 1]
           p == Hashed(m.num, m.ver)
       IN  IF next.num < Blocks
           THEN /\ rec' = next /\ pack' = p
                /\ sota_request_block(net \ {m}, rec.ver, next.num)
                /\ UNCHANGED <<checked, exc>>
           ELSE /\ rec' = [next EXCEPT !.state = "DOWNLOADED"]
                /\ pack' = write_software_end(p, next.tolen)
                /\ checked' = pack_head_check(p, next.tolen)
                /\ exc' \in IF checked' THEN {exc, TRUE} ELSE {exc}
                /\ net' = net \ {m}
    /\ astray' = (astray \/ m.ver # rec.ver)
    /\ UNCHANGED <<phase, g_flag, notices, flashVars, mode, running, ver, resets>>

(***************************************************************************)
(* MSG_EXC_UPDATE, up to the write of the record; its version is not read. *)
(***************************************************************************)
ExecuteUpdate(m) ==
    /\ rec.state = "DOWNLOADED" /\ m.kind = "EXC"
    /\ rec' = [rec EXCEPT !.state = "UPDATING"]
    /\ flag_write("app", rec')
    /\ net' = net \ {m}
    /\ phase' = "activate"
    /\ UNCHANGED <<g_flag, packVars, exc, notices, mode, running, ver, resets, seen>>

ProcessIgnored(m) ==
    /\ \/ rec.state = "DOWNLOADED" /\ m.kind # "EXC"
       \/ rec.state = "UPDATING"
    /\ net' = net \ {m}
    /\ UNCHANGED <<phase, rec, g_flag, packVars, exc, notices, flashVars, deviceVars, seen>>

sota_process_main(m) ==
    /\ phase = "run" /\ m \in net
    /\ \/ ProcessIdle(m)
       \/ DownloadWrong(m) \/ WriteFails(m) \/ BlockWritten(m)
       \/ ExecuteUpdate(m)
       \/ ProcessIgnored(m)

(***************************************************************************)
(* active_software, after which the caller resets the device.  Nothing     *)
(* here asks whether the download was accepted.                            *)
(***************************************************************************)
active_software ==
    /\ phase = "activate"
    /\ g_flag' = "NEED_UPGRADE"
    /\ flag_write("boot", "NEED_UPGRADE")
    /\ phase' = IF badWrites' = badWrites THEN "reboot" ELSE "run"
    /\ UNCHANGED <<rec, packVars, netVars, mode, running, ver, resets, seen>>

sota_timeout_handler ==
    /\ phase = "run" /\ rec.state # "IDLE"
    /\ rec' = [rec EXCEPT !.state = "IDLE"]
    /\ UNCHANGED <<phase, g_flag, packVars, netVars, flashVars, deviceVars, seen>>

-----------------------------------------------------------------------------
(* Starting                                                                *)

(***************************************************************************)
(* A flag that was never written is written.  When it cannot be read,      *)
(* which sota_init ignores, the flag in memory stays zeroed.               *)
(***************************************************************************)
flag_upgrade_init ==
    /\ phase = "off" /\ phase' = "check"
    /\ \/ /\ page.boot # "erased"
          /\ g_flag' = page.boot
          /\ UNCHANGED <<flashVars, astray>>
       \/ /\ page.boot = "erased"
          /\ g_flag' = "IDLE"
          /\ flag_write("boot", "IDLE")
       \/ /\ badWrites < MaxBadWrites
          /\ badWrites' = badWrites + 1 /\ astray' = TRUE
          /\ UNCHANGED <<g_flag, page>>
    /\ UNCHANGED <<rec, packVars, netVars, mode, running, ver, resets, seen>>

(***************************************************************************)
(* sota_init fails without the record; the bootloader of a device that was *)
(* downloading continues; any other device takes the result of the last    *)
(* upgrade and clears it in flash.                                         *)
(***************************************************************************)
sota_status_check ==
    /\ phase = "check"
    /\ \/ /\ badWrites < MaxBadWrites
          /\ badWrites' = badWrites + 1
          /\ phase' = "failed"
          /\ UNCHANGED <<rec, net, page, astray>>
       \/ /\ mode = "BOOT" /\ page.app.state = "DOWNLOADING"
          /\ rec' = page.app /\ phase' = "run"
          /\ sota_request_block(net, page.app.ver, page.app.num)
          /\ UNCHANGED <<flashVars, astray>>
       \/ /\ ~(mode = "BOOT" /\ page.app.state = "DOWNLOADING")
          /\ rec' = page.app /\ phase' = "report"
          /\ flag_write("boot", "IDLE")
          /\ UNCHANGED net
    /\ UNCHANGED <<g_flag, packVars, exc, notices, mode, running, ver, resets, seen>>

(***************************************************************************)
(* The rest of sota_status_check: the version of the record is reported    *)
(* as the installed one, and the record is cleared.                        *)
(***************************************************************************)
ResultReported ==
    /\ phase = "report"
    /\ ver' = IF g_flag = "SUCCEED" THEN rec.ver ELSE ver
    /\ rec' = ZeroRecord /\ g_flag' = "IDLE" /\ seen' = {}
    /\ flag_write("app", rec')
    /\ phase' = "run"
    /\ UNCHANGED <<packVars, netVars, mode, running, resets>>

(***************************************************************************)
(* A reset loses what is in memory.  External: the bootloader installs a   *)
(* package it is told to install, or fails, and leaves its result.         *)
(***************************************************************************)
Installed == IF \E v \in Versions : Whole(v) THEN CHOOSE v \in Versions : Whole(v)
                                             ELSE Other

Reset ==
    /\ phase # "off" /\ resets < MaxResets
    /\ resets' = resets + 1
    /\ phase' = "off" /\ rec' = ZeroRecord /\ g_flag' = "IDLE"
    /\ pack' = NoPack
    /\ astray' = (astray \/ (phase = "report" /\ g_flag = "SUCCEED"))
    /\ IF page.boot = "NEED_UPGRADE"
       THEN \/ running' = Installed /\ page' = [page EXCEPT !.boot = "SUCCEED"]
            \/ page' = [page EXCEPT !.boot = "FAILED"] /\ UNCHANGED running
       ELSE UNCHANGED <<running, page>>
    /\ UNCHANGED <<image, checked, netVars, badWrites, mode, ver, seen>>

-----------------------------------------------------------------------------
(* External: the platform and the network                                  *)

Platform ==
    /\ \/ /\ notices < MaxNotices /\ notices' = notices + 1
          /\ \E m \in {Msg("NOTIFY", v, 0) : v \in Versions} \cup {Msg("GET_VER", None, 0)} :
                net' = net \cup {m}
          /\ UNCHANGED exc
       \/ /\ exc /\ exc' = FALSE
          /\ net' = net \cup {Msg("EXC", None, 0)}
          /\ UNCHANGED notices
    /\ UNCHANGED <<phase, rec, g_flag, packVars, flashVars, deviceVars, seen>>

Lose ==
    /\ \E m \in net : net' = net \ {m}
    /\ UNCHANGED <<phase, rec, g_flag, packVars, exc, notices, flashVars, deviceVars, seen>>

SotaNext ==
    \/ flag_upgrade_init \/ sota_status_check \/ ResultReported \/ Reset
    \/ \E m \in net : sota_process_main(m)
    \/ active_software
    \/ sota_timeout_handler
    \/ Platform \/ Lose

SotaSpec == SotaInit /\ [][SotaNext]_sotaVars

-----------------------------------------------------------------------------
(* Properties                                                              *)

Messages ==
    {Msg("NOTIFY", v, 0) : v \in Versions} \cup {Msg("GET_VER", None, 0), Msg("EXC", None, 0)}
    \cup [kind : {"BLOCK", "ERROR"}, ver : Versions, num : 0 .. Blocks]

(***************************************************************************)
(* Types; in the session of a download the hash is as long as the blocks   *)
(* counted, and a finished download has left nothing behind for the next.  *)
(***************************************************************************)
SotaTypeOK ==
    /\ mode \in {"APP", "BOOT"}
    /\ phase \in {"off", "check", "report", "run", "activate", "reboot", "failed"}
    /\ rec.state \in {"IDLE", "DOWNLOADING", "DOWNLOADED", "UPDATING", "erased"}
    /\ rec.num \in 0 .. Blocks /\ rec.tolen \in Nat /\ rec.ver \in Versions \cup {None}
    /\ {g_flag, page.boot} \subseteq {"IDLE", "NEED_UPGRADE", "SUCCEED", "FAILED", "erased"}
    /\ pack.head \in Versions \cup {None} /\ pack.sum \in Seq(Versions)
    /\ image \in [0 .. Blocks - 1 -> Versions \cup {Other}]
    /\ running \in Versions \cup {None, Other} /\ ver \in Versions \cup {None}
    /\ net \subseteq Messages
    /\ exc \in BOOLEAN /\ checked \in BOOLEAN /\ astray \in BOOLEAN
    /\ seen \subseteq Versions
    /\ notices \in 0 .. MaxNotices /\ badWrites \in 0 .. MaxBadWrites /\ resets \in 0 .. MaxResets
    /\ rec.state = "DOWNLOADED" => pack = NoPack
    /\ rec.num > 0 /\ pack # NoPack => Len(pack.sum) = rec.num

(***************************************************************************)
(* The bootloader is told to install only a package that is one version in *)
(* all its blocks, whatever late answers of an earlier download were       *)
(* written as blocks of this one - unless MSG_EXC_UPDATE was handled       *)
(* although write_software_end had refused the download.                   *)
(***************************************************************************)
InstallsVerified ==
    page.boot = "NEED_UPGRADE" /\ checked => \E v \in Versions : Whole(v)

(***************************************************************************)
(* A started device that runs a version as a whole reports that version,   *)
(* wherever resets, timeouts and losses fell - unless a write of the page  *)
(* or the read of the flag failed, a reset cut the report short, or late   *)
(* blocks of one version were taken for those of another.                  *)
(***************************************************************************)
ReportsWhatRuns ==
    phase = "run" /\ running \in Versions /\ ~astray => ver = running

(***************************************************************************)
(* However often its download was interrupted and resumed, a package of    *)
(* which all blocks came is refused only when another version was notified *)
(* before, since block_tolen then counts the blocks of both, or came late. *)
(***************************************************************************)
RefusedOnlyAfterAnother ==
    rec.state = "DOWNLOADED" /\ ~checked => Cardinality(seen) > 1
=============================================================================
