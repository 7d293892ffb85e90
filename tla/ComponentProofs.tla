-------------------------- MODULE ComponentProofs ---------------------------
(***************************************************************************)
(* Three components above the kernel, each with its own specification: the *)
(* firmware update over AT messages (Sota), the reports of the LwM2M agent *)
(* (AtinyReport) and the AT command framework (AtCmd).  They share nothing *)
(* but the facts on sequences and finite sets that their proofs cite.      *)
(***************************************************************************)
EXTENDS Sota, AtinyReport, AtCmd, LosListTheorems, FiniteSetTheorems

-----------------------------------------------------------------------------
(***************************************************************************)
(* The firmware update over AT messages: its types and its three safety    *)
(* properties, for any number of versions, blocks, messages, failing       *)
(* writes and resets.                                                      *)
(*                                                                         *)
(* Three stories have to agree: the record in memory, the record in flash  *)
(* and what the package flash holds.  A download that is resumed after a   *)
(* reset goes on from the record in flash, so the invariant follows both   *)
(* records through the download; what was hashed is compared with what was *)
(* written, block by block.                                                *)
(***************************************************************************)

(***************************************************************************)
(* SotaTypeOK with records that are whole.                                 *)
(***************************************************************************)
Records ==
    [state : {"IDLE", "DOWNLOADING", "DOWNLOADED", "UPDATING", "erased"},
     num : 0 .. Blocks, tolen : Nat, ver : Versions \cup {None}]

Flags == {"IDLE", "NEED_UPGRADE", "SUCCEED", "FAILED", "erased"}

Typed ==
    /\ mode \in {"APP", "BOOT"}
    /\ phase \in {"off", "check", "report", "run", "activate", "reboot", "failed"}
    /\ rec \in Records
    /\ g_flag \in Flags
    /\ page \in [boot : Flags, app : Records]
    /\ pack \in [head : Versions \cup {None}, sum : Seq(Versions)]
    /\ image \in [0 .. Blocks - 1 -> Versions \cup {Other}]
    /\ running \in Versions \cup {None, Other} /\ ver \in Versions \cup {None}
    /\ net \subseteq Messages
    /\ \A m \in net : m.kind = "BLOCK" => m.num < Blocks
    /\ exc \in BOOLEAN /\ checked \in BOOLEAN /\ astray \in BOOLEAN
    /\ seen \subseteq Versions
    /\ notices \in 0 .. MaxNotices /\ badWrites \in 0 .. MaxBadWrites /\ resets \in 0 .. MaxResets

(***************************************************************************)
(* Where in a session the device is, as its records, the package in memory *)
(* and the upgrade flag tell.                                              *)
(***************************************************************************)
SessionOK ==
    /\ rec.state = "DOWNLOADING" => rec.ver \in Versions
    /\ page.app.state = "DOWNLOADING" => page.app.ver \in Versions
    /\ page.app.state # "DOWNLOADED"
    /\ rec.ver = None => rec.num = 0
    /\ page.app.ver = None => page.app.num = 0
    /\ phase \in {"off", "check", "failed", "report"} => pack = NoPack /\ rec.state # "DOWNLOADED"
    /\ rec.state = "DOWNLOADED" => pack = NoPack /\ rec.num = Blocks
    /\ page.boot = "NEED_UPGRADE" => phase = "reboot"
    /\ phase \in {"activate", "reboot"} => rec.state = "UPDATING"

(***************************************************************************)
(* What was hashed is what was written, from block 0 on.                   *)
(***************************************************************************)
HashOK ==
    /\ Len(pack.sum) <= Blocks
    /\ \A k \in 1 .. Len(pack.sum) : image[k - 1] = pack.sum[k]
    /\ rec.num > 0 /\ pack # NoPack => Len(pack.sum) = rec.num

CheckedWhole ==
    checked /\ (rec.state = "DOWNLOADED" \/ phase \in {"activate", "reboot"})
        => \E v \in Versions : Whole(v)

(***************************************************************************)
(* As long as only one version was seen, block_tolen counts its blocks and *)
(* no others, in both records, and the hash is over this version.          *)
(***************************************************************************)
Started == phase \in {"run", "activate", "reboot"}
OneSeen == \A v, w \in seen : v = w
Resumes == mode = "BOOT" /\ page.app.state = "DOWNLOADING"

SeenOK ==
    /\ Started /\ rec.ver \in Versions => rec.ver \in seen
    /\ Resumes => page.app.ver \in seen /\ phase # "report"
    /\ rec.num > 0 /\ pack # NoPack =>
           pack.head \in seen /\ \A k \in 1 .. Len(pack.sum) : pack.sum[k] \in seen
    /\ OneSeen => /\ Started => rec.tolen = rec.num
                  /\ Resumes => page.app.tolen = page.app.num
                  /\ rec.state = "DOWNLOADED" => checked

(***************************************************************************)
(* Unless something went astray, the blocks that either record counts are  *)
(* those of its version, and a download in memory goes on from the one in  *)
(* flash.                                                                  *)
(***************************************************************************)
DownloadOK ==
    ~astray =>
        /\ Started => \A k \in 0 .. Blocks - 1 : k < rec.num => image[k] = rec.ver
        /\ page.app.state = "DOWNLOADING" =>
               \A k \in 0 .. Blocks - 1 : k < page.app.num => image[k] = page.app.ver
        /\ phase = "run" /\ rec.state = "DOWNLOADING" =>
               /\ page.app.state = "DOWNLOADING" /\ page.app.ver = rec.ver
               /\ page.app.num <= rec.num
        /\ phase \in {"activate", "reboot"} => page.app = rec /\ rec.num = Blocks

(***************************************************************************)
(* The version that runs is in ver, or on its way there: in the record in  *)
(* flash after the upgrade, in the record in memory until it is reported.  *)
(***************************************************************************)
Unstarted == phase \in {"off", "check", "failed"}

InstalledOK ==
    ~astray =>
        /\ page.boot = "SUCCEED" => Unstarted /\ page.app.state = "UPDATING"
        /\ phase = "check" => (g_flag = "SUCCEED" <=> page.boot = "SUCCEED")
        /\ running \in Versions =>
               /\ Started => ver = running
               /\ Unstarted => running = IF page.boot = "SUCCEED" THEN page.app.ver ELSE ver
               /\ phase = "report" => running = IF g_flag = "SUCCEED" THEN rec.ver ELSE ver

SotaInv ==
    /\ Typed /\ SessionOK /\ HashOK /\ CheckedWhole
    /\ SeenOK /\ DownloadOK /\ InstalledOK

-----------------------------------------------------------------------------
(***************************************************************************)
(* The two helpers: a write of half of the flash page, and a request for a *)
(* block.                                                                  *)
(***************************************************************************)
LEMMA Distinct ==
    None \notin Versions /\ Other \notin Versions /\ None # Other
  BY SotaAssumption DEF None, Other

LEMMA RecordIn ==
    ASSUME NEW s \in {"IDLE", "DOWNLOADING", "DOWNLOADED", "UPDATING", "erased"},
           NEW n \in 0 .. Blocks, NEW t \in Nat, NEW v \in Versions \cup {None}
    PROVE  /\ Record(s, n, t, v) \in Records
           /\ Record(s, n, t, v).state = s /\ Record(s, n, t, v).num = n
           /\ Record(s, n, t, v).tolen = t /\ Record(s, n, t, v).ver = v
  BY DEF Record, Records

LEMMA Erased ==
    /\ ErasedPage \in [boot : Flags, app : Records]
    /\ ErasedPage.boot = "erased" /\ ErasedPage.app.state = "erased"
    /\ ErasedPage.app.num = 0
    /\ ZeroRecord \in Records
    /\ ZeroRecord.state = "IDLE" /\ ZeroRecord.num = 0 /\ ZeroRecord.tolen = 0
    /\ ZeroRecord.ver = None
  BY SotaAssumption DEF ErasedPage, ZeroRecord, Record, Records, Flags

LEMMA WritesRecord ==
    ASSUME Typed, NEW r \in Records, flag_write("app", r)
    PROVE  /\ page' \in [boot : Flags, app : Records]
           /\ badWrites' \in 0 .. MaxBadWrites /\ astray' \in BOOLEAN
           /\ page'.boot \in {page.boot, "erased"}
           /\ page'.app \in {page.app, r, ErasedPage.app}
           /\ ~astray' => ~astray /\ page'.boot = page.boot /\ page'.app = r
  <1>1. page = [boot |-> page.boot, app |-> page.app] /\ page.boot \in Flags /\ page.app \in Records
    BY DEF Typed
  <1>2. HalfReplaced(page, "app", r) = [boot |-> page.boot, app |-> r]
    <2>1. HalfReplaced(page, "app", r) = [page EXCEPT !.app = r]
      BY <1>1 DEF HalfReplaced
    <2> QED BY <1>1, <2>1
  <1>3. astray \in BOOLEAN /\ badWrites \in 0 .. MaxBadWrites /\ MaxBadWrites \in Nat
    BY SotaAssumption DEF Typed
  <1>4. CASE page' = HalfReplaced(page, "app", r) /\ UNCHANGED <<badWrites, astray>>
    BY <1>1, <1>2, <1>3, <1>4
  <1>5. CASE /\ badWrites < MaxBadWrites
             /\ badWrites' = badWrites + 1 /\ astray' = TRUE
             /\ page' \in {page, ErasedPage}
    BY <1>1, <1>3, <1>5, Erased
  <1> QED BY <1>4, <1>5 DEF flag_write

LEMMA WritesFlag ==
    ASSUME Typed, NEW f \in Flags, flag_write("boot", f)
    PROVE  /\ page' \in [boot : Flags, app : Records]
           /\ badWrites' \in 0 .. MaxBadWrites /\ astray' \in BOOLEAN
           /\ page'.boot \in {page.boot, f, "erased"}
           /\ page'.app \in {page.app, ErasedPage.app}
           /\ badWrites' # badWrites => page'.boot \in {page.boot, "erased"}
           /\ ~astray' => ~astray /\ page'.boot = f /\ page'.app = page.app
  <1>1. page = [boot |-> page.boot, app |-> page.app] /\ page.boot \in Flags /\ page.app \in Records
    BY DEF Typed
  <1>2. HalfReplaced(page, "boot", f) = [boot |-> f, app |-> page.app]
    <2>1. HalfReplaced(page, "boot", f) = [page EXCEPT !.boot = f]
      BY <1>1 DEF HalfReplaced
    <2> QED BY <1>1, <2>1
  <1>3. astray \in BOOLEAN /\ badWrites \in 0 .. MaxBadWrites /\ MaxBadWrites \in Nat
    BY SotaAssumption DEF Typed
  <1>4. CASE page' = HalfReplaced(page, "boot", f) /\ UNCHANGED <<badWrites, astray>>
    BY <1>1, <1>2, <1>3, <1>4
  <1>5. CASE /\ badWrites < MaxBadWrites
             /\ badWrites' = badWrites + 1 /\ astray' = TRUE
             /\ page' \in {page, ErasedPage}
    BY <1>1, <1>3, <1>5, Erased
  <1> QED BY <1>4, <1>5 DEF flag_write

Net(n) == n \subseteq Messages /\ \A m \in n : m.kind = "BLOCK" => m.num < Blocks

LEMMA MessageFacts ==
    ASSUME NEW m \in Messages
    PROVE  /\ m.kind = "NOTIFY" => m.ver \in Versions
           /\ m.kind = "BLOCK" => m.ver \in Versions /\ m.num \in 0 .. Blocks
  BY DEF Messages, Msg

LEMMA RequestSends ==
    ASSUME NEW rest, Net(rest), NEW v \in Versions, NEW n \in 0 .. Blocks,
           sota_request_block(rest, v, n)
    PROVE  Net(net')
  <1>1. \A k \in {"BLOCK", "ERROR"} : Msg(k, v, n) \in Messages /\ Msg(k, v, n).kind = k
                                      /\ Msg(k, v, n).num = n
    BY DEF Msg, Messages
  <1> QED BY <1>1 DEF sota_request_block, Net

-----------------------------------------------------------------------------
(***************************************************************************)
(* One lemma per action.  First what the platform, the network and the     *)
(* handlers of messages that do not fit do.                                *)
(***************************************************************************)
LEMMA SotaInitInv ==
    ASSUME SotaInit
    PROVE  SotaInv
  <1>1. Typed
    <2>1. /\ rec \in Records /\ page \in [boot : Flags, app : Records]
          /\ g_flag \in Flags /\ mode \in {"APP", "BOOT"} /\ phase = "off"
      BY Erased DEF SotaInit, Flags
    <2>2. pack \in [head : Versions \cup {None}, sum : Seq(Versions)]
      BY DEF SotaInit, NoPack
    <2>3. image \in [0 .. Blocks - 1 -> Versions \cup {Other}] /\ running = None /\ ver = None
      BY DEF SotaInit
    <2>4. /\ net = {} /\ seen = {} /\ exc = FALSE /\ checked = FALSE /\ astray = FALSE
          /\ notices = 0 /\ badWrites = 0 /\ resets = 0
      BY Zenon DEF SotaInit
    <2>5. 0 \in 0 .. MaxNotices /\ 0 \in 0 .. MaxBadWrites /\ 0 \in 0 .. MaxResets
      BY SotaAssumption
    <2> QED BY <2>1, <2>2, <2>3, <2>4, <2>5 DEF Typed
  <1>2. SessionOK
    BY Erased DEF SotaInit, SessionOK
  <1>3. HashOK /\ CheckedWhole
    BY Erased, SotaAssumption DEF SotaInit, HashOK, CheckedWhole, NoPack
  <1>4. SeenOK /\ DownloadOK /\ InstalledOK
    BY Erased, Distinct DEF SotaInit, SeenOK, DownloadOK, InstalledOK, Started, Unstarted, Resumes
  <1> QED BY <1>1, <1>2, <1>3, <1>4 DEF SotaInv

LEMMA PlatformStep ==
    ASSUME SotaInv, Platform \/ Lose
    PROVE  SotaInv'
  <1>1. UNCHANGED <<phase, rec, g_flag, pack, image, checked, page, badWrites, mode, running, ver, resets,
                    astray, seen>>
    BY DEF Platform, Lose, packVars, flashVars, deviceVars
  <1>2. Net(net') /\ exc' \in BOOLEAN /\ notices' \in 0 .. MaxNotices
    <2>0. Net(net) /\ exc \in BOOLEAN /\ notices \in 0 .. MaxNotices /\ MaxNotices \in Nat
      BY SotaAssumption DEF SotaInv, Typed, Net
    <2>1. CASE Platform
      <3>1. \A v \in Versions : Msg("NOTIFY", v, 0) \in Messages /\ Msg("NOTIFY", v, 0).kind # "BLOCK"
        BY DEF Messages, Msg
      <3>2. /\ Msg("GET_VER", None, 0) \in Messages /\ Msg("GET_VER", None, 0).kind # "BLOCK"
            /\ Msg("EXC", None, 0) \in Messages /\ Msg("EXC", None, 0).kind # "BLOCK"
        BY DEF Messages, Msg
      <3>3. PICK m \in Messages : m.kind # "BLOCK" /\ net' = net \cup {m}
        BY <2>1, <3>1, <3>2 DEF Platform
      <3>4. Net(net')
        BY <2>0, <3>3 DEF Net
      <3>5. exc' \in BOOLEAN
        BY <2>0, <2>1 DEF Platform
      <3>6. notices' \in 0 .. MaxNotices
        BY <2>0, <2>1 DEF Platform
      <3> QED BY <3>4, <3>5, <3>6
    <2>2. CASE Lose
      BY <2>0, <2>2 DEF Lose, Net
    <2> QED BY <2>1, <2>2
  <1> QED BY <1>1, <1>2 DEF SotaInv, Typed, Net, SessionOK, HashOK, CheckedWhole, Whole, SeenOK, OneSeen,
                            DownloadOK, InstalledOK, Started, Unstarted, Resumes

LEMMA TurnsIdle ==
    ASSUME SotaInv, (\E m : DownloadWrong(m)) \/ sota_timeout_handler, phase = "run"
    PROVE  SotaInv'
  <1>1. /\ UNCHANGED <<phase, g_flag, pack, image, checked, exc, notices, page, badWrites, mode, running,
                       ver, resets, astray, seen>>
        /\ rec' = [rec EXCEPT !.state = "IDLE"]
        /\ \E m : net' \in {net, net \ {m}}
    BY DEF DownloadWrong, sota_timeout_handler, packVars, netVars, flashVars, deviceVars
  <1>2. /\ rec' \in Records /\ rec'.state = "IDLE"
        /\ rec'.num = rec.num /\ rec'.tolen = rec.tolen /\ rec'.ver = rec.ver
    BY <1>1 DEF SotaInv, Typed, Records
  <1>3. Typed'
    BY <1>1, <1>2 DEF SotaInv, Typed
  <1>4. SessionOK' /\ HashOK' /\ CheckedWhole'
    BY <1>1, <1>2 DEF SotaInv, SessionOK, HashOK, CheckedWhole
  <1>5. SeenOK' /\ DownloadOK' /\ InstalledOK'
    BY <1>1, <1>2 DEF SotaInv, SeenOK, OneSeen, DownloadOK, InstalledOK, Started, Unstarted, Resumes
  <1> QED BY <1>3, <1>4, <1>5 DEF SotaInv

LEMMA IgnoredStep ==
    ASSUME SotaInv, NEW m, ProcessIgnored(m)
    PROVE  SotaInv'
  <1>1. /\ UNCHANGED <<phase, rec, g_flag, pack, image, checked, exc, notices, page, badWrites, mode, running,
                       ver, resets, astray, seen>>
        /\ net' = net \ {m}
    BY DEF ProcessIgnored, packVars, flashVars, deviceVars
  <1> QED BY <1>1 DEF SotaInv, Typed, SessionOK, HashOK, CheckedWhole, Whole, SeenOK, OneSeen,
                      DownloadOK, InstalledOK, Started, Unstarted, Resumes

-----------------------------------------------------------------------------
(***************************************************************************)
(* A notification, and the blocks of the download.                         *)
(***************************************************************************)
LEMMA IdleStep ==
    ASSUME SotaInv, phase = "run", NEW m \in net, ProcessIdle(m)
    PROVE  SotaInv'
  <1>1. CASE m.kind # "NOTIFY"
    <2>1. /\ UNCHANGED <<phase, rec, g_flag, pack, image, checked, exc, notices, page, badWrites, mode,
                         running, ver, resets, astray, seen>>
          /\ net' = net \ {m}
      BY <1>1 DEF ProcessIdle, packVars
    <2> QED BY <2>1 DEF SotaInv, Typed, SessionOK, HashOK, CheckedWhole, Whole, SeenOK, OneSeen,
                        DownloadOK, InstalledOK, Started, Unstarted, Resumes
  <1>2. CASE m.kind = "NOTIFY"
    <2> DEFINE v == m.ver
    <2>1. /\ UNCHANGED <<phase, g_flag, pack, image, checked, exc, notices, mode, running, ver, resets>>
          /\ rec.state = "IDLE"
          /\ rec' = Notified(v) /\ seen' = seen \cup {v}
          /\ flag_write("app", rec')
          /\ net' = net \ {m} \/ sota_request_block(net \ {m}, v, rec'.num)
      BY <1>2 DEF ProcessIdle, packVars
    <2>2. v \in Versions /\ rec \in Records
      BY <1>2, MessageFacts DEF SotaInv, Typed
    <2>3. /\ rec' \in Records
          /\ rec'.state = "DOWNLOADING" /\ rec'.tolen = rec.tolen /\ rec'.ver = v
          /\ rec'.num = IF rec.ver = v THEN rec.num ELSE 0
      <3>1. (IF rec.ver = v THEN rec.num ELSE 0) \in 0 .. Blocks /\ rec.tolen \in Nat
        BY <2>2, SotaAssumption DEF Records
      <3> QED BY <2>1, <2>2, <3>1, RecordIn DEF Notified
    <2>4. /\ page' \in [boot : Flags, app : Records]
          /\ badWrites' \in 0 .. MaxBadWrites /\ astray' \in BOOLEAN
          /\ page'.boot \in {page.boot, "erased"}
          /\ page'.app \in {page.app, rec', ErasedPage.app}
          /\ ~astray' => ~astray /\ page'.boot = page.boot /\ page'.app = rec'
      BY <2>1, <2>3, WritesRecord DEF SotaInv
    <2>5. Net(net')
      <3>1. Net(net \ {m})
        BY DEF Net, SotaInv, Typed
      <3> QED BY <2>1, <2>2, <2>3, <3>1, RequestSends DEF Records
    <2> HIDE DEF v
    <2>6. Typed'
      BY <2>1, <2>2, <2>3, <2>4, <2>5 DEF SotaInv, Typed, Net
    <2>7. SessionOK' /\ HashOK' /\ CheckedWhole'
      <3>1. SessionOK'
        BY <2>1, <2>2, <2>3, <2>4, Erased, Distinct DEF SotaInv, SessionOK
      <3>2. HashOK' /\ CheckedWhole'
        BY <2>1, <2>3 DEF SotaInv, HashOK, CheckedWhole
      <3> QED BY <3>1, <3>2
    <2>8. SeenOK'
      <3>1. ASSUME OneSeen' PROVE OneSeen /\ rec.tolen = rec'.num
        <4>1. OneSeen
          BY <2>1, <3>1 DEF OneSeen
        <4>2. rec.tolen = rec.num /\ (rec.ver \in Versions => rec.ver \in seen)
          BY <4>1 DEF SotaInv, SeenOK, Started
        <4>3. rec.ver = None => rec.num = 0
          BY DEF SotaInv, SessionOK
        <4>4. rec.ver \in Versions => rec.ver = v
          BY <2>1, <3>1, <4>2 DEF OneSeen
        <4>5. rec.ver \in Versions \cup {None}
          BY <2>2 DEF Records
        <4> QED BY <2>3, <4>1, <4>2, <4>3, <4>4, <4>5
      <3> QED BY <2>1, <2>2, <2>3, <2>4, <3>1, Erased DEF SotaInv, SeenOK, Started, Resumes
    <2>9. DownloadOK' /\ InstalledOK'
      BY <2>1, <2>2, <2>3, <2>4 DEF SotaInv, DownloadOK, InstalledOK, Started, Unstarted, Records
    <2> QED BY <2>6, <2>7, <2>8, <2>9 DEF SotaInv
  <1> QED BY <1>1, <1>2

LEMMA WriteFailsStep ==
    ASSUME SotaInv, phase = "run", NEW m \in net, WriteFails(m)
    PROVE  SotaInv'
  <1>1. /\ UNCHANGED <<phase, rec, g_flag, checked, seen, exc, notices, page, mode, running, ver, resets,
                       astray>>
        /\ rec.state = "DOWNLOADING" /\ m.kind = "BLOCK" /\ m.num = rec.num
        /\ net' = net \ {m}
        /\ \/ UNCHANGED <<pack, image, badWrites>>
           \/ /\ m.num = 0 \/ pack.head # None
              /\ badWrites' = badWrites + 1 /\ badWrites < MaxBadWrites
              /\ pack' = IF m.num = 0 THEN [head |-> m.ver, sum |-> <<>>] ELSE pack
              /\ image' \in {image, [image EXCEPT ![m.num] = Other]}
    BY DEF WriteFails, Expected, Accepts, deviceVars
  <1>2. /\ m.num \in 0 .. Blocks - 1 /\ m.ver \in Versions
        /\ rec \in Records /\ badWrites \in 0 .. MaxBadWrites /\ Blocks \in Nat /\ MaxBadWrites \in Nat
        /\ pack \in [head : Versions \cup {None}, sum : Seq(Versions)]
        /\ image \in [0 .. Blocks - 1 -> Versions \cup {Other}]
    BY <1>1, MessageFacts, SotaAssumption DEF SotaInv, Typed
  <1>3. /\ pack' \in [head : Versions \cup {None}, sum : Seq(Versions)]
        /\ rec.num > 0 => pack' = pack
        /\ rec.num = 0 => pack' = pack \/ pack'.sum = <<>>
    <2> DEFINE begun == [head |-> m.ver, sum |-> <<>>]
    <2>1. begun \in [head : Versions \cup {None}, sum : Seq(Versions)] /\ begun.sum = <<>>
      BY <1>2
    <2>2. CASE m.num = 0
      <3>1. pack' = pack \/ pack' = begun
        BY <1>1, <2>2
      <3> HIDE DEF begun
      <3>2. pack' = pack \/ (pack' \in [head : Versions \cup {None}, sum : Seq(Versions)]
                              /\ pack'.sum = <<>>)
        BY <2>1, <3>1
      <3>3. rec.num = 0
        BY <1>1, <2>2
      <3> QED BY <1>2, <3>2, <3>3
    <2>3. CASE m.num # 0
      <3>1. pack' = pack
        BY <1>1, <2>3
      <3> QED BY <1>2, <3>1
    <2> QED BY <2>2, <2>3
  <1>3a. /\ image' \in [0 .. Blocks - 1 -> Versions \cup {Other}]
         /\ \A k \in 0 .. Blocks - 1 : k # rec.num => image'[k] = image[k]
    BY <1>1, <1>2
  <1>3b. image' # image => pack'.sum = <<>> \/ (rec.num > 0 /\ pack # NoPack)
    BY <1>1, <1>2 DEF NoPack
  <1>4. Typed'
    <2>1. badWrites' \in 0 .. MaxBadWrites
      BY <1>1, <1>2
    <2> QED BY <1>1, <1>3, <1>3a, <2>1 DEF SotaInv, Typed
  <1>5. SessionOK' /\ CheckedWhole'
    BY <1>1 DEF SotaInv, SessionOK, CheckedWhole
  <1>6. HashOK'
    <2>1. CASE pack'.sum = <<>>
      <3>1. rec.num > 0 /\ pack' # NoPack => Len(pack'.sum) = rec.num
        BY <1>3 DEF SotaInv, HashOK
      <3> QED BY <1>1, <1>2, <2>1, <3>1 DEF HashOK
    <2>2. CASE pack'.sum # <<>>
      <3>1. pack' = pack
        BY <1>2, <1>3, <2>2 DEF Records
      <3>2. image' # image => Len(pack.sum) = rec.num
        BY <1>3b, <2>2 DEF SotaInv, HashOK
      <3>3. \A k \in 1 .. Len(pack.sum) : image'[k - 1] = image[k - 1]
        <4>1. Len(pack.sum) \in Nat /\ Len(pack.sum) <= Blocks
          BY <1>2 DEF SotaInv, HashOK
        <4> QED BY <1>2, <1>3a, <3>2, <4>1
      <3> QED BY <1>1, <3>1, <3>3 DEF SotaInv, HashOK
    <2> QED BY <2>1, <2>2
  <1>7. SeenOK'
    BY <1>1, <1>3 DEF SotaInv, SeenOK, OneSeen, Started, Resumes
  <1>8. DownloadOK' /\ InstalledOK'
    <2>1. ~astray => page.app.num <= rec.num
      BY <1>1 DEF SotaInv, DownloadOK
    <2>2. page.app.num \in Nat /\ rec.num \in Nat
      BY DEF SotaInv, Typed, Records
    <2>3. \A k \in 0 .. Blocks - 1 : k < rec.num => image'[k] = image[k]
      BY <1>3a, <2>2
    <2>4. InstalledOK'
      BY <1>1 DEF SotaInv, InstalledOK, Started, Unstarted
    <2>5. DownloadOK'
      BY <1>1, <2>1, <2>2, <2>3 DEF SotaInv, DownloadOK, Started
    <2> QED BY <2>4, <2>5
  <1> QED BY <1>4, <1>5, <1>6, <1>7, <1>8 DEF SotaInv

LEMMA BlockWrittenStep ==
    ASSUME SotaInv, phase = "run", NEW m \in net, BlockWritten(m)
    PROVE  SotaInv'
  <1> DEFINE p == Hashed(m.num, m.ver)
             n == rec.num + 1
  <1>1. /\ UNCHANGED <<phase, g_flag, notices, page, badWrites, mode, running, ver, resets>>
        /\ rec.state = "DOWNLOADING" /\ m.kind = "BLOCK" /\ m.num = rec.num
        /\ m.num = 0 \/ pack.head # None
        /\ image' = [image EXCEPT ![m.num] = m.ver]
        /\ seen' = seen \cup {m.ver}
        /\ astray' = (astray \/ m.ver # rec.ver)
    BY DEF BlockWritten, Expected, Accepts, flashVars
  <1>2. /\ m.num \in 0 .. Blocks - 1 /\ m.ver \in Versions /\ m.ver # None
        /\ rec \in Records /\ Blocks \in Nat \ {0}
        /\ pack \in [head : Versions \cup {None}, sum : Seq(Versions)]
        /\ image \in [0 .. Blocks - 1 -> Versions \cup {Other}]
    BY <1>1, MessageFacts, SotaAssumption, Distinct DEF SotaInv, Typed
  <1>3. /\ n \in 1 .. Blocks /\ rec.num \in Nat /\ rec.tolen \in Nat /\ rec.ver \in Versions
        /\ n \in Nat /\ (n < Blocks \/ n = Blocks) /\ ~(n < Blocks /\ n = Blocks)
    BY <1>1, <1>2 DEF Records, SotaInv, SessionOK
  <1>4. /\ n < Blocks =>
               /\ rec' = [rec EXCEPT !.num = @ + 1, !.tolen = @ + 1]
               /\ pack' = p /\ UNCHANGED <<checked, exc>>
               /\ sota_request_block(net \ {m}, rec.ver, n)
        /\ n = Blocks =>
               /\ rec' = [rec EXCEPT !.num = @ + 1, !.tolen = @ + 1, !.state = "DOWNLOADED"]
               /\ pack' = NoPack
               /\ checked' = pack_head_check(p, rec.tolen + 1)
               /\ exc' \in {exc, TRUE}
               /\ net' = net \ {m}
    <2> DEFINE next == [rec EXCEPT !.num = @ + 1, !.tolen = @ + 1]
    <2>1. next.num = n /\ next.tolen = rec.tolen + 1
      BY <1>2 DEF Records
    <2>2. IF next.num < Blocks
          THEN /\ rec' = next /\ pack' = p
               /\ sota_request_block(net \ {m}, rec.ver, next.num)
               /\ UNCHANGED <<checked, exc>>
          ELSE /\ rec' = [next EXCEPT !.state = "DOWNLOADED"]
               /\ pack' = write_software_end(p, next.tolen)
               /\ checked' = pack_head_check(p, next.tolen)
               /\ exc' \in IF checked' THEN {exc, TRUE} ELSE {exc}
               /\ net' = net \ {m}
      BY DEF BlockWritten
    <2>3. CASE n < Blocks
      <3>1. /\ rec' = next /\ pack' = p /\ UNCHANGED <<checked, exc>>
            /\ sota_request_block(net \ {m}, rec.ver, n)
        BY <2>1, <2>2, <2>3
      <3> QED BY <1>3, <2>3, <3>1
    <2>4. CASE n = Blocks
      <3>1. ~(next.num < Blocks)
        BY <1>3, <2>1, <2>4
      <3>2. [next EXCEPT !.state = "DOWNLOADED"]
                = [rec EXCEPT !.num = @ + 1, !.tolen = @ + 1, !.state = "DOWNLOADED"]
        OBVIOUS
      <3>3. /\ rec' = [next EXCEPT !.state = "DOWNLOADED"]
            /\ pack' = NoPack
            /\ checked' = pack_head_check(p, rec.tolen + 1)
            /\ exc' \in {exc, TRUE}
            /\ net' = net \ {m}
        BY <2>1, <2>2, <3>1 DEF write_software_end
      <3> QED BY <1>3, <2>4, <3>2, <3>3
    <2> QED BY <1>3, <2>3, <2>4
  <1>5. /\ rec' \in Records
        /\ rec'.num = n /\ rec'.tolen = rec.tolen + 1 /\ rec'.ver = rec.ver
        /\ rec'.state = IF n < Blocks THEN "DOWNLOADING" ELSE "DOWNLOADED"
    <2>1. rec = [state |-> rec.state, num |-> rec.num, tolen |-> rec.tolen, ver |-> rec.ver]
      BY <1>2 DEF Records
    <2>2. rec' = [state |-> IF n < Blocks THEN "DOWNLOADING" ELSE "DOWNLOADED",
                  num |-> n, tolen |-> rec.tolen + 1, ver |-> rec.ver]
      BY <1>1, <1>3, <1>4, <2>1
    <2> QED BY <1>3, <2>2 DEF Records
  <1>6. image' \in [0 .. Blocks - 1 -> Versions \cup {Other}]
        /\ \A k \in 0 .. Blocks - 1 : image'[k] = IF k = rec.num THEN m.ver ELSE image[k]
    BY <1>1, <1>2
  <1>7. /\ p \in [head : Versions, sum : Seq(Versions)] /\ Len(p.sum) = n
        /\ \A k \in 1 .. n : p.sum[k] = image'[k - 1] /\ p.sum[k] \in seen'
        /\ p.head \in seen'
    <2>1. CASE rec.num = 0
      <3>1. p = [head |-> m.ver, sum |-> <<m.ver>>]
        BY <1>1, <2>1 DEF Hashed
      <3>2. n = 1 /\ Len(<<m.ver>>) = 1 /\ <<m.ver>>[1] = m.ver /\ <<m.ver>> \in Seq(Versions)
        BY <1>2, <2>1
      <3>3. image'[0] = m.ver /\ m.ver \in seen'
        BY <1>1, <1>2, <1>6, <2>1
      <3>4. \A k \in 1 .. 1 : k = 1 /\ k - 1 = 0
        OBVIOUS
      <3> HIDE DEF p, n
      <3> QED BY <1>2, <3>1, <3>2, <3>3, <3>4
    <2>2. CASE rec.num > 0
      <3>1. pack # NoPack /\ pack.head \in Versions /\ Len(pack.sum) = rec.num
        BY <1>1, <1>2, <2>2 DEF SotaInv, HashOK, NoPack
      <3>2. /\ \A k \in 1 .. rec.num : image[k - 1] = pack.sum[k] /\ pack.sum[k] \in seen
            /\ pack.head \in seen
        BY <2>2, <3>1 DEF SotaInv, HashOK, SeenOK
      <3>3. p = [head |-> pack.head, sum |-> Append(pack.sum, m.ver)]
        <4>1. p = [pack EXCEPT !.sum = Append(@, m.ver)]
          BY <1>1, <1>3, <2>2 DEF Hashed
        <4> QED BY <1>2, <4>1
      <3>4. /\ Append(pack.sum, m.ver) \in Seq(Versions) /\ Len(Append(pack.sum, m.ver)) = n
            /\ \A k \in 1 .. n :
                   Append(pack.sum, m.ver)[k] = IF k = n THEN m.ver ELSE pack.sum[k]
        BY <1>2, <3>1
      <3>5. ASSUME NEW k \in 1 .. n
            PROVE  p.sum[k] = image'[k - 1] /\ p.sum[k] \in seen'
        <4>1. CASE k = n
          BY <1>1, <1>3, <1>6, <3>3, <3>4, <4>1
        <4>2. CASE k # n
          <5>1. k \in 1 .. rec.num /\ k - 1 \in 0 .. Blocks - 1 /\ k - 1 # rec.num
            BY <1>2, <1>3, <4>2
          <5> QED BY <1>1, <1>6, <3>2, <3>3, <3>4, <4>2, <5>1
        <4> QED BY <4>1, <4>2
      <3> HIDE DEF p
      <3> QED BY <1>1, <3>1, <3>2, <3>3, <3>4, <3>5
    <2> QED BY <1>3, <2>1, <2>2
  <1> HIDE DEF p, n
  <1>8. Net(net') /\ exc' \in BOOLEAN /\ checked' \in BOOLEAN
    <2>1. Net(net \ {m}) /\ Net(net)
      BY DEF Net, SotaInv, Typed
    <2>2. exc \in BOOLEAN /\ checked \in BOOLEAN
      BY DEF SotaInv, Typed
    <2>3. CASE n < Blocks
      BY <1>3, <1>4, <2>1, <2>2, <2>3, RequestSends
    <2>4. CASE n = Blocks
      BY <1>4, <2>1, <2>2, <2>4 DEF pack_head_check
    <2> QED BY <1>3, <2>3, <2>4
  <1>9. Typed'
    <2>1. pack' \in [head : Versions \cup {None}, sum : Seq(Versions)]
      <3>1. NoPack \in [head : Versions \cup {None}, sum : Seq(Versions)]
        BY DEF NoPack
      <3>2. p \in [head : Versions \cup {None}, sum : Seq(Versions)]
        BY <1>7
      <3> QED BY <1>3, <1>4, <3>1, <3>2
    <2>2. seen' \subseteq Versions /\ astray' \in BOOLEAN
      BY <1>1, <1>2 DEF SotaInv, Typed
    <2> QED BY <1>1, <1>5, <1>6, <1>8, <2>1, <2>2 DEF SotaInv, Typed, Net
  <1>10. SessionOK'
    <2>1. /\ rec'.ver # None /\ rec'.ver \in Versions /\ rec'.state # "UPDATING"
          /\ rec'.state = "DOWNLOADED" => pack' = NoPack /\ rec'.num = Blocks
      BY <1>3, <1>4, <1>5, Distinct
    <2> QED BY <1>1, <2>1 DEF SotaInv, SessionOK
  <1>11. HashOK'
    <2>1. CASE n < Blocks
      BY <1>3, <1>4, <1>5, <1>7, <2>1 DEF HashOK
    <2>2. CASE n = Blocks
      BY <1>2, <1>4, <2>2 DEF HashOK, NoPack
    <2> QED BY <1>3, <2>1, <2>2
  <1>12. CheckedWhole'
    <2> SUFFICES ASSUME checked', n = Blocks
                 PROVE  (\E v \in Versions : Whole(v))'
      BY <1>1, <1>3, <1>5 DEF CheckedWhole
    <2>1. p.sum = Uniform(p.head)
      BY <1>4 DEF pack_head_check
    <2>2. \A k \in 1 .. Blocks : image'[k - 1] = p.head
      BY <1>7, <2>1 DEF Uniform
    <2>3. \A k \in 0 .. Blocks - 1 : image'[k] = p.head
      <3> SUFFICES ASSUME NEW k \in 0 .. Blocks - 1 PROVE image'[k] = p.head
        OBVIOUS
      <3>1. k + 1 \in 1 .. Blocks /\ (k + 1) - 1 = k
        BY <1>2
      <3> QED BY <2>2, <3>1
    <2>4. image' = [k \in 0 .. Blocks - 1 |-> p.head]
      BY <1>6, <2>3
    <2> QED BY <1>7, <2>4 DEF Whole
  <1>13. SeenOK'
    <2>1. ASSUME OneSeen'
          PROVE  /\ OneSeen /\ rec'.tolen = rec'.num
                 /\ rec'.state = "DOWNLOADED" => checked'
      <3>1. OneSeen
        BY <1>1, <2>1 DEF OneSeen
      <3>2. rec'.tolen = n
        BY <1>1, <1>3, <1>5, <3>1 DEF SotaInv, SeenOK, Started, n
      <3>3. ASSUME n = Blocks PROVE checked'
        <4>1. p.sum = Uniform(p.head)
          <5>1. p.sum = [k \in 1 .. Blocks |-> p.sum[k]]
            BY <1>7, <3>3
          <5>2. \A k \in 1 .. Blocks : p.sum[k] = p.head
            BY <1>7, <2>1, <3>3 DEF OneSeen
          <5> QED BY <5>1, <5>2 DEF Uniform
        <4>2. p.head # None
          BY <1>7, Distinct
        <4> QED BY <1>4, <1>5, <3>2, <3>3, <4>1, <4>2 DEF pack_head_check
      <3>4. rec'.state = "DOWNLOADED" => n = Blocks
        BY <1>3, <1>5
      <3> QED BY <1>5, <3>1, <3>2, <3>3, <3>4
    <2>2. rec'.num > 0 /\ pack' # NoPack =>
              pack'.head \in seen' /\ \A k \in 1 .. Len(pack'.sum) : pack'.sum[k] \in seen'
      <3>1. pack' = NoPack \/ pack' = p
        BY <1>3, <1>4
      <3> QED BY <1>7, <3>1
    <2>3. rec.ver \in seen' /\ (Resumes' => Resumes) /\ Started
      BY <1>1, <1>3 DEF SotaInv, SeenOK, Started, Resumes
    <2> QED BY <1>1, <1>5, <2>1, <2>2, <2>3 DEF SotaInv, SeenOK, Resumes
  <1>14. DownloadOK'
    <2> SUFFICES ASSUME ~astray' PROVE DownloadOK'
      BY DEF DownloadOK
    <2>1. ~astray /\ m.ver = rec.ver
      BY <1>1
    <2>2. /\ \A k \in 0 .. Blocks - 1 : k < rec.num => image[k] = rec.ver
          /\ page.app.state = "DOWNLOADING" /\ page.app.ver = rec.ver
          /\ page.app.num <= rec.num
      BY <1>1, <2>1 DEF SotaInv, DownloadOK, Started
    <2>3. \A k \in 0 .. Blocks - 1 : k < n => image'[k] = rec.ver
      BY <1>3, <1>6, <2>1, <2>2 DEF n
    <2>4. page.app.num \in Nat
      BY DEF SotaInv, Typed, Records
    <2>5. page.app.num <= n /\ \A k \in 0 .. Blocks - 1 : k < page.app.num => k < n
      BY <1>3, <2>2, <2>4 DEF n
    <2> QED BY <1>1, <1>5, <2>2, <2>3, <2>5 DEF DownloadOK, Started
  <1>15. InstalledOK'
    BY <1>1 DEF SotaInv, InstalledOK, Started, Unstarted
  <1> QED BY <1>9, <1>10, <1>11, <1>12, <1>13, <1>14, <1>15 DEF SotaInv

-----------------------------------------------------------------------------
(***************************************************************************)
(* The update is executed, activated and installed.                        *)
(***************************************************************************)
LEMMA ExecuteStep ==
    ASSUME SotaInv, phase = "run", NEW m, ExecuteUpdate(m)
    PROVE  SotaInv'
  <1>1. /\ UNCHANGED <<g_flag, pack, image, checked, exc, notices, mode, running, ver, resets, seen>>
        /\ rec.state = "DOWNLOADED" /\ rec' = [rec EXCEPT !.state = "UPDATING"]
        /\ flag_write("app", rec')
        /\ net' = net \ {m}
        /\ phase' = "activate"
    BY DEF ExecuteUpdate, packVars
  <1>2. /\ rec' \in Records /\ rec'.state = "UPDATING"
        /\ rec'.num = rec.num /\ rec'.tolen = rec.tolen /\ rec'.ver = rec.ver
    BY <1>1 DEF SotaInv, Typed, Records
  <1>3. /\ page' \in [boot : Flags, app : Records]
        /\ badWrites' \in 0 .. MaxBadWrites /\ astray' \in BOOLEAN
        /\ page'.boot \in {page.boot, "erased"}
        /\ page'.app \in {page.app, rec', ErasedPage.app}
        /\ ~astray' => ~astray /\ page'.boot = page.boot /\ page'.app = rec'
    BY <1>1, <1>2, WritesRecord DEF SotaInv
  <1>4. Typed'
    BY <1>1, <1>2, <1>3 DEF SotaInv, Typed
  <1>5. SessionOK'
    BY <1>1, <1>2, <1>3, Erased DEF SotaInv, SessionOK
  <1>6. HashOK' /\ CheckedWhole'
    BY <1>1, <1>2 DEF SotaInv, HashOK, CheckedWhole, Whole
  <1>7. SeenOK'
    <2>1. /\ Started /\ Started' /\ rec'.state # "DOWNLOADED"
          /\ OneSeen' <=> OneSeen
          /\ Resumes' => Resumes /\ page'.app = page.app
      BY <1>1, <1>2, <1>3, Erased DEF OneSeen, Started, Resumes
    <2> QED BY <1>1, <1>2, <2>1 DEF SotaInv, SeenOK
  <1>8. DownloadOK' /\ InstalledOK'
    BY <1>1, <1>2, <1>3 DEF SotaInv, SessionOK, DownloadOK, InstalledOK, Started, Unstarted
  <1> QED BY <1>4, <1>5, <1>6, <1>7, <1>8 DEF SotaInv

LEMMA ActivateStep ==
    ASSUME SotaInv, active_software
    PROVE  SotaInv'
  <1>1. /\ UNCHANGED <<rec, pack, image, checked, net, exc, notices, mode, running, ver, resets, seen>>
        /\ phase = "activate" /\ g_flag' = "NEED_UPGRADE"
        /\ flag_write("boot", "NEED_UPGRADE")
        /\ phase' = IF badWrites' = badWrites THEN "reboot" ELSE "run"
    BY DEF active_software, packVars, netVars
  <1>2. /\ page' \in [boot : Flags, app : Records]
        /\ badWrites' \in 0 .. MaxBadWrites /\ astray' \in BOOLEAN
        /\ page'.boot \in {page.boot, "NEED_UPGRADE", "erased"}
        /\ page'.app \in {page.app, ErasedPage.app}
        /\ badWrites' # badWrites => page'.boot \in {page.boot, "erased"}
        /\ ~astray' => ~astray /\ page'.boot = "NEED_UPGRADE" /\ page'.app = page.app
    BY <1>1, WritesFlag DEF SotaInv, Flags
  <1>3. Typed'
    BY <1>1, <1>2 DEF SotaInv, Typed, Flags
  <1>4. SessionOK'
    BY <1>1, <1>2, Erased DEF SotaInv, SessionOK
  <1>5. HashOK' /\ CheckedWhole'
    BY <1>1 DEF SotaInv, SessionOK, HashOK, CheckedWhole, Whole
  <1>6. SeenOK'
    BY <1>1, <1>2, Erased DEF SotaInv, SeenOK, OneSeen, Started, Resumes
  <1>7. DownloadOK' /\ InstalledOK'
    BY <1>1, <1>2 DEF SotaInv, SessionOK, DownloadOK, InstalledOK, Started, Unstarted
  <1> QED BY <1>3, <1>4, <1>5, <1>6, <1>7 DEF SotaInv

LEMMA WholeInstalled ==
    ASSUME SotaInv, NEW v \in Versions, Whole(v)
    PROVE  Installed = v
  <1>1. 0 \in 0 .. Blocks - 1
    BY SotaAssumption
  <1>2. \A w \in Versions : Whole(w) => w = v
    BY <1>1 DEF Whole
  <1> QED BY <1>2 DEF Installed

LEMMA ResetStep ==
    ASSUME SotaInv, Reset
    PROVE  SotaInv'
  <1>1. /\ UNCHANGED <<image, checked, net, exc, notices, badWrites, mode, ver, seen>>
        /\ phase # "off" /\ resets < MaxResets /\ resets' = resets + 1
        /\ phase' = "off" /\ rec' = ZeroRecord /\ g_flag' = "IDLE" /\ pack' = NoPack
        /\ astray' = (astray \/ (phase = "report" /\ g_flag = "SUCCEED"))
        /\ IF page.boot = "NEED_UPGRADE"
           THEN \/ running' = Installed /\ page' = [page EXCEPT !.boot = "SUCCEED"]
                \/ page' = [page EXCEPT !.boot = "FAILED"] /\ UNCHANGED running
           ELSE UNCHANGED <<running, page>>
    BY DEF Reset, netVars
  <1>2. /\ page' \in [boot : Flags, app : Records] /\ page'.app = page.app
        /\ page'.boot \in {page.boot, "SUCCEED", "FAILED"} \ {"NEED_UPGRADE"}
        /\ page'.boot # page.boot => page.boot = "NEED_UPGRADE"
    BY <1>1 DEF SotaInv, Typed, Flags
  <1>3. Installed \in Versions \cup {Other}
    BY DEF Installed
  <1>4. Typed'
    BY <1>1, <1>2, <1>3, Erased, SotaAssumption DEF SotaInv, Typed, NoPack, Flags
  <1>5. SessionOK'
    BY <1>1, <1>2, Erased DEF SotaInv, SessionOK
  <1>6. HashOK' /\ CheckedWhole'
    BY <1>1, Erased, SotaAssumption DEF HashOK, CheckedWhole, NoPack
  <1>7. SeenOK'
    BY <1>1, <1>2, Erased DEF SotaInv, SeenOK, OneSeen, Started, Resumes
  <1>8. DownloadOK'
    BY <1>1, <1>2 DEF SotaInv, DownloadOK, Started
  <1>9. InstalledOK'
    <2>1. CASE page.boot = "NEED_UPGRADE" /\ ~astray'
      <3>1. /\ phase = "reboot" /\ rec.state = "UPDATING" /\ page.app = rec /\ rec.num = Blocks
            /\ \A k \in 0 .. Blocks - 1 : k < rec.num => image[k] = rec.ver
            /\ running \in Versions => ver = running
        BY <1>1, <2>1 DEF SotaInv, SessionOK, DownloadOK, InstalledOK, Started, Unstarted
      <3>2. rec.ver \in Versions
        <4>1. rec.num # 0 /\ rec \in Records
          BY <3>1, SotaAssumption DEF SotaInv, Typed
        <4> QED BY <4>1 DEF SotaInv, SessionOK, Records
      <3>3. Whole(rec.ver)
        <4>1. \A k \in 0 .. Blocks - 1 : image[k] = rec.ver
          BY <3>1, SotaAssumption
        <4> QED BY <4>1 DEF Whole, SotaInv, Typed
      <3>4. Installed = rec.ver
        BY <3>2, <3>3, WholeInstalled
      <3> QED BY <1>1, <1>2, <2>1, <3>1, <3>4 DEF InstalledOK, Started, Unstarted, SotaInv, Typed
    <2>2. CASE page.boot # "NEED_UPGRADE" /\ ~astray'
      BY <1>1, <2>2 DEF SotaInv, InstalledOK, Started, Unstarted, Typed
    <2> QED BY <2>1, <2>2 DEF InstalledOK
  <1> QED BY <1>4, <1>5, <1>6, <1>7, <1>8, <1>9 DEF SotaInv

-----------------------------------------------------------------------------
(***************************************************************************)
(* Starting: the flag, the record and the report of the last upgrade.      *)
(***************************************************************************)
LEMMA FlagInitStep ==
    ASSUME SotaInv, flag_upgrade_init
    PROVE  SotaInv'
  <1>1. /\ UNCHANGED <<rec, pack, image, checked, net, exc, notices, mode, running, ver, resets, seen>>
        /\ phase = "off" /\ phase' = "check"
    BY DEF flag_upgrade_init, packVars, netVars
  <1>2. page.app \in Records /\ page.boot \in Flags /\ g_flag \in Flags
    BY DEF SotaInv, Typed
  <1>3. /\ page' \in [boot : Flags, app : Records]
        /\ badWrites' \in 0 .. MaxBadWrites /\ astray' \in BOOLEAN /\ g_flag' \in Flags
        /\ page'.boot \in {page.boot, "IDLE", "erased"}
        /\ page'.app \in {page.app, ErasedPage.app}
        /\ ~astray' => /\ ~astray /\ page'.app = page.app
                       /\ g_flag' = page'.boot
                       /\ page'.boot = page.boot \/ (page.boot = "erased" /\ page'.boot = "IDLE")
    <2>1. CASE page.boot # "erased" /\ g_flag' = page.boot /\ UNCHANGED <<page, badWrites, astray>>
      BY <2>1, <1>2 DEF SotaInv, Typed
    <2>2. CASE page.boot = "erased" /\ g_flag' = "IDLE" /\ flag_write("boot", "IDLE")
      BY <2>2, WritesFlag DEF SotaInv, Flags
    <2>3. CASE /\ badWrites < MaxBadWrites /\ badWrites' = badWrites + 1 /\ astray' = TRUE
               /\ UNCHANGED <<g_flag, page>>
      BY <2>3, <1>2, SotaAssumption DEF SotaInv, Typed
    <2> QED BY <2>1, <2>2, <2>3 DEF flag_upgrade_init, flashVars
  <1>4. Typed'
    BY <1>1, <1>3 DEF SotaInv, Typed
  <1>5. SessionOK' /\ CheckedWhole' /\ HashOK'
    BY <1>1, <1>3, Erased DEF SotaInv, SessionOK, CheckedWhole, HashOK, Whole
  <1>6. ~Started /\ ~Started'
    BY <1>1 DEF Started
  <1>7. SeenOK'
    <2>1. Resumes' => Resumes /\ page'.app = page.app
      BY <1>1, <1>3, Erased DEF Resumes
    <2> QED BY <1>1, <1>6, <2>1 DEF SotaInv, SeenOK, OneSeen
  <1>8. DownloadOK'
    BY <1>1, <1>3, <1>6 DEF SotaInv, DownloadOK
  <1>9. InstalledOK'
    BY <1>1, <1>2, <1>3, <1>6 DEF SotaInv, InstalledOK, Unstarted
  <1> QED BY <1>4, <1>5, <1>7, <1>8, <1>9 DEF SotaInv

LEMMA CheckStep ==
    ASSUME SotaInv, sota_status_check
    PROVE  SotaInv'
  <1>1. /\ UNCHANGED <<g_flag, pack, image, checked, exc, notices, mode, running, ver, resets, seen>>
        /\ phase = "check"
    BY DEF sota_status_check, packVars
  <1>2. pack = NoPack /\ page.app \in Records /\ page.boot \in Flags /\ Net(net)
    BY <1>1 DEF SotaInv, Typed, SessionOK, Net
  <1>3. CASE /\ mode = "BOOT" /\ page.app.state = "DOWNLOADING"
             /\ rec' = page.app /\ phase' = "run"
             /\ sota_request_block(net, page.app.ver, page.app.num)
             /\ UNCHANGED <<page, badWrites, astray>>
    <2>1. Net(net')
      BY <1>2, <1>3, RequestSends DEF SotaInv, SessionOK, Records
    <2>2. Typed'
      BY <1>1, <1>2, <1>3, <2>1 DEF SotaInv, Typed, Net
    <2>3. SessionOK' /\ CheckedWhole'
      BY <1>1, <1>2, <1>3 DEF SotaInv, SessionOK, CheckedWhole
    <2>4. HashOK'
      BY <1>1, <1>2 DEF SotaInv, HashOK
    <2>5. SeenOK'
      BY <1>1, <1>2, <1>3 DEF SotaInv, SeenOK, OneSeen, Started, Resumes
    <2>6. DownloadOK'
      BY <1>1, <1>2, <1>3 DEF SotaInv, DownloadOK, Started, Records
    <2>7. InstalledOK'
      BY <1>1, <1>3 DEF SotaInv, InstalledOK, Started, Unstarted
    <2> QED BY <2>2, <2>3, <2>4, <2>5, <2>6, <2>7 DEF SotaInv
  <1>4. CASE /\ ~(mode = "BOOT" /\ page.app.state = "DOWNLOADING")
             /\ rec' = page.app /\ phase' = "report" /\ flag_write("boot", "IDLE") /\ net' = net
    <2>1. /\ page' \in [boot : Flags, app : Records]
          /\ badWrites' \in 0 .. MaxBadWrites /\ astray' \in BOOLEAN
          /\ page'.boot \in {page.boot, "IDLE", "erased"}
          /\ page'.app \in {page.app, ErasedPage.app}
          /\ ~astray' => ~astray /\ page'.boot = "IDLE" /\ page'.app = page.app
      BY <1>4, WritesFlag DEF SotaInv, Flags
    <2>2. Typed'
      BY <1>1, <1>2, <1>4, <2>1 DEF SotaInv, Typed, Net
    <2>3. SessionOK' /\ CheckedWhole'
      BY <1>1, <1>2, <1>4, <2>1, Erased DEF SotaInv, SessionOK, CheckedWhole
    <2>4. HashOK'
      BY <1>1, <1>2 DEF SotaInv, HashOK
    <2>5. ~Started' /\ ~Resumes'
      BY <1>1, <1>4, <2>1, Erased DEF Started, Resumes
    <2>6. rec'.state # "DOWNLOADED" /\ pack' = NoPack
      BY <1>1, <1>2, <1>4 DEF SotaInv, SessionOK
    <2>7. SeenOK'
      BY <2>5, <2>6 DEF SeenOK
    <2>8. DownloadOK'
      BY <1>1, <1>4, <2>1, <2>5 DEF SotaInv, DownloadOK
    <2>9. InstalledOK'
      BY <1>1, <1>4, <2>1, <2>5 DEF SotaInv, InstalledOK, Unstarted
    <2> QED BY <2>2, <2>3, <2>4, <2>7, <2>8, <2>9 DEF SotaInv
  <1>5. CASE /\ badWrites < MaxBadWrites /\ badWrites' = badWrites + 1 /\ phase' = "failed"
             /\ UNCHANGED <<rec, net, page, astray>>
    <2>1. badWrites' \in 0 .. MaxBadWrites
      BY <1>5, SotaAssumption DEF SotaInv, Typed
    <2>2. ~Started /\ ~Started'
      BY <1>1, <1>5 DEF Started
    <2>3. Typed' /\ SessionOK' /\ HashOK' /\ CheckedWhole'
      BY <1>1, <1>5, <2>1 DEF SotaInv, Typed, SessionOK, HashOK, CheckedWhole, Whole
    <2>4. SeenOK' /\ DownloadOK' /\ InstalledOK'
      BY <1>1, <1>5, <2>2 DEF SotaInv, SeenOK, OneSeen, Resumes, DownloadOK, InstalledOK, Unstarted
    <2> QED BY <2>3, <2>4 DEF SotaInv
  <1> QED BY <1>3, <1>4, <1>5 DEF sota_status_check, flashVars

LEMMA ReportStep ==
    ASSUME SotaInv, ResultReported
    PROVE  SotaInv'
  <1>1. /\ UNCHANGED <<pack, image, checked, net, exc, notices, mode, running, resets>>
        /\ phase = "report" /\ phase' = "run"
        /\ ver' = IF g_flag = "SUCCEED" THEN rec.ver ELSE ver
        /\ rec' = ZeroRecord /\ g_flag' = "IDLE" /\ seen' = {}
        /\ flag_write("app", rec')
    BY DEF ResultReported, packVars, netVars
  <1>2. /\ page' \in [boot : Flags, app : Records]
        /\ badWrites' \in 0 .. MaxBadWrites /\ astray' \in BOOLEAN
        /\ page'.boot \in {page.boot, "erased"}
        /\ page'.app \in {page.app, rec', ErasedPage.app}
        /\ ~astray' => ~astray /\ page'.boot = page.boot /\ page'.app = rec'
    BY <1>1, Erased, WritesRecord DEF SotaInv
  <1>3. Typed'
    BY <1>1, <1>2, Erased DEF SotaInv, Typed, Records, Flags
  <1>4. ErasedPage.app.ver = None
    BY DEF ErasedPage, Record
  <1>5. SessionOK' /\ CheckedWhole'
    BY <1>1, <1>2, Erased DEF SotaInv, SessionOK, CheckedWhole
  <1>6. HashOK'
    BY <1>1, Erased DEF SotaInv, HashOK
  <1>7. SeenOK'
    <2>1. ~Resumes'
      BY <1>1, <1>2, Erased DEF SotaInv, SeenOK, Resumes
    <2> QED BY <1>1, <2>1, Erased, Distinct DEF SeenOK
  <1>8. DownloadOK' /\ InstalledOK'
    <2>1. DownloadOK'
      BY <1>1, <1>2, <1>3, Erased DEF DownloadOK, Started
    <2>2. InstalledOK'
      BY <1>1, <1>2, Erased DEF SotaInv, InstalledOK, Started, Unstarted
    <2> QED BY <2>1, <2>2
  <1> QED BY <1>3, <1>5, <1>6, <1>7, <1>8 DEF SotaInv

-----------------------------------------------------------------------------
LEMMA SotaStep ==
    ASSUME SotaInv, SotaNext
    PROVE  SotaInv'
  <1>1. CASE flag_upgrade_init \/ sota_status_check
    BY <1>1, FlagInitStep, CheckStep
  <1>2. CASE ResultReported
    BY <1>2, ReportStep
  <1>3. CASE Reset
    BY <1>3, ResetStep
  <1>4. CASE \E m \in net : sota_process_main(m)
    <2>1. PICK m \in net : sota_process_main(m)
      BY <1>4
    <2>2. phase = "run"
      BY <2>1 DEF sota_process_main
    <2>3. CASE ProcessIdle(m)
      BY <2>2, <2>3, IdleStep
    <2>4. CASE DownloadWrong(m)
      BY <2>2, <2>4, TurnsIdle
    <2>5. CASE WriteFails(m)
      BY <2>2, <2>5, WriteFailsStep
    <2>6. CASE BlockWritten(m)
      BY <2>2, <2>6, BlockWrittenStep
    <2>7. CASE ExecuteUpdate(m)
      BY <2>2, <2>7, ExecuteStep
    <2>8. CASE ProcessIgnored(m)
      BY <2>8, IgnoredStep
    <2> QED BY <2>1, <2>3, <2>4, <2>5, <2>6, <2>7, <2>8 DEF sota_process_main
  <1>5. CASE active_software
    BY <1>5, ActivateStep
  <1>6. CASE sota_timeout_handler
    BY <1>6, TurnsIdle DEF sota_timeout_handler
  <1>7. CASE Platform \/ Lose
    BY <1>7, PlatformStep
  <1> QED BY <1>1, <1>2, <1>3, <1>4, <1>5, <1>6, <1>7 DEF SotaNext

LEMMA SotaStutters ==
    ASSUME SotaInv, UNCHANGED sotaVars
    PROVE  SotaInv'
  <1>1. UNCHANGED <<phase, rec, g_flag, pack, image, checked, net, exc, notices, page, badWrites, mode,
                    running, ver, resets, astray, seen>>
    BY DEF sotaVars, packVars, netVars, flashVars, deviceVars
  <1> QED BY <1>1 DEF SotaInv, Typed, SessionOK, HashOK, CheckedWhole, Whole, SeenOK, OneSeen,
                      DownloadOK, InstalledOK, Started, Unstarted, Resumes

(***************************************************************************)
(* The record in memory, the record in flash, the upgrade flag and what    *)
(* was hashed fit what the package flash holds after every step of         *)
(* sota_process_main, at every reset and after every failing write.        *)
(***************************************************************************)
THEOREM SotaInvariant == SotaSpec => []SotaInv
  <1>1. SotaInit => SotaInv
    BY SotaInitInv
  <1>2. SotaInv /\ [SotaNext]_sotaVars => SotaInv'
    BY SotaStep, SotaStutters
  <1> QED BY <1>1, <1>2, PTL DEF SotaSpec

(***************************************************************************)
(* SotaTypeOK: types, the hash of a session is as long as the blocks that  *)
(* were counted, and a finished download leaves neither head nor hash to   *)
(* the next one.                                                           *)
(***************************************************************************)
THEOREM SotaTypes == SotaSpec => []SotaTypeOK
  <1>1. SotaInv => SotaTypeOK
    <2> SUFFICES ASSUME SotaInv PROVE SotaTypeOK
      OBVIOUS
    <2>1. rec.state = "DOWNLOADED" => pack = NoPack
      BY DEF SotaInv, SessionOK
    <2>2. rec.num > 0 /\ pack # NoPack => Len(pack.sum) = rec.num
      BY DEF SotaInv, HashOK
    <2>3. /\ rec.state \in {"IDLE", "DOWNLOADING", "DOWNLOADED", "UPDATING", "erased"}
          /\ rec.num \in 0 .. Blocks /\ rec.tolen \in Nat /\ rec.ver \in Versions \cup {None}
          /\ {g_flag, page.boot} \subseteq {"IDLE", "NEED_UPGRADE", "SUCCEED", "FAILED", "erased"}
          /\ pack.head \in Versions \cup {None} /\ pack.sum \in Seq(Versions)
      BY DEF SotaInv, Typed, Records, Flags
    <2> QED BY <2>1, <2>2, <2>3 DEF SotaInv, Typed, SotaTypeOK
  <1> QED BY <1>1, SotaInvariant, PTL

(***************************************************************************)
(* The flag tells the bootloader to install only a package that is one     *)
(* version in all its blocks, if write_software_end accepted it: late      *)
(* blocks of an earlier download change the hash with what they overwrite. *)
(***************************************************************************)
THEOREM UpgradesAreVerified == SotaSpec => []InstallsVerified
  <1>1. SotaInv => InstallsVerified
    BY DEF SotaInv, SessionOK, CheckedWhole, InstallsVerified
  <1> QED BY <1>1, SotaInvariant, PTL

(***************************************************************************)
(* A started device that runs a version as a whole reports that version:   *)
(* the version of the record in flash is carried through the reset, the    *)
(* bootloader and sota_status_check, or no record and no version changes.  *)
(***************************************************************************)
THEOREM ReportedIsRunning == SotaSpec => []ReportsWhatRuns
  <1>1. SotaInv => ReportsWhatRuns
    BY DEF SotaInv, InstalledOK, Started, ReportsWhatRuns
  <1> QED BY <1>1, SotaInvariant, PTL

(***************************************************************************)
(* A package of which all blocks came is refused only when blocks or a     *)
(* notification of another version came during its download, however often *)
(* it was interrupted and resumed.                                         *)
(***************************************************************************)
THEOREM RefusalsExplained == SotaSpec => []RefusedOnlyAfterAnother
  <1>1. SotaInv => RefusedOnlyAfterAnother
    <2> SUFFICES ASSUME SotaInv, rec.state = "DOWNLOADED", ~checked
                 PROVE  Cardinality(seen) > 1
      BY DEF RefusedOnlyAfterAnother
    <2>1. PICK v \in seen, w \in seen : v # w
      BY DEF SotaInv, SeenOK, OneSeen
    <2>2. IsFiniteSet(seen)
      BY SotaAssumption, FS_Subset DEF SotaInv, Typed
    <2>3. Cardinality({v, w}) = 2 /\ IsFiniteSet({v, w})
      <3>1. IsFiniteSet({v}) /\ Cardinality({v}) = 1
        BY FS_Singleton
      <3>2. {v, w} = {v} \cup {w} /\ w \notin {v}
        BY <2>1
      <3> QED BY <3>1, <3>2, FS_AddElement
    <2>4. Cardinality({v, w}) <= Cardinality(seen)
      BY <2>1, <2>2, FS_Subset
    <2>5. Cardinality(seen) \in Nat
      BY <2>2, FS_CardinalityType
    <2> QED BY <2>3, <2>4, <2>5
  <1> QED BY <1>1, SotaInvariant, PTL

-----------------------------------------------------------------------------
(***************************************************************************)
(* Reports of the LwM2M agent: that every report taken is in one place or  *)
(* over, once, and that a pending registration has a transaction to end it;*)
(* for any number of reports, updates under way, failures, retransmissions *)
(* and any length of the report lists.                                     *)
(*                                                                         *)
(* A report moves from the list to a transaction to the application.  Each *)
(* step is shown to take it out of one place and to put it in another; what*)
(* makes that true is that no two transactions carry the same report, and  *)
(* that the watcher remembers a report only while the observation exists.  *)
(***************************************************************************)

One(b) == IF b THEN 1 ELSE 0

Listed(r) == Contains(nodes, r)
Carried(r) == \E t \in transactions : t.mid = <<"notify", r>>

(***************************************************************************)
(* ReportsConserved without cardinalities.                                 *)
(***************************************************************************)
OnePlace ==
    \A r \in Reports :
        One(Listed(r)) + One(Carried(r)) + told[r] + One(r \in dropped) = One(r <= accepted)

OneCarrier ==
    \A t, u \in transactions : Kind(t) = "notify" /\ t.mid = u.mid => t = u

Transactions == [mid : Mids, retrans : 2 .. COAP_MAX_RETRANSMIT + 2,
                 acked : BOOLEAN, live : BOOLEAN]

AgentOK ==
    /\ pc \in {"reconnect", "state", "observe", "registration", "transactions"}
    /\ state \in {"STATE_INITIAL", "STATE_DELAY", "STATE_REGISTER_REQUIRED",
                  "STATE_REGISTERING", "STATE_READY"}
    /\ status \in Registered \cup {"STATE_DEREGISTERED", "STATE_REG_PENDING", "STATE_REG_FAILED"}
    /\ session \in BOOLEAN /\ reconnect_flag \in BOOLEAN
    /\ faults \in 0 .. MaxFaults

SendOK ==
    /\ transactions \subseteq Transactions /\ IsFiniteSet(transactions)
    /\ sent \subseteq Mids

ObserveOK ==
    /\ observed \in Seq(URIs) /\ NoRepeat(observed)
    /\ \A u \in active : Contains(observed, u)
    /\ lastReport \in Reports \cup {0}
    /\ lastReport # 0 => Contains(observed, "app")

ListOK ==
    /\ max_cnt \in {0, STORING_CNT, MAX_BUFFER_REPORT_CNT}
    /\ nodes \in Seq(Reports) /\ NoRepeat(nodes) /\ Len(nodes) <= max_cnt
    /\ accepted \in 0 .. MaxReports

PlaceOK ==
    /\ told \in [Reports -> Nat] /\ dropped \subseteq Reports
    /\ OneCarrier
    /\ OnePlace

ReportInv == AgentOK /\ SendOK /\ ObserveOK /\ ListOK /\ PlaceOK /\ PendingIsAwaited

-----------------------------------------------------------------------------
(***************************************************************************)
(* Sequences and message IDs.                                              *)
(***************************************************************************)
LEMMA SetOfSeq ==
    ASSUME NEW S, NEW s \in Seq(S)
    PROVE  /\ \A x : x \in ToSet(s) <=> Contains(s, x)
           /\ IsInjective(s) <=> NoRepeat(s)
           /\ \A i \in 1 .. Len(s) : s[i] \in S /\ Contains(s, s[i])
  <1>1. DOMAIN s = 1 .. Len(s) /\ \A i \in 1 .. Len(s) : s[i] \in S
    OBVIOUS
  <1> QED BY <1>1 DEF ToSet, Contains, IsInjective, NoRepeat

LEMMA EmptyFacts ==
    ASSUME NEW S
    PROVE  <<>> \in Seq(S) /\ NoRepeat(<<>>) /\ Len(<<>>) = 0 /\ \A x : ~Contains(<<>>, x)
  BY DEF NoRepeat, Contains

LEMMA AppendFacts ==
    ASSUME NEW S, NEW s \in Seq(S), NoRepeat(s), NEW x \in S, ~Contains(s, x)
    PROVE  /\ Append(s, x) \in Seq(S) /\ NoRepeat(Append(s, x))
           /\ \A y : Contains(Append(s, x), y) <=> Contains(s, y) \/ y = x
  <1> DEFINE r == Append(s, x)
  <1>1. /\ r \in Seq(S) /\ Len(r) = Len(s) + 1 /\ Len(s) \in Nat
        /\ \A i \in 1 .. Len(r) : r[i] = IF i <= Len(s) THEN s[i] ELSE x
    OBVIOUS
  <1> HIDE DEF r
  <1>2. NoRepeat(r)
    BY <1>1 DEF NoRepeat, Contains
  <1>3. ASSUME NEW y PROVE Contains(r, y) <=> Contains(s, y) \/ y = x
    BY <1>1 DEF Contains
  <1> QED BY <1>1, <1>2, <1>3 DEF r

LEMMA RemoveFacts ==
    ASSUME NEW S, NEW s \in Seq(S), NoRepeat(s), NEW k \in 1 .. Len(s)
    PROVE  /\ RemoveAt(s, k) \in Seq(S) /\ NoRepeat(RemoveAt(s, k))
           /\ \A y : Contains(RemoveAt(s, k), y) <=> Contains(s, y) /\ y # s[k]
  <1>1. Contains(s, s[k])
    BY DEF Contains
  <1>2. (CHOOSE i \in 1 .. Len(s) : s[i] = s[k]) = k
    BY DEF NoRepeat
  <1>3. Without(s, s[k]) = RemoveAt(s, k)
    BY <1>1, <1>2 DEF Without
  <1> QED BY <1>3, WithoutFacts

LEMMA MidFacts ==
    /\ <<"register", 0>> \in Mids
    /\ \A i \in 1 .. MaxUpdates : <<"update", i>> \in Mids
    /\ \A r \in Reports : <<"notify", r>> \in Mids
    /\ \A m \in Mids : /\ m[1] \in {"register", "update", "notify"}
                       /\ m[1] = "notify" => m[2] \in Reports /\ m = <<"notify", m[2]>>
                       /\ m[1] = "update" => m[2] \in 1 .. MaxUpdates
  BY DEF Mids

(***************************************************************************)
(* An update is given a number that no update under way has.               *)
(***************************************************************************)
LEMMA FreshUpdate ==
    ASSUME SendOK, Cardinality(Updates) < MaxUpdates
    PROVE  Min({i \in 1 .. MaxUpdates : \A t \in Updates : t.mid[2] # i}) \in 1 .. MaxUpdates
  <1> DEFINE free == {i \in 1 .. MaxUpdates : \A t \in Updates : t.mid[2] # i}
             taken == {t.mid[2] : t \in Updates}
  <1>1. MaxUpdates \in Nat
    BY ReportAssumption
  <1>2. IsFiniteSet(Updates) /\ Cardinality(Updates) \in Nat
    BY FS_Subset, FS_CardinalityType DEF SendOK, Updates
  <1>3. IsFiniteSet(taken) /\ Cardinality(taken) <= Cardinality(Updates)
    <2> DEFINE f == [t \in Updates |-> t.mid[2]]
    <2>1. f \in Surjection(Updates, taken)
      BY DEF Surjection
    <2> QED BY <1>2, <2>1, FS_Surjection
  <1>4. Cardinality(1 .. MaxUpdates) = MaxUpdates /\ IsFiniteSet(1 .. MaxUpdates)
    BY <1>1, FS_Interval
  <1>5. free # {}
    <2> SUFFICES ASSUME free = {} PROVE FALSE
      OBVIOUS
    <2>1. 1 .. MaxUpdates \subseteq taken
      OBVIOUS
    <2>2. Cardinality(1 .. MaxUpdates) <= Cardinality(taken)
      BY <2>1, <1>3, FS_Subset
    <2>3. Cardinality(taken) \in Nat
      BY <1>3, FS_CardinalityType
    <2> QED BY <2>2, <2>3, <1>1, <1>2, <1>3, <1>4
  <1>6. free \in SUBSET Nat
    BY <1>1
  <1>7. PICK p \in free : \A r \in free : p <= r
    <2> DEFINE R == OpToRel(<, Nat)
    <2>1. IsWellFoundedOn(R, Nat)
      BY NatLessThanWellFounded
    <2>2. \A x, y \in Nat : y < x => <<y, x>> \in R
      BY DEF OpToRel
    <2> HIDE DEF R
    <2> HIDE DEF free
    <2>3. PICK p \in free : \A y \in free : ~(<<y, p>> \in R)
      BY <1>5, <1>6, <2>1, WFMin
    <2>4. ASSUME NEW r \in free PROVE p <= r
      <3>1. p \in Nat /\ r \in Nat /\ ~(r < p)
        BY <1>6, <2>2, <2>3
      <3> QED BY <3>1
    <2> QED BY <2>4
  <1> HIDE DEF free
  <1>8. Min(free) \in free
    BY <1>7 DEF Min
  <1> QED BY <1>8 DEF free

-----------------------------------------------------------------------------
LEMMA ReportInitInv == ReportInit => ReportInv
  <1> SUFFICES ASSUME ReportInit PROVE ReportInv
    OBVIOUS
  <1>1. AgentOK
    <2>1. faults \in 0 .. MaxFaults
      BY ReportAssumption DEF ReportInit
    <2> QED BY <2>1 DEF ReportInit, AgentOK
  <1>2. SendOK
    BY FS_EmptySet DEF ReportInit, SendOK
  <1>3. ObserveOK
    BY EmptyFacts DEF ReportInit, ObserveOK
  <1>4. ListOK
    <2>1. STORING_CNT \in Nat /\ MaxReports \in Nat
      BY ReportAssumption
    <2> QED BY <2>1, EmptyFacts DEF ReportInit, ListOK
  <1>5. PlaceOK
    <2>1. \A r \in Reports : ~(r <= 0)
      BY ReportAssumption DEF Reports
    <2> QED BY <2>1, EmptyFacts DEF ReportInit, PlaceOK, OneCarrier, OnePlace, Listed, Carried, One
  <1>6. PendingIsAwaited
    BY DEF ReportInit, PendingIsAwaited
  <1> QED BY <1>1, <1>2, <1>3, <1>4, <1>5, <1>6 DEF ReportInv

-----------------------------------------------------------------------------
(***************************************************************************)
(* The handlers' helpers.                                                  *)
(***************************************************************************)
LEMMA FaultFacts ==
    ASSUME AgentOK, Fault
    PROVE  faults' \in 0 .. MaxFaults
  BY ReportAssumption DEF AgentOK, Fault

LEMMA TransmitFacts ==
    ASSUME AgentOK, SendOK, NEW mid \in Mids, Transmit(mid)
    PROVE  /\ sent' \subseteq Mids
           /\ reconnect_flag' \in BOOLEAN /\ faults' \in 0 .. MaxFaults
  BY FaultFacts DEF AgentOK, SendOK, Transmit

(***************************************************************************)
(* A transaction more, for mid.                                            *)
(***************************************************************************)
LEMMA StartFacts ==
    ASSUME AgentOK, SendOK, NEW mid \in Mids, Start(mid)
    PROVE  /\ SendOK'
           /\ reconnect_flag' \in BOOLEAN /\ faults' \in 0 .. MaxFaults
           /\ \E n : n \in transactions' /\ n.mid = mid /\ transactions' = transactions \cup {n}
  <1> DEFINE n == [mid |-> mid, retrans |-> 2, acked |-> FALSE, live |-> TRUE]
  <1>1. transactions' = transactions \cup {n} /\ n.mid = mid
    BY DEF Start
  <1>2. 2 \in 2 .. COAP_MAX_RETRANSMIT + 2
    BY ReportAssumption
  <1>3. n \in Transactions
    BY <1>2 DEF Transactions
  <1>4. IsFiniteSet(transactions')
    BY <1>1, FS_AddElement DEF SendOK
  <1>5. SendOK'
    BY <1>1, <1>3, <1>4, TransmitFacts DEF SendOK, Start
  <1> HIDE DEF n
  <1> QED BY <1>1, <1>5, TransmitFacts DEF Start

(***************************************************************************)
(* Reports leave the list when something is unsubscribed, each told once.  *)
(***************************************************************************)
LEMMA UnsubscribedFacts ==
    ASSUME ListOK, NEW S
    PROVE  /\ NodesWithout(S) \in Seq(Reports) /\ NoRepeat(NodesWithout(S))
           /\ Len(NodesWithout(S)) <= Len(nodes)
           /\ \A r : One(Contains(NodesWithout(S), r)) + One(r \in Unsubscribed(S)) = One(Listed(r))
  <1>1. Len(nodes) \in Nat
    BY DEF ListOK
  <1>2. CASE "app" \in S
    <2>1. NodesWithout(S) = <<>> /\ Unsubscribed(S) = ToSet(nodes)
      BY <1>2 DEF NodesWithout, Unsubscribed
    <2>2. \A r : r \in ToSet(nodes) <=> Listed(r)
      BY SetOfSeq DEF ListOK, Listed
    <2> QED BY <1>1, <2>1, <2>2, EmptyFacts DEF One
  <1>3. CASE "app" \notin S
    <2>1. NodesWithout(S) = nodes /\ Unsubscribed(S) = {}
      BY <1>3 DEF NodesWithout, Unsubscribed
    <2> QED BY <1>1, <2>1 DEF One, Listed, ListOK
  <1> QED BY <1>2, <1>3

LEMMA ToldFacts ==
    ASSUME PlaceOK, NEW S, NEW T
    PROVE  /\ Told(S, T) \in [Reports -> Nat]
           /\ \A r \in Reports : Told(S, T)[r] = told[r] + One(r \in S) + One(r \in T)
  BY DEF PlaceOK, Told, One

(***************************************************************************)
(* observe_cancel: one observation less, and what hangs on it.             *)
(***************************************************************************)
LEMMA CancelFacts ==
    ASSUME ObserveOK, NEW i \in 1 .. Len(observed), observe_cancel(i)
    PROVE  /\ ObserveOK'
           /\ nodes' = NodesWithout({observed[i]})
  <1>1. /\ observed' \in Seq(URIs) /\ NoRepeat(observed')
        /\ \A y : Contains(observed', y) <=> Contains(observed, y) /\ y # observed[i]
    BY RemoveFacts DEF ObserveOK, observe_cancel
  <1> QED BY <1>1 DEF ObserveOK, observe_cancel

LEMMA PlaceFacts ==
    ASSUME ObserveOK, NEW u, Contains(observed, u)
    PROVE  Place(u) \in 1 .. Len(observed) /\ observed[Place(u)] = u
  <1>1. DOMAIN observed = 1 .. Len(observed)
    BY DEF ObserveOK
  <1> QED BY <1>1 DEF Place, Contains

(***************************************************************************)
(* The report of a notification the watcher remembers: /19/0 is observed.  *)
(***************************************************************************)
LEMMA RememberedIsObserved ==
    ASSUME SendOK, ObserveOK, <<"notify", lastReport>> \in sent
    PROVE  Contains(observed, "app")
  <1>1. <<"notify", lastReport>>[2] \in Reports
    BY MidFacts DEF SendOK
  <1>2. lastReport # 0
    BY <1>1 DEF Reports
  <1> QED BY <1>2 DEF ObserveOK

-----------------------------------------------------------------------------
(***************************************************************************)
(* The state machines of the agent stay among their states.                *)
(***************************************************************************)
LEMMA AgentStep ==
    ASSUME ReportInv, ReportNext
    PROVE  AgentOK'
  <1>0. AgentOK /\ SendOK
    BY DEF ReportInv
  <1>1. ASSUME Fault PROVE faults' \in 0 .. MaxFaults
    BY <1>0, <1>1, FaultFacts
  <1>2. ASSUME NEW mid \in Mids, Transmit(mid)
        PROVE  reconnect_flag' \in BOOLEAN /\ faults' \in 0 .. MaxFaults
    BY <1>0, <1>2, TransmitFacts
  <1>3. ASSUME NEW t, NEW ok, Callback(t, ok)
        PROVE  status' \in Registered \cup {"STATE_DEREGISTERED", "STATE_REG_PENDING", "STATE_REG_FAILED"}
    BY <1>0, <1>3 DEF AgentOK, Callback, Registered
  <1>4. CASE lwm2m_reconnect \/ NoReconnect
    BY <1>0, <1>4 DEF AgentOK, lwm2m_reconnect, NoReconnect, agentVars, observeVars, listVars, history
  <1>5. CASE StepState \/ DelayExpires
    BY <1>0, <1>5 DEF AgentOK, StepState, DelayExpires, NextStep, LeaveSwitch
  <1>6. CASE prv_register
    BY <1>0, <1>2, <1>6, MidFacts DEF AgentOK, prv_register, Start
  <1>7. CASE RegisterFails
    BY <1>0, <1>1, <1>7 DEF AgentOK, RegisterFails
  <1>8. CASE SendReport \/ SendUnconfirmed
    <2>1. <<"notify", Head(nodes)>> \in Mids
      <3>1. Head(nodes) \in Reports
        BY <1>8 DEF ReportInv, ListOK, SendReport, SendUnconfirmed, TakeReport
      <3> QED BY <3>1, MidFacts
    <2>2. reconnect_flag' \in BOOLEAN /\ faults' \in 0 .. MaxFaults
      BY <1>2, <1>8, <2>1 DEF SendReport, SendUnconfirmed, Start
    <2> QED BY <1>0, <1>8, <2>2 DEF AgentOK, SendReport, SendUnconfirmed, TakeReport
  <1>9. CASE LoseReport
    BY <1>0, <1>1, <1>9 DEF AgentOK, LoseReport, TakeReport
  <1>10. CASE ObserveEnds
    BY <1>0, <1>10 DEF AgentOK, ObserveEnds, agentVars
  <1>11. CASE prv_updateRegistration
    <2>1. reconnect_flag' \in BOOLEAN /\ faults' \in 0 .. MaxFaults
      BY <1>0, <1>2, <1>11, MidFacts, FreshUpdate DEF prv_updateRegistration, Start
    <2> QED BY <1>0, <1>11, <2>1 DEF AgentOK, prv_updateRegistration, Registered
  <1>12. CASE RegistrationFailed
    BY <1>0, <1>12 DEF AgentOK, RegistrationFailed
  <1>13. CASE NoUpdate
    BY <1>0, <1>1, <1>13 DEF AgentOK, NoUpdate, agentVars
  <1>14. ASSUME NEW t \in transactions, transaction_send(t)
         PROVE  AgentOK'
    <2>1. CASE Retransmit(t)
      <3>1. t.mid \in Mids
        BY <1>0 DEF SendOK, Transactions
      <3>2. reconnect_flag' \in BOOLEAN /\ faults' \in 0 .. MaxFaults
        BY <1>0, <1>2, <2>1, <3>1 DEF Retransmit, AgentOK
      <3> QED BY <1>0, <1>14, <2>1, <3>2 DEF AgentOK, transaction_send, Retransmit
    <2>2. CASE GivesUp(t)
      BY <1>0, <1>3, <1>14, <2>2 DEF AgentOK, transaction_send, GivesUp, Finish
    <2> QED BY <1>14, <2>1, <2>2 DEF transaction_send
  <1>15. CASE NoPacket \/ ReceiveFails
    BY <1>0, <1>1, <1>15 DEF AgentOK, NoPacket, ReceiveFails, Polls, history
  <1>16. ASSUME NEW t \in transactions, ReceiveAck(t)
         PROVE  AgentOK'
    BY <1>0, <1>3, <1>16 DEF AgentOK, ReceiveAck, Acknowledged, Finish, Polls
  <1>17. ASSUME NEW t \in transactions, NEW ok \in BOOLEAN, ReceiveResponse(t, ok)
         PROVE  AgentOK'
    BY <1>0, <1>3, <1>17 DEF AgentOK, ReceiveResponse, Finish, Polls
  <1>18. ASSUME NEW mid \in sent, ReceiveReset(mid)
         PROVE  AgentOK'
    <2>1. status' \in {status, "STATE_REG_FAILED"}
      BY <1>18 DEF ReceiveReset
    <2> QED BY <1>0, <1>18, <2>1 DEF AgentOK, ReceiveReset, Polls
  <1>19. CASE ResetOfPlain \/ \E u \in URIs : Observe(u) \/ WriteAttributes(u)
    BY <1>0, <1>19 DEF AgentOK, ResetOfPlain, Observe, WriteAttributes, Requests, Polls, history
  <1>20. CASE Cancel \/ DeleteInstance \/ CreateInstance
    BY <1>0, <1>20 DEF AgentOK, Cancel, DeleteInstance, CreateInstance, Requests, Polls,
                       lwm2m_update_registration, history, Registered
  <1>21. CASE atiny_data_report
    BY <1>0, <1>21 DEF AgentOK, atiny_data_report, agentVars
  <1>22. CASE atiny_reconnect
    BY <1>0, <1>1, <1>22 DEF AgentOK, atiny_reconnect
  <1> QED
    BY <1>4, <1>5, <1>6, <1>7, <1>8, <1>9, <1>10, <1>11, <1>12, <1>13, <1>14, <1>15, <1>16,
       <1>17, <1>18, <1>19, <1>20, <1>21, <1>22 DEF ReportNext, Agent

-----------------------------------------------------------------------------
(***************************************************************************)
(* Steps that change no transaction, observation, list or place.           *)
(***************************************************************************)
SendsNothing ==
    \/ StepState \/ DelayExpires \/ RegisterFails \/ ObserveEnds \/ NoUpdate \/ LoseReport
    \/ NoPacket \/ ReceiveFails \/ ResetOfPlain \/ Cancel \/ DeleteInstance \/ CreateInstance
    \/ (\E u \in URIs : Observe(u) \/ WriteAttributes(u))
    \/ atiny_data_report \/ atiny_reconnect

LEMMA SendsNothingFacts == SendsNothing => UNCHANGED sendVars
  BY DEF SendsNothing, StepState, DelayExpires, NextStep, LeaveSwitch, RegisterFails, ObserveEnds,
         NoUpdate, LoseReport, NoPacket, ReceiveFails, ResetOfPlain, Cancel, DeleteInstance,
         CreateInstance, Observe, WriteAttributes, atiny_data_report, atiny_reconnect, sendVars

LEMMA SendStep ==
    ASSUME ReportInv, ReportNext
    PROVE  SendOK'
  <1>0. AgentOK /\ SendOK
    BY DEF ReportInv
  <1>1. ASSUME NEW t \in transactions, transactions' = transactions \ {t}, UNCHANGED sent
        PROVE  SendOK'
    BY <1>0, <1>1, FS_RemoveElement DEF SendOK
  <1>2. ASSUME NEW t \in transactions, NEW u \in Transactions, UNCHANGED sent \/ sent' \subseteq Mids,
               transactions' = (transactions \ {t}) \cup {u}
        PROVE  SendOK'
    <2>1. IsFiniteSet(transactions')
      BY <1>0, <1>2, FS_RemoveElement, FS_AddElement DEF SendOK
    <2> QED BY <1>0, <1>2, <2>1 DEF SendOK
  <1>3. CASE SendsNothing
    BY <1>0, <1>3, SendsNothingFacts DEF SendOK, sendVars
  <1>4. CASE lwm2m_reconnect \/ NoReconnect
    BY <1>0, <1>4, FS_EmptySet DEF SendOK, lwm2m_reconnect, NoReconnect
  <1>5. CASE prv_register
    BY <1>0, <1>5, MidFacts, StartFacts DEF prv_register
  <1>6. CASE SendReport
    <2>1. Head(nodes) \in Reports
      BY <1>6 DEF ReportInv, ListOK, SendReport, TakeReport
    <2> QED BY <1>0, <1>6, <2>1, MidFacts, StartFacts DEF SendReport
  <1>13. CASE SendUnconfirmed
    <2>1. Head(nodes) \in Reports
      BY <1>13 DEF ReportInv, ListOK, SendUnconfirmed, TakeReport
    <2> QED BY <1>0, <1>13, <2>1, MidFacts, TransmitFacts DEF SendOK, SendUnconfirmed
  <1>7. CASE prv_updateRegistration
    BY <1>0, <1>7, MidFacts, FreshUpdate, StartFacts DEF prv_updateRegistration
  <1>8. CASE RegistrationFailed
    <2> DEFINE f == [t \in transactions |-> [t EXCEPT !.live = FALSE]]
    <2>1. transactions' = {[t EXCEPT !.live = FALSE] : t \in transactions} /\ sent' = {}
      BY <1>8 DEF RegistrationFailed
    <2>2. f \in Surjection(transactions, transactions')
      BY <2>1 DEF Surjection
    <2>3. IsFiniteSet(transactions')
      BY <1>0, <2>2, FS_Surjection DEF SendOK
    <2>4. transactions' \subseteq Transactions
      BY <1>0, <2>1 DEF SendOK, Transactions
    <2> QED BY <2>1, <2>3, <2>4 DEF SendOK
  <1>9. ASSUME NEW t \in transactions, transaction_send(t)
        PROVE  SendOK'
    <2>1. t \in Transactions /\ t.mid \in Mids
      BY <1>0 DEF SendOK, Transactions
    <2>2. CASE Retransmit(t)
      <3>1. [t EXCEPT !.retrans = @ + 1] \in Transactions
        <4>1. t.retrans \in 2 .. COAP_MAX_RETRANSMIT + 2 /\ ~(t.retrans > COAP_MAX_RETRANSMIT + 1)
          BY <2>1, <2>2 DEF Retransmit, Exhausted, Transactions
        <4>2. t.retrans + 1 \in 2 .. COAP_MAX_RETRANSMIT + 2
          BY <4>1, ReportAssumption
        <4> QED BY <2>1, <4>2 DEF Transactions
      <3>2. UNCHANGED sent \/ sent' \subseteq Mids
        BY <1>0, <2>1, <2>2, TransmitFacts DEF Retransmit
      <3> QED BY <1>2, <2>2, <3>1, <3>2 DEF Retransmit
    <2>3. CASE GivesUp(t)
      BY <1>1, <2>3 DEF GivesUp, Finish
    <2> QED BY <1>9, <2>2, <2>3 DEF transaction_send
  <1>10. ASSUME NEW t \in transactions, ReceiveAck(t)
         PROVE  SendOK'
    <2>1. CASE Kind(t) = "notify"
      BY <1>1, <1>10, <2>1 DEF ReceiveAck, Acknowledged, Finish
    <2>2. CASE Kind(t) # "notify"
      <3>1. [t EXCEPT !.acked = TRUE] \in Transactions
        BY <1>0 DEF SendOK, Transactions
      <3> QED BY <1>2, <1>10, <2>2, <3>1 DEF ReceiveAck, Acknowledged
    <2> QED BY <2>1, <2>2
  <1>11. ASSUME NEW t \in transactions, NEW ok \in BOOLEAN, ReceiveResponse(t, ok)
         PROVE  SendOK'
    BY <1>1, <1>11 DEF ReceiveResponse, Finish
  <1>12. ASSUME NEW mid \in sent, ReceiveReset(mid)
         PROVE  SendOK'
    <2>1. transactions' \subseteq transactions /\ UNCHANGED sent
      BY <1>12 DEF ReceiveReset
    <2>2. IsFiniteSet(transactions')
      BY <1>0, <2>1, FS_Subset DEF SendOK
    <2> QED BY <1>0, <2>1, <2>2 DEF SendOK
  <1> QED
    BY <1>3, <1>4, <1>5, <1>6, <1>7, <1>8, <1>9, <1>10, <1>11, <1>12, <1>13
    DEF ReportNext, Agent, SendsNothing

-----------------------------------------------------------------------------
(***************************************************************************)
(* Observations, and the report list's length.                             *)
(***************************************************************************)
ObservesNothing ==
    \/ NoReconnect \/ StepState \/ DelayExpires \/ prv_register \/ RegisterFails \/ ObserveEnds
    \/ prv_updateRegistration \/ RegistrationFailed \/ NoUpdate
    \/ (\E t \in transactions : transaction_send(t))
    \/ NoPacket \/ ReceiveFails
    \/ (\E t \in transactions : ReceiveAck(t))
    \/ (\E t \in transactions, ok \in BOOLEAN : ReceiveResponse(t, ok))
    \/ CreateInstance \/ atiny_data_report \/ atiny_reconnect

LEMMA ObservesNothingFacts == ObservesNothing => UNCHANGED observeVars
  BY DEF ObservesNothing, NoReconnect, StepState, DelayExpires, NextStep, LeaveSwitch, prv_register,
         RegisterFails, ObserveEnds, prv_updateRegistration, RegistrationFailed, NoUpdate,
         transaction_send, NoPacket, ReceiveFails, ReceiveAck, ReceiveResponse, CreateInstance,
         atiny_data_report, atiny_reconnect, observeVars

LEMMA ObserveStep ==
    ASSUME ReportInv, ReportNext
    PROVE  ObserveOK'
  <1>0. SendOK /\ ObserveOK /\ ListOK
    BY DEF ReportInv
  <1>1. \A u : u \in ToSet(observed) <=> Contains(observed, u)
    BY <1>0, SetOfSeq DEF ObserveOK
  <1>2. ASSUME NEW u \in URIs, observed' = WithWatcher(u), active' \subseteq active \cup {u},
               UNCHANGED lastReport
        PROVE  ObserveOK'
    <2>1. /\ observed' \in Seq(URIs) /\ NoRepeat(observed')
          /\ \A v : Contains(observed', v) <=> Contains(observed, v) \/ v = u
      BY <1>0, <1>1, <1>2, PushFacts DEF ObserveOK, WithWatcher
    <2> QED BY <1>0, <1>2, <2>1 DEF ObserveOK
  <1>3. CASE ObservesNothing
    BY <1>0, <1>3, ObservesNothingFacts DEF ObserveOK, observeVars
  <1>4. CASE lwm2m_reconnect
    BY <1>4, EmptyFacts DEF ObserveOK, lwm2m_reconnect
  <1>5. CASE SendReport \/ SendUnconfirmed \/ LoseReport
    <2>1. Head(nodes) \in Reports
      BY <1>0, <1>5 DEF ListOK, SendReport, SendUnconfirmed, LoseReport, TakeReport
    <2>2. Contains(observed, "app") /\ UNCHANGED <<observed, active>>
      BY <1>1, <1>5 DEF SendReport, SendUnconfirmed, LoseReport, TakeReport
    <2>3. lastReport' \in {lastReport, 0, Head(nodes)}
      BY <1>5 DEF SendReport, SendUnconfirmed, LoseReport
    <2> QED BY <1>0, <2>1, <2>2, <2>3 DEF ObserveOK
  <1>6. ASSUME NEW mid \in sent, ReceiveReset(mid)
        PROVE  ObserveOK'
    <2>1. CASE mid = <<"notify", lastReport>>
      <3>1. Place("app") \in 1 .. Len(observed) /\ observe_cancel(Place("app"))
        BY <1>0, <1>6, <2>1, RememberedIsObserved, PlaceFacts DEF ReceiveReset
      <3> QED BY <1>0, <3>1, CancelFacts
    <2>2. CASE mid # <<"notify", lastReport>>
      BY <1>0, <1>6, <2>2 DEF ReceiveReset, observeVars, ObserveOK
    <2> QED BY <2>1, <2>2
  <1>7. CASE ResetOfPlain
    <2>1. Place("plain") \in 1 .. Len(observed) /\ observe_cancel(Place("plain"))
      BY <1>0, <1>7, PlaceFacts DEF ResetOfPlain, ObserveOK
    <2> QED BY <1>0, <2>1, CancelFacts
  <1>8. ASSUME NEW u \in URIs, Observe(u) \/ WriteAttributes(u)
        PROVE  ObserveOK'
    BY <1>2, <1>8 DEF Observe, WriteAttributes
  <1>9. CASE Cancel
    <2>1. 1 \in 1 .. Len(observed)
      BY <1>0, <1>9 DEF Cancel, ObserveOK
    <2> QED BY <1>0, <1>9, <2>1, CancelFacts DEF Cancel
  <1>10. CASE DeleteInstance
    <2>1. /\ observed' \in Seq(URIs) /\ NoRepeat(observed')
          /\ \A v : Contains(observed', v) <=> Contains(observed, v) /\ v # "app"
      <3>1. CASE Contains(observed, "app")
        <4>1. Place("app") \in 1 .. Len(observed) /\ observed[Place("app")] = "app"
          BY <1>0, <3>1, PlaceFacts
        <4>2. observed' = RemoveAt(observed, Place("app"))
          BY <1>1, <1>10, <3>1 DEF DeleteInstance, Unobserved
        <4> QED BY <1>0, <4>1, <4>2, RemoveFacts DEF ObserveOK
      <3>2. CASE ~Contains(observed, "app")
        BY <1>0, <1>1, <1>10, <3>2 DEF DeleteInstance, Unobserved, ObserveOK
      <3> QED BY <3>1, <3>2
    <2> QED BY <1>0, <1>10, <2>1 DEF ObserveOK, DeleteInstance
  <1> QED
    BY <1>3, <1>4, <1>5, <1>6, <1>7, <1>8, <1>9, <1>10 DEF ReportNext, Agent, ObservesNothing

-----------------------------------------------------------------------------
(***************************************************************************)
(* Where a report is, it is nowhere else.                                  *)
(***************************************************************************)
LEMMA OneAtMost ==
    ASSUME ReportInv, NEW r \in Reports
    PROVE  /\ told[r] \in {0, 1}
           /\ Listed(r) => ~Carried(r) /\ told[r] = 0 /\ r \notin dropped /\ r <= accepted
           /\ Carried(r) => ~Listed(r) /\ told[r] = 0 /\ r \notin dropped /\ r <= accepted
           /\ r > accepted => ~Listed(r) /\ ~Carried(r) /\ told[r] = 0 /\ r \notin dropped
  <1>1. told[r] \in Nat
    BY DEF ReportInv, PlaceOK
  <1>2. One(Listed(r)) + One(Carried(r)) + told[r] + One(r \in dropped) = One(r <= accepted)
    BY DEF ReportInv, PlaceOK, OnePlace
  <1>3. r \in Nat /\ accepted \in Nat
    BY ReportAssumption DEF ReportInv, ListOK, Reports
  <1> QED BY <1>1, <1>2, <1>3 DEF One

LEMMA HeadFacts ==
    ASSUME ReportInv, nodes # <<>>
    PROVE  /\ Head(nodes) \in Reports /\ Listed(Head(nodes))
           /\ Tail(nodes) \in Seq(Reports) /\ NoRepeat(Tail(nodes))
           /\ Len(Tail(nodes)) <= Len(nodes)
           /\ \A y : Contains(Tail(nodes), y) <=> Listed(y) /\ y # Head(nodes)
  <1>1. nodes \in Seq(Reports) /\ NoRepeat(nodes)
    BY DEF ReportInv, ListOK
  <1>2. Len(Tail(nodes)) <= Len(nodes)
    BY <1>1
  <1> QED BY <1>1, <1>2, PopFacts DEF Listed

LEMMA ListStep ==
    ASSUME ReportInv, ReportNext
    PROVE  ListOK'
  <1>0. /\ ListOK /\ ObserveOK /\ SendOK
        /\ max_cnt \in Nat /\ Len(nodes) \in Nat /\ {STORING_CNT, MAX_BUFFER_REPORT_CNT} \subseteq Nat
    BY ReportAssumption DEF ReportInv, ListOK
  <1>1. ASSUME NEW S, nodes' = NodesWithout(S), UNCHANGED <<max_cnt, accepted>>
        PROVE  ListOK'
    <2>1. /\ nodes' \in Seq(Reports) /\ NoRepeat(nodes') /\ Len(nodes') <= Len(nodes)
      BY <1>0, <1>1, UnsubscribedFacts
    <2>2. Len(nodes') \in Nat
      BY <2>1
    <2>3. Len(nodes') <= max_cnt'
      BY <1>0, <1>1, <2>1, <2>2 DEF ListOK
    <2> QED BY <1>0, <1>1, <2>1, <2>3 DEF ListOK
  <1>2. CASE UNCHANGED listVars
    BY <1>0, <1>2 DEF ListOK, listVars
  <1>3. CASE \/ NoReconnect \/ StepState \/ DelayExpires \/ prv_register \/ RegisterFails
             \/ ObserveEnds \/ prv_updateRegistration \/ RegistrationFailed \/ NoUpdate
             \/ \E t \in transactions : transaction_send(t)
             \/ NoPacket \/ ReceiveFails \/ atiny_reconnect
    BY <1>2, <1>3 DEF NoReconnect, StepState, DelayExpires, NextStep, LeaveSwitch, prv_register,
        RegisterFails, ObserveEnds, prv_updateRegistration, RegistrationFailed, NoUpdate,
        transaction_send, NoPacket, ReceiveFails, Polls, atiny_reconnect, listVars
  <1>4. CASE \/ \E t \in transactions : ReceiveAck(t)
             \/ \E t \in transactions, ok \in BOOLEAN : ReceiveResponse(t, ok)
             \/ \E u \in URIs : Observe(u) \/ WriteAttributes(u)
    BY <1>2, <1>4 DEF ReceiveAck, ReceiveResponse, Observe, WriteAttributes, Requests, Polls, listVars
  <1>5. CASE lwm2m_reconnect
    BY <1>1, <1>5 DEF lwm2m_reconnect
  <1>6. CASE SendReport \/ SendUnconfirmed \/ LoseReport
    <2>1. nodes # <<>> /\ nodes' = Tail(nodes) /\ UNCHANGED <<max_cnt, accepted>>
      BY <1>6 DEF SendReport, SendUnconfirmed, LoseReport, TakeReport
    <2>2. Len(nodes') \in Nat /\ Len(nodes') <= Len(nodes) /\ Len(nodes) <= max_cnt
      BY <1>0, <2>1, HeadFacts DEF ListOK
    <2>3. Len(nodes') <= max_cnt'
      BY <1>0, <2>1, <2>2
    <2> QED BY <1>0, <2>1, <2>3, HeadFacts DEF ListOK
  <1>7. ASSUME NEW mid \in sent, ReceiveReset(mid)
        PROVE  ListOK'
    <2>1. UNCHANGED <<max_cnt, accepted>>
      BY <1>7 DEF ReceiveReset, Polls
    <2>2. CASE mid = <<"notify", lastReport>>
      <3>1. observe_cancel(Place("app"))
        BY <1>7, <2>2 DEF ReceiveReset
      <3>2. nodes' = NodesWithout({observed[Place("app")]})
        BY <3>1 DEF observe_cancel
      <3> QED BY <1>1, <2>1, <3>2
    <2>3. CASE mid # <<"notify", lastReport>>
      BY <1>2, <1>7, <2>1, <2>3 DEF ReceiveReset, listVars
    <2> QED BY <2>2, <2>3
  <1>8. CASE ResetOfPlain \/ Cancel
    <2>1. \E i : nodes' = NodesWithout({observed[i]})
      BY <1>8 DEF ResetOfPlain, Cancel, observe_cancel
    <2>2. UNCHANGED <<max_cnt, accepted>>
      BY <1>8 DEF ResetOfPlain, Cancel, Requests, Polls
    <2> QED BY <1>1, <2>1, <2>2
  <1>9. CASE DeleteInstance
    BY <1>0, <1>9, EmptyFacts DEF DeleteInstance, Requests, Polls, ListOK
  <1>10. CASE CreateInstance
    <2>1. nodes' = nodes /\ Len(nodes) <= 0 /\ accepted' = accepted /\ max_cnt' = MAX_BUFFER_REPORT_CNT
      BY <1>0, <1>10 DEF CreateInstance, Requests, Polls, ListOK
    <2>2. Len(nodes) <= MAX_BUFFER_REPORT_CNT
      BY <1>0, <2>1
    <2> QED BY <1>0, <2>1, <2>2 DEF ListOK
  <1>11. CASE atiny_data_report
    <2>1. /\ accepted \in 0 .. MaxReports /\ accepted < MaxReports /\ MaxReports \in Nat
          /\ accepted' = accepted + 1 /\ ~(Len(nodes) >= max_cnt)
          /\ nodes' = Append(nodes, accepted + 1) /\ max_cnt' = max_cnt
      BY <1>0, <1>11, ReportAssumption DEF ListOK, atiny_data_report, Full
    <2>2. accepted + 1 \in Reports /\ accepted + 1 > accepted /\ accepted' \in 0 .. MaxReports
      BY <2>1 DEF Reports
    <2>3. ~Contains(nodes, accepted + 1)
      BY <2>2, OneAtMost DEF Listed
    <2>4. nodes' \in Seq(Reports) /\ NoRepeat(nodes')
      BY <1>0, <2>1, <2>2, <2>3, AppendFacts DEF ListOK
    <2>5. Len(nodes') = Len(nodes) + 1
      BY <1>0, <2>1 DEF ListOK
    <2>6. Len(nodes') <= max_cnt'
      BY <1>0, <2>1, <2>5
    <2> QED BY <1>0, <2>1, <2>2, <2>4, <2>6 DEF ListOK
  <1> QED
    BY <1>3, <1>4, <1>5, <1>6, <1>7, <1>8, <1>9, <1>10, <1>11 DEF ReportNext, Agent

-----------------------------------------------------------------------------
(***************************************************************************)
(* A status that is pending is ended only with the transaction that it     *)
(* waits for.                                                              *)
(***************************************************************************)
LEMMA PendingStep ==
    ASSUME ReportInv, ReportNext
    PROVE  PendingIsAwaited'
  <1>0. PendingIsAwaited /\ SendOK /\ AgentOK
    BY DEF ReportInv
  <1>1. ASSUME UNCHANGED status,
               \A t \in transactions : \E u \in transactions' : u.mid = t.mid
        PROVE  PendingIsAwaited'
    BY <1>0, <1>1 DEF PendingIsAwaited, Kind
  <1>2. ASSUME NEW t \in transactions, NEW ok, Finish(t, ok)
        PROVE  PendingIsAwaited'
    BY <1>0, <1>2 DEF PendingIsAwaited, Kind, Finish, Callback, AwaitedBy
  <1>3. ASSUME NEW mid \in Mids, Start(mid),
               \/ status' = "STATE_REG_PENDING" /\ mid[1] = "register"
               \/ status' = "STATE_REG_UPDATE_PENDING" /\ mid[1] = "update"
        PROVE  PendingIsAwaited'
    <2>1. \E n : n \in transactions' /\ n.mid = mid
      BY <1>0, <1>3, StartFacts
    <2> QED BY <1>3, <2>1 DEF PendingIsAwaited, Kind
  <1>4. CASE SendsNothing
    <2>1. UNCHANGED transactions
      BY <1>4, SendsNothingFacts DEF sendVars
    <2>2. status' \in {status, "STATE_REG_FULL_UPDATE_NEEDED"}
      BY <1>4 DEF SendsNothing, StepState, DelayExpires, NextStep, LeaveSwitch, RegisterFails,
         ObserveEnds, NoUpdate, LoseReport, TakeReport, NoPacket, ReceiveFails, ResetOfPlain, Cancel,
         DeleteInstance, CreateInstance, lwm2m_update_registration, Observe, WriteAttributes,
         atiny_data_report, atiny_reconnect, agentVars
    <2> QED BY <1>0, <2>1, <2>2 DEF PendingIsAwaited, Kind
  <1>5. CASE lwm2m_reconnect
    BY <1>5 DEF lwm2m_reconnect, PendingIsAwaited
  <1>6. CASE NoReconnect
    BY <1>1, <1>6 DEF NoReconnect, agentVars
  <1>7. CASE prv_register
    BY <1>3, <1>7, MidFacts DEF prv_register
  <1>8. CASE SendReport \/ SendUnconfirmed
    <2>1. UNCHANGED status /\ transactions \subseteq transactions'
      BY <1>8 DEF SendReport, SendUnconfirmed, TakeReport, Start
    <2> QED BY <1>1, <2>1
  <1>9. CASE prv_updateRegistration
    BY <1>0, <1>3, <1>9, MidFacts, FreshUpdate DEF prv_updateRegistration
  <1>10. CASE RegistrationFailed
    BY <1>10 DEF RegistrationFailed, PendingIsAwaited
  <1>11. ASSUME NEW t \in transactions, transaction_send(t)
         PROVE  PendingIsAwaited'
    <2>1. CASE Retransmit(t)
      <3>1. t \in Transactions
        BY <1>0 DEF SendOK
      <3>2. [t EXCEPT !.retrans = @ + 1].mid = t.mid
        BY <3>1 DEF Transactions
      <3> QED BY <1>1, <2>1, <3>2 DEF Retransmit
    <2>2. CASE GivesUp(t)
      BY <1>2, <2>2 DEF GivesUp
    <2> QED BY <1>11, <2>1, <2>2 DEF transaction_send
  <1>12. ASSUME NEW t \in transactions, ReceiveAck(t)
         PROVE  PendingIsAwaited'
    <2>1. CASE Kind(t) = "notify"
      BY <1>2, <1>12, <2>1 DEF ReceiveAck, Acknowledged
    <2>2. CASE Kind(t) # "notify"
      <3>1. [t EXCEPT !.acked = TRUE].mid = t.mid
        BY <1>0 DEF SendOK, Transactions
      <3> QED BY <1>1, <1>12, <2>2, <3>1 DEF ReceiveAck, Acknowledged
    <2> QED BY <2>1, <2>2
  <1>13. ASSUME NEW t \in transactions, NEW ok \in BOOLEAN, ReceiveResponse(t, ok)
         PROVE  PendingIsAwaited'
    BY <1>2, <1>13 DEF ReceiveResponse
  <1>14. ASSUME NEW mid \in sent, ReceiveReset(mid)
         PROVE  PendingIsAwaited'
    <2> DEFINE mine == {t \in transactions : t.live /\ t.mid = mid /\ ~t.acked}
    <2>1. /\ transactions' = transactions \ mine
          /\ status' = IF \E t \in mine : AwaitedBy(t) THEN "STATE_REG_FAILED" ELSE status
      BY <1>14 DEF ReceiveReset
    <2> HIDE DEF mine
    <2> QED BY <1>0, <2>1 DEF PendingIsAwaited, AwaitedBy, Kind
  <1> QED
    BY <1>4, <1>5, <1>6, <1>7, <1>8, <1>9, <1>10, <1>11, <1>12, <1>13, <1>14
    DEF ReportNext, Agent, SendsNothing

-----------------------------------------------------------------------------
(***************************************************************************)
(* The ways in which reports move.  Over: transactions end and reports are *)
(* unsubscribed, each told to the application.                             *)
(***************************************************************************)
LEMMA OverIsTold ==
    ASSUME ReportInv, NEW S, NEW gone \in SUBSET transactions,
           transactions' = transactions \ gone, nodes' = NodesWithout(S),
           told' \in [Reports -> Nat],
           \A r \in Reports : told'[r] = told[r] + One(r \in Unsubscribed(S))
                                  + One(gone \cap Carriers(r) # {}),
           UNCHANGED <<accepted, dropped>>
    PROVE  PlaceOK'
  <1>1. OneCarrier'
    BY DEF ReportInv, PlaceOK, OneCarrier, Kind
  <1>2. ASSUME NEW r \in Reports
        PROVE  (One(Listed(r)) + One(Carried(r)) + told[r] + One(r \in dropped) = One(r <= accepted))'
    <2>1. One(Listed(r)') + One(r \in Unsubscribed(S)) = One(Listed(r))
      BY UnsubscribedFacts DEF ReportInv, Listed
    <2>2. One(Carried(r)') + One(gone \cap Carriers(r) # {}) = One(Carried(r))
      <3>1. CASE gone \cap Carriers(r) # {}
        <4>1. PICK t \in gone : t \in transactions /\ t.mid = <<"notify", r>>
          BY <3>1 DEF Carriers
        <4>2. ASSUME NEW u \in transactions, u.mid = <<"notify", r>> PROVE u = t
          BY <4>1, <4>2 DEF ReportInv, PlaceOK, OneCarrier, Kind
        <4>3. Carried(r) /\ ~Carried(r)'
          BY <4>1, <4>2 DEF Carried
        <4> QED BY <3>1, <4>3 DEF One
      <3>2. CASE gone \cap Carriers(r) = {}
        <4>1. Carried(r)' <=> Carried(r)
          BY <3>2 DEF Carried, Carriers
        <4> QED BY <3>2, <4>1 DEF One
      <3> QED BY <3>1, <3>2
    <2>3. One(Listed(r)) + One(Carried(r)) + told[r] + One(r \in dropped) = One(r <= accepted)
      BY DEF ReportInv, PlaceOK, OnePlace
    <2>4. told[r] \in Nat
      BY DEF ReportInv, PlaceOK
    <2>5. told'[r] = told[r] + One(r \in Unsubscribed(S)) + One(gone \cap Carriers(r) # {})
      OBVIOUS
    <2>6. \A b : One(b) \in {0, 1}
      BY DEF One
    <2>7. One(Listed(r)') + One(Carried(r)') + told'[r] + One(r \in dropped) = One(r <= accepted)
      BY <2>1, <2>2, <2>3, <2>4, <2>5, <2>6
    <2> QED BY <2>7 DEF One
  <1> QED BY <1>1, <1>2 DEF ReportInv, PlaceOK, OnePlace

LEMMA FinishPlaces ==
    ASSUME ReportInv, NEW t \in transactions, NEW ok, Finish(t, ok),
           UNCHANGED <<nodes, accepted, dropped>>
    PROVE  PlaceOK'
  <1> DEFINE over == {r \in Reports : t \in Carriers(r)}
             gone == {t}
             none == {}
  <1>1. told' = Told(over, {}) /\ transactions' = transactions \ gone
    BY DEF Finish, Callback
  <1>2. nodes' = NodesWithout(none) /\ Unsubscribed(none) = {}
    BY DEF NodesWithout, Unsubscribed
  <1>3. \A r \in Reports : r \in over <=> gone \cap Carriers(r) # {}
    OBVIOUS
  <1>4. gone \in SUBSET transactions
    OBVIOUS
  <1> HIDE DEF over, gone, none
  <1>5. /\ told' \in [Reports -> Nat]
        /\ \A r \in Reports : told'[r] = told[r] + One(r \in over) + One(r \in {})
    BY <1>1, ToldFacts DEF ReportInv
  <1>6. \A r \in Reports : told'[r] = told[r] + One(r \in Unsubscribed(none))
                                      + One(gone \cap Carriers(r) # {})
    <2> TAKE r \in Reports
    <2>1. told[r] \in Nat
      BY DEF ReportInv, PlaceOK
    <2> QED BY <1>2, <1>3, <1>5, <2>1 DEF One
  <1> QED BY <1>1, <1>2, <1>4, <1>5, <1>6, OverIsTold

(***************************************************************************)
(* The transactions change, and carry what they carried.                   *)
(***************************************************************************)
LEMMA SameCargo ==
    ASSUME ReportInv, UNCHANGED <<nodes, told, accepted, dropped>>,
           OneCarrier', \A r \in Reports : Carried(r)' <=> Carried(r)
    PROVE  PlaceOK'
  BY DEF ReportInv, PlaceOK, OnePlace, Listed, One

LEMMA OtherPlaces ==
    ASSUME ReportInv, UNCHANGED <<nodes, told, accepted, dropped>>,
           \/ UNCHANGED transactions
           \/ \E n : n.mid[1] # "notify" /\ transactions' = transactions \cup {n}
           \/ \E t \in transactions : \E u : u.mid = t.mid /\ transactions' = (transactions \ {t}) \cup {u}
    PROVE  PlaceOK'
  <1>1. CASE UNCHANGED transactions
    BY <1>1, SameCargo DEF ReportInv, PlaceOK, OneCarrier, Kind, Carried
  <1>2. ASSUME NEW n, n.mid[1] # "notify", transactions' = transactions \cup {n}
        PROVE  PlaceOK'
    <2>1. \A r : n.mid # <<"notify", r>>
      BY <1>2
    <2>2. OneCarrier'
      BY <1>2 DEF ReportInv, PlaceOK, OneCarrier, Kind
    <2>3. \A r \in Reports : Carried(r)' <=> Carried(r)
      BY <1>2, <2>1 DEF Carried
    <2> QED BY <2>2, <2>3, SameCargo
  <1>3. ASSUME NEW t \in transactions, NEW u, u.mid = t.mid,
               transactions' = (transactions \ {t}) \cup {u}
        PROVE  PlaceOK'
    <2>1. OneCarrier'
      BY <1>3 DEF ReportInv, PlaceOK, OneCarrier, Kind
    <2>2. \A r \in Reports : Carried(r)' <=> Carried(r)
      BY <1>3 DEF Carried
    <2> QED BY <2>1, <2>2, SameCargo
  <1> QED BY <1>1, <1>2, <1>3

-----------------------------------------------------------------------------
LEMMA PlaceStep ==
    ASSUME ReportInv, ReportNext
    PROVE  PlaceOK'
  <1>0. AgentOK /\ SendOK /\ ObserveOK /\ ListOK /\ PlaceOK
    BY DEF ReportInv
  <1>1. \A t \in transactions : t \in Transactions
    BY <1>0 DEF SendOK
  <1>2. ASSUME NEW S, nodes' = NodesWithout(S), told' = Told(Unsubscribed(S), {}),
               UNCHANGED <<transactions, accepted, dropped>>
        PROVE  PlaceOK'
    <2>1. /\ told' \in [Reports -> Nat]
          /\ \A r \in Reports : told'[r] = told[r] + One(r \in Unsubscribed(S)) + One(r \in {})
      BY <1>0, <1>2, ToldFacts
    <2>2. \A r \in Reports : told'[r] = told[r] + One(r \in Unsubscribed(S)) + One({} \cap Carriers(r) # {})
      BY <2>1 DEF One
    <2>3. transactions' = transactions \ {}
      BY <1>2
    <2> QED BY <1>2, <2>1, <2>2, <2>3, OverIsTold
  <1>3. CASE \/ NoReconnect \/ StepState \/ DelayExpires \/ RegisterFails \/ ObserveEnds
             \/ NoUpdate \/ NoPacket \/ ReceiveFails \/ CreateInstance \/ atiny_reconnect
             \/ \E u \in URIs : Observe(u) \/ WriteAttributes(u)
    <2>1. UNCHANGED <<nodes, told, accepted, dropped, transactions>>
      BY <1>3 DEF NoReconnect, StepState, DelayExpires, NextStep, LeaveSwitch, RegisterFails,
         ObserveEnds, NoUpdate, NoPacket, ReceiveFails, CreateInstance, Requests, Polls,
         atiny_reconnect, Observe, WriteAttributes, sendVars, listVars, history
    <2> QED BY <2>1, OtherPlaces
  <1>4. CASE lwm2m_reconnect
    <2> DEFINE gone == ToSet(observed)
               over == {r \in Reports : Carriers(r) # {}}
    <2>1. /\ nodes' = NodesWithout(gone) /\ told' = Told(Unsubscribed(gone), over)
          /\ transactions' = transactions \ transactions /\ UNCHANGED <<accepted, dropped>>
      BY <1>4 DEF lwm2m_reconnect
    <2>2. \A r \in Reports : r \in over <=> transactions \cap Carriers(r) # {}
      BY DEF Carriers
    <2> HIDE DEF gone, over
    <2>3. /\ told' \in [Reports -> Nat]
          /\ \A r \in Reports : told'[r] = told[r] + One(r \in Unsubscribed(gone)) + One(r \in over)
      BY <1>0, <2>1, ToldFacts
    <2>4. \A r \in Reports : told'[r] = told[r] + One(r \in Unsubscribed(gone))
                                        + One(transactions \cap Carriers(r) # {})
      BY <2>2, <2>3 DEF One
    <2> QED BY <2>1, <2>3, <2>4, OverIsTold
  <1>5. CASE prv_register \/ prv_updateRegistration
    <2>1. UNCHANGED <<nodes, told, accepted, dropped>>
      BY <1>5 DEF prv_register, prv_updateRegistration, listVars, history
    <2>2. \E mid \in Mids : mid[1] # "notify" /\ Start(mid)
      BY <1>0, <1>5, MidFacts, FreshUpdate DEF prv_register, prv_updateRegistration
    <2>3. \E n : n.mid[1] # "notify" /\ transactions' = transactions \cup {n}
      BY <1>0, <2>2, StartFacts
    <2> QED BY <2>1, <2>3, OtherPlaces
  <1>6. CASE SendReport
    <2> DEFINE h == Head(nodes)
    <2>1. /\ nodes # <<>> /\ nodes' = Tail(nodes) /\ UNCHANGED <<told, accepted, dropped>>
          /\ Start(<<"notify", h>>)
      BY <1>6 DEF SendReport, TakeReport
    <2>2. /\ h \in Reports /\ Listed(h)
          /\ \A y : Contains(nodes', y) <=> Listed(y) /\ y # h
      BY <2>1, HeadFacts
    <2>3. ~Carried(h) /\ <<"notify", h>> \in Mids
      BY <2>2, OneAtMost, MidFacts
    <2> HIDE DEF h
    <2>4. PICK n : n.mid = <<"notify", h>> /\ transactions' = transactions \cup {n}
      BY <1>0, <2>1, <2>3, StartFacts
    <2>5. OneCarrier'
      BY <1>0, <2>3, <2>4 DEF PlaceOK, OneCarrier, Kind, Carried
    <2>6. \A r \in Reports : Carried(r)' <=> Carried(r) \/ r = h
      BY <2>4 DEF Carried
    <2>7. \A r \in Reports : One(Listed(r)') + One(Carried(r)') = One(Listed(r)) + One(Carried(r))
      BY <2>2, <2>3, <2>6 DEF One, Listed
    <2>8. OnePlace'
      BY <1>0, <2>1, <2>7 DEF PlaceOK, OnePlace, One
    <2> QED BY <1>0, <2>1, <2>5, <2>8 DEF PlaceOK
  <1>7. CASE SendUnconfirmed \/ LoseReport
    <2> DEFINE h == Head(nodes)
    <2>1. /\ nodes # <<>> /\ nodes' = Tail(nodes) /\ UNCHANGED <<told, accepted, transactions>>
          /\ dropped' = dropped \cup {h}
      BY <1>7 DEF SendUnconfirmed, LoseReport, TakeReport, sendVars
    <2>2. /\ h \in Reports /\ Listed(h) /\ h \notin dropped
          /\ \A y : Contains(nodes', y) <=> Listed(y) /\ y # h
      BY <2>1, HeadFacts, OneAtMost
    <2> HIDE DEF h
    <2>3. \A r \in Reports : One(Listed(r)') + One(r \in dropped') = One(Listed(r)) + One(r \in dropped)
      BY <2>1, <2>2 DEF One, Listed
    <2>4. \A r \in Reports : Carried(r)' <=> Carried(r)
      BY <2>1 DEF Carried
    <2>5. OnePlace'
      BY <1>0, <2>1, <2>3, <2>4 DEF PlaceOK, OnePlace, One
    <2> QED BY <1>0, <2>1, <2>2, <2>5 DEF PlaceOK, OneCarrier, Kind
  <1>8. CASE RegistrationFailed
    <2>1. /\ UNCHANGED <<nodes, told, accepted, dropped>>
          /\ transactions' = {[t EXCEPT !.live = FALSE] : t \in transactions}
      BY <1>8 DEF RegistrationFailed, listVars, history
    <2>2. \A t \in transactions : [t EXCEPT !.live = FALSE].mid = t.mid
      BY <1>1 DEF Transactions
    <2>3. \A r \in Reports : Carried(r)' <=> Carried(r)
      BY <2>1, <2>2 DEF Carried
    <2>4. OneCarrier'
      <3> SUFFICES ASSUME NEW v \in transactions', NEW w \in transactions',
                          v.mid[1] = "notify", v.mid = w.mid
                   PROVE  v = w
        BY DEF OneCarrier, Kind
      <3>1. PICK t \in transactions : v = [t EXCEPT !.live = FALSE]
        BY <2>1
      <3>2. PICK u \in transactions : w = [u EXCEPT !.live = FALSE]
        BY <2>1
      <3>3. t.mid[1] = "notify" /\ t.mid = u.mid
        BY <2>2, <3>1, <3>2
      <3>4. t = u
        BY <1>0, <3>3 DEF PlaceOK, OneCarrier, Kind
      <3> QED BY <3>1, <3>2, <3>4
    <2> QED BY <2>1, <2>3, <2>4, SameCargo
  <1>9. ASSUME NEW t \in transactions, transaction_send(t)
        PROVE  PlaceOK'
    <2>1. UNCHANGED <<nodes, accepted, dropped>>
      BY <1>9 DEF transaction_send, listVars
    <2>2. CASE Retransmit(t)
      <3>1. [t EXCEPT !.retrans = @ + 1].mid = t.mid
        BY <1>1 DEF Transactions
      <3> QED BY <2>1, <2>2, <3>1, OtherPlaces DEF Retransmit
    <2>3. CASE GivesUp(t)
      BY <2>1, <2>3, FinishPlaces DEF GivesUp
    <2> QED BY <1>9, <2>2, <2>3 DEF transaction_send
  <1>10. ASSUME NEW t \in transactions, ReceiveAck(t)
         PROVE  PlaceOK'
    <2>1. UNCHANGED <<nodes, accepted, dropped>> /\ Acknowledged(t)
      BY <1>10 DEF ReceiveAck, Polls
    <2>2. CASE Kind(t) = "notify"
      BY <2>1, <2>2, FinishPlaces DEF Acknowledged
    <2>3. CASE Kind(t) # "notify"
      <3>1. [t EXCEPT !.acked = TRUE].mid = t.mid
        BY <1>1 DEF Transactions
      <3> QED BY <2>1, <2>3, <3>1, OtherPlaces DEF Acknowledged
    <2> QED BY <2>2, <2>3
  <1>11. ASSUME NEW t \in transactions, NEW ok \in BOOLEAN, ReceiveResponse(t, ok)
         PROVE  PlaceOK'
    BY <1>11, FinishPlaces DEF ReceiveResponse, Polls
  <1>12. ASSUME NEW mid \in sent, ReceiveReset(mid)
         PROVE  PlaceOK'
    <2> DEFINE mine == {t \in transactions : t.live /\ t.mid = mid /\ ~t.acked}
               over == {r \in Reports : mine \cap Carriers(r) # {}}
    <2>1. /\ transactions' = transactions \ mine /\ mine \in SUBSET transactions
          /\ UNCHANGED <<accepted, dropped>>
      BY <1>12 DEF ReceiveReset, Polls
    <2>2. PICK S : nodes' = NodesWithout(S) /\ told' = Told(over, Unsubscribed(S))
      <3>1. CASE mid = <<"notify", lastReport>>
        <4>1. Place("app") \in 1 .. Len(observed) /\ observed[Place("app")] = "app"
          BY <1>0, <1>12, <3>1, RememberedIsObserved, PlaceFacts
        <4> QED BY <1>12, <3>1, <4>1 DEF ReceiveReset, observe_cancel
      <3>2. CASE mid # <<"notify", lastReport>>
        <4>1. NodesWithout({}) = nodes /\ Unsubscribed({}) = {}
          BY DEF NodesWithout, Unsubscribed
        <4> QED BY <1>12, <3>2, <4>1 DEF ReceiveReset
      <3> QED BY <3>1, <3>2
    <2>3. \A r \in Reports : r \in over <=> mine \cap Carriers(r) # {}
      OBVIOUS
    <2> HIDE DEF mine, over
    <2>4. /\ told' \in [Reports -> Nat]
          /\ \A r \in Reports : told'[r] = told[r] + One(r \in over) + One(r \in Unsubscribed(S))
      BY <1>0, <2>2, ToldFacts
    <2>5. \A r \in Reports : told'[r] = told[r] + One(r \in Unsubscribed(S))
                                        + One(mine \cap Carriers(r) # {})
      <3> TAKE r \in Reports
      <3>1. told[r] \in Nat
        BY <1>0 DEF PlaceOK
      <3> QED BY <2>3, <2>4, <3>1 DEF One
    <2> QED BY <2>1, <2>2, <2>4, <2>5, OverIsTold
  <1>13. CASE ResetOfPlain
    <2>1. Place("plain") \in 1 .. Len(observed) /\ observed[Place("plain")] = "plain"
      BY <1>0, <1>13, PlaceFacts DEF ResetOfPlain, ObserveOK
    <2>2. UNCHANGED <<nodes, told, accepted, dropped, transactions>>
      BY <1>13, <2>1 DEF ResetOfPlain, observe_cancel, NodesWithout, Polls, sendVars, history
    <2> QED BY <2>2, OtherPlaces
  <1>14. CASE Cancel
    BY <1>2, <1>14 DEF Cancel, observe_cancel, Requests, Polls, sendVars
  <1>15. CASE DeleteInstance
    <2>1. nodes' = NodesWithout({"app"}) /\ told' = Told(Unsubscribed({"app"}), {})
      BY <1>15 DEF DeleteInstance, NodesWithout, Unsubscribed
    <2> QED BY <1>2, <1>15, <2>1 DEF DeleteInstance, Requests, Polls, sendVars
  <1>16. CASE atiny_data_report
    <2> DEFINE n == accepted + 1
    <2>1. /\ accepted \in 0 .. MaxReports /\ accepted < MaxReports /\ MaxReports \in Nat
          /\ accepted' = n /\ nodes' = Append(nodes, n)
          /\ UNCHANGED <<told, dropped, transactions>>
      BY <1>0, <1>16, ReportAssumption DEF ListOK, atiny_data_report, sendVars, history
    <2>2. n \in Reports /\ n > accepted
      BY <2>1 DEF Reports
    <2>3. ~Listed(n)
      BY <2>2, OneAtMost
    <2>4. \A y : Contains(nodes', y) <=> Listed(y) \/ y = n
      BY <1>0, <2>1, <2>2, <2>3, AppendFacts DEF ListOK, Listed
    <2>5. \A r \in Reports : (r <= accepted' <=> r <= accepted \/ r = n)
      BY <2>1 DEF Reports
    <2>6. ~(n <= accepted)
      BY <2>1
    <2> HIDE DEF n
    <2>7. \A r \in Reports : One(Listed(r)') - One(r <= accepted') = One(Listed(r)) - One(r <= accepted)
      BY <2>3, <2>4, <2>5, <2>6 DEF One, Listed
    <2>8. \A r \in Reports : Carried(r)' <=> Carried(r)
      BY <2>1 DEF Carried
    <2>9. OnePlace'
      <3> SUFFICES ASSUME NEW r \in Reports
                   PROVE  One(Listed(r)') + One(Carried(r)') + told'[r] + One(r \in dropped')
                              = One(r <= accepted')
        BY DEF OnePlace, One
      <3>1. One(Listed(r)) + One(Carried(r)) + told[r] + One(r \in dropped) = One(r <= accepted)
        BY <1>0 DEF PlaceOK, OnePlace
      <3>2. told[r] \in Nat /\ \A b : One(b) \in {0, 1}
        BY <1>0 DEF PlaceOK, One
      <3>3. /\ One(Carried(r)') = One(Carried(r))
            /\ told'[r] = told[r] /\ dropped' = dropped
        BY <2>1, <2>8 DEF One
      <3>4. One(Listed(r)') - One(r <= accepted') = One(Listed(r)) - One(r <= accepted)
        BY <2>7
      <3> QED BY <3>1, <3>2, <3>3, <3>4
    <2> QED BY <1>0, <2>1, <2>9 DEF PlaceOK, OneCarrier, Kind
  <1> QED
    BY <1>3, <1>4, <1>5, <1>6, <1>7, <1>8, <1>9, <1>10, <1>11, <1>12, <1>13, <1>14, <1>15, <1>16
    DEF ReportNext, Agent

LEMMA ReportStutters == ReportInv /\ UNCHANGED reportVars => ReportInv'
  <1> SUFFICES ASSUME ReportInv, UNCHANGED reportVars PROVE ReportInv'
    OBVIOUS
  <1> USE DEF reportVars, agentVars, observeVars, sendVars, listVars, history
  <1>1. AgentOK'
    BY DEF ReportInv, AgentOK
  <1>2. SendOK' /\ ObserveOK'
    BY DEF ReportInv, SendOK, ObserveOK
  <1>3. ListOK'
    BY DEF ReportInv, ListOK
  <1>4. PlaceOK'
    BY OtherPlaces
  <1>5. PendingIsAwaited'
    BY DEF ReportInv, PendingIsAwaited, Kind
  <1> QED BY <1>1, <1>2, <1>3, <1>4, <1>5 DEF ReportInv

-----------------------------------------------------------------------------
(***************************************************************************)
(* The inductive invariant of the agent: its state machines, observations, *)
(* report list and transactions, each report in one place, no two          *)
(* transactions with one report.                                           *)
(***************************************************************************)
THEOREM ReportInvariant == ReportSpec => []ReportInv
  <1>1. ReportInit => ReportInv
    BY ReportInitInv
  <1>2. ReportInv /\ [ReportNext]_reportVars => ReportInv'
    BY AgentStep, SendStep, ObserveStep, ListStep, PlaceStep, PendingStep, ReportStutters DEF ReportInv
  <1> QED BY <1>1, <1>2, PTL DEF ReportSpec

(***************************************************************************)
(* Types; and the report list never holds more than atiny_queue_rpt_data   *)
(* allows, also when the server deletes the instance and creates it anew.  *)
(***************************************************************************)
THEOREM ReportTypes == ReportSpec => []ReportTypeOK
  <1>1. ReportInv => ReportTypeOK
    <2> SUFFICES ASSUME ReportInv PROVE ReportTypeOK
      OBVIOUS
    <2>1. /\ \A u : u \in ToSet(observed) <=> Contains(observed, u)
          /\ IsInjective(observed)
      BY SetOfSeq DEF ReportInv, ObserveOK
    <2>2. active \subseteq ToSet(observed)
      BY <2>1 DEF ReportInv, ObserveOK
    <2>3. told \in [Reports -> 0 .. 2]
      <3>1. \A r \in Reports : told[r] \in 0 .. 2
        BY OneAtMost
      <3> QED BY <3>1 DEF ReportInv, PlaceOK
    <2>4. /\ transactions \subseteq [mid : Mids, retrans : 2 .. COAP_MAX_RETRANSMIT + 2,
                                     acked : BOOLEAN, live : BOOLEAN]
          /\ sent \subseteq Mids /\ dropped \subseteq Reports
      BY DEF ReportInv, SendOK, PlaceOK, Transactions
    <2>5. /\ observed \in Seq(URIs) /\ lastReport \in Reports \cup {0}
          /\ max_cnt \in {0, STORING_CNT, MAX_BUFFER_REPORT_CNT}
          /\ nodes \in Seq(Reports) /\ Len(nodes) <= max_cnt /\ accepted \in 0 .. MaxReports
      BY DEF ReportInv, ObserveOK, ListOK
    <2>6. AgentOK
      BY DEF ReportInv
    <2> QED BY <2>1, <2>2, <2>3, <2>4, <2>5, <2>6 DEF ReportTypeOK, AgentOK
  <1> QED BY <1>1, ReportInvariant, PTL

(***************************************************************************)
(* A report that atiny_data_report took is in the list, in one transaction,*)
(* told to the application once, or lost on the way to a transaction: no   *)
(* cancellation, reset, deletion or reconnect tells it twice or forgets it.*)
(***************************************************************************)
THEOREM EachReportOnce == ReportSpec => []ReportsConserved
  <1>1. ReportInv => ReportsConserved
    <2> SUFFICES ASSUME ReportInv, NEW r \in Reports
                 PROVE  Cardinality({i \in DOMAIN nodes : nodes[i] = r}) + Cardinality(Carriers(r))
                            + told[r] + (IF r \in dropped THEN 1 ELSE 0)
                        = IF r <= accepted THEN 1 ELSE 0
      BY DEF ReportsConserved
    <2>1. Cardinality({i \in DOMAIN nodes : nodes[i] = r}) = One(Listed(r))
      <3>1. DOMAIN nodes = 1 .. Len(nodes) /\ NoRepeat(nodes)
        BY DEF ReportInv, ListOK
      <3>2. CASE Listed(r)
        <4>1. PICK k \in 1 .. Len(nodes) : nodes[k] = r
          BY <3>2 DEF Listed, Contains
        <4>2. {i \in DOMAIN nodes : nodes[i] = r} = {k}
          BY <3>1, <4>1 DEF NoRepeat
        <4> QED BY <3>2, <4>2, FS_Singleton DEF One
      <3>3. CASE ~Listed(r)
        <4>1. {i \in DOMAIN nodes : nodes[i] = r} = {}
          BY <3>1, <3>3 DEF Listed, Contains
        <4> QED BY <3>3, <4>1, FS_EmptySet DEF One
      <3> QED BY <3>2, <3>3
    <2>2. Cardinality(Carriers(r)) = One(Carried(r))
      <3>1. CASE Carried(r)
        <4>1. PICK t \in transactions : t.mid = <<"notify", r>>
          BY <3>1 DEF Carried
        <4>2. Carriers(r) = {t}
          BY <4>1 DEF ReportInv, PlaceOK, OneCarrier, Kind, Carriers
        <4> QED BY <3>1, <4>2, FS_Singleton DEF One
      <3>2. CASE ~Carried(r)
        <4>1. Carriers(r) = {}
          BY <3>2 DEF Carriers, Carried
        <4> QED BY <3>2, <4>1, FS_EmptySet DEF One
      <3> QED BY <3>1, <3>2
    <2>3. One(Listed(r)) + One(Carried(r)) + told[r] + One(r \in dropped) = One(r <= accepted)
      BY DEF ReportInv, PlaceOK, OnePlace
    <2> QED BY <2>1, <2>2, <2>3 DEF One
  <1> QED BY <1>1, ReportInvariant, PTL

(***************************************************************************)
(* A registration or update that is pending has a transaction that will end*)
(* it, whatever older updates are still under way, time out or are answered*)
(* late (registration_step never waits for nothing).                       *)
(***************************************************************************)
THEOREM PendingAlwaysAwaited == ReportSpec => []PendingIsAwaited
  <1>1. ReportInv => PendingIsAwaited
    BY DEF ReportInv
  <1> QED BY <1>1, ReportInvariant, PTL

-----------------------------------------------------------------------------
(***************************************************************************)
(* The AT command framework: its types, the safety of its listeners and of *)
(* its answers, for any number of clients, commands, indications, failing  *)
(* allocations, any length of the receive queue and of the buffer.         *)
(*                                                                         *)
(* One fact carries the listeners: trx_mux is free, or one client has it   *)
(* and the only listener, or the receive task has a level of it for every  *)
(* callback, and one for every callback that could not be allocated.       *)
(* Answers need an account on top: the lines on their way and the tokens   *)
(* of resp_sem are together never more than what is waited for.            *)
(***************************************************************************)

(***************************************************************************)
(* Unexpired(l) is where a walk over l ends.                               *)
(***************************************************************************)
Picks(f, l, n) ==
    f = [k \in 0 .. n |->
            IF k = 0 THEN <<>>
            ELSE IF l[k].expired THEN f[k - 1] ELSE Append(f[k - 1], l[k])]

PickOne(l, k, s) == IF l[k].expired THEN s ELSE Append(s, l[k])

LEMMA PicksExist ==
    ASSUME NEW l, NEW n \in Nat
    PROVE  \E f : Picks(f, l, n)
  <1> DEFINE bad == {i \in Nat : \A f : ~Picks(f, l, i)}
  <1>1. ASSUME bad # {} PROVE FALSE
    <2>1. PICK p \in bad : \A r \in bad : p <= r
      BY <1>1, NatMinimum
    <2>2. CASE p = 0
      <3> DEFINE f == [k \in 0 .. 0 |-> <<>>]
      <3>1. f = [k \in 0 .. 0 |-> IF k = 0 THEN <<>>
                                  ELSE IF l[k].expired THEN f[k - 1] ELSE Append(f[k - 1], l[k])]
        OBVIOUS
      <3> HIDE DEF f
      <3>2. Picks(f, l, 0)
        BY <3>1 DEF Picks
      <3> QED BY <2>1, <2>2, <3>2
    <2>3. CASE p # 0
      <3>1. p - 1 \in Nat /\ p - 1 \notin bad
        BY <2>1, <2>3
      <3>2. PICK f : Picks(f, l, p - 1)
        BY <3>1
      <3> DEFINE g == [k \in 0 .. p |-> IF k < p THEN f[k] ELSE PickOne(l, p, f[p - 1])]
                 Next(k) == IF k = 0 THEN <<>>
                            ELSE IF l[k].expired THEN g[k - 1] ELSE Append(g[k - 1], l[k])
      <3>3. ASSUME NEW k \in 0 .. p
            PROVE  g[k] = Next(k)
        <4>1. CASE k < p
          <5>1. g[k] = f[k] /\ k \in 0 .. (p - 1)
            BY <2>1, <4>1
          <5>2. k # 0 => g[k - 1] = f[k - 1]
            BY <2>1, <4>1
          <5>3. f[k] = IF k = 0 THEN <<>>
                       ELSE IF l[k].expired THEN f[k - 1] ELSE Append(f[k - 1], l[k])
            BY <3>2, <5>1 DEF Picks
          <5> HIDE DEF g
          <5> QED BY <5>1, <5>2, <5>3
        <4>2. CASE k = p
          <5>1. g[k] = PickOne(l, p, f[p - 1]) /\ g[k - 1] = f[p - 1] /\ k # 0
            BY <2>1, <2>3, <4>2
          <5> HIDE DEF g
          <5> QED BY <4>2, <5>1 DEF PickOne
        <4> QED BY <2>1, <4>1, <4>2
      <3>4. g = [k \in 0 .. p |-> Next(k)]
        <4> DEFINE h == [k \in 0 .. p |-> Next(k)]
        <4>1. \A k \in 0 .. p : g[k] = h[k]
          BY <3>3
        <4>2. g = [k \in 0 .. p |-> g[k]]
          OBVIOUS
        <4>3. h = [k \in 0 .. p |-> h[k]]
          OBVIOUS
        <4> HIDE DEF g, h
        <4>4. g = h
          BY <4>1, <4>2, <4>3
        <4> QED BY <4>4 DEF h
      <3> HIDE DEF g
      <3>5. Picks(g, l, p)
        BY <3>4 DEF Picks
      <3> QED BY <2>1, <3>5
    <2> QED BY <2>2, <2>3
  <1> QED BY <1>1

LEMMA PicksEnd ==
    ASSUME NEW S, NEW l \in Seq(S)
    PROVE  \E f : /\ Unexpired(l) = f[Len(l)]
                  /\ f[0] = <<>>
                  /\ \A k \in 1 .. Len(l) : f[k] = PickOne(l, k, f[k - 1])
  <1> DEFINE f == CHOOSE g : Picks(g, l, Len(l))
  <1>1. Picks(f, l, Len(l))
    BY PicksExist
  <1>2. Unexpired(l) = f[Len(l)]
    BY DEF Unexpired, Picks
  <1> HIDE DEF f
  <1>3. f[0] = <<>> /\ \A k \in 1 .. Len(l) : f[k] = PickOne(l, k, f[k - 1])
    <2> DEFINE n == Len(l)
               r == [k \in 0 .. n |->
                        IF k = 0 THEN <<>>
                        ELSE IF l[k].expired THEN f[k - 1] ELSE Append(f[k - 1], l[k])]
    <2>1. n \in Nat
      OBVIOUS
    <2>2. f = r
      BY <1>1 DEF Picks
    <2> HIDE DEF n
    <2>3. r[0] = <<>>
      BY <2>1
    <2>4. ASSUME NEW k \in 1 .. n PROVE f[k] = PickOne(l, k, f[k - 1])
      <3>1. k \in 0 .. n /\ k # 0
        BY <2>1
      <3>2. r[k] = PickOne(l, k, f[k - 1])
        BY <3>1 DEF PickOne
      <3> HIDE DEF r
      <3> QED BY <2>2, <3>2
    <2> HIDE DEF r
    <2>5. f[0] = <<>>
      BY <2>2, <2>3
    <2> QED BY <2>4, <2>5 DEF n
  <1> QED BY <1>2, <1>3

(***************************************************************************)
(* What has not expired is a part of the list, all of it or a shorter one. *)
(***************************************************************************)
LEMMA UnexpiredFacts ==
    ASSUME NEW S, NEW l \in Seq(S)
    PROVE  /\ Unexpired(l) \in Seq(S) /\ Len(Unexpired(l)) <= Len(l)
           /\ \A j \in 1 .. Len(Unexpired(l)) : \E k \in 1 .. Len(l) : Unexpired(l)[j] = l[k]
           /\ l = <<>> => Unexpired(l) = <<>>
           /\ \A x : l = <<x>> /\ ~x.expired => Unexpired(l) = l
  <1> DEFINE n == Len(l)
  <1>1. PICK f : /\ Unexpired(l) = f[n] /\ f[0] = <<>>
                 /\ \A k \in 1 .. n : f[k] = PickOne(l, k, f[k - 1])
    BY PicksEnd
  <1>2. n \in Nat /\ \A k \in 1 .. n : l[k] \in S
    OBVIOUS
  <1> DEFINE P(k) == /\ f[k] \in Seq(S) /\ Len(f[k]) <= k
                     /\ \A j \in 1 .. Len(f[k]) : \E m \in 1 .. n : f[k][j] = l[m]
             bad == {k \in Nat : k <= n /\ ~P(k)}
  <1> HIDE DEF n
  <1>3. P(0)
    BY <1>1
  <1>4. ASSUME NEW k \in 1 .. n, P(k - 1) PROVE P(k)
    <2> DEFINE s == f[k - 1]
    <2>1. f[k] = s \/ f[k] = Append(s, l[k])
      BY <1>1 DEF PickOne
    <2>2. s \in Seq(S) /\ Len(s) <= k - 1 /\ \A j \in 1 .. Len(s) : \E m \in 1 .. n : s[j] = l[m]
      BY <1>4
    <2>3. k \in Nat /\ l[k] \in S
      BY <1>2
    <2> HIDE DEF s
    <2>4. CASE f[k] = s
      BY <1>2, <2>2, <2>3, <2>4
    <2>5. CASE f[k] = Append(s, l[k])
      <3> DEFINE a == Append(s, l[k])
      <3>1. a \in Seq(S) /\ Len(a) = Len(s) + 1 /\ a[Len(s) + 1] = l[k]
            /\ \A j \in 1 .. Len(s) : a[j] = s[j]
        BY <2>2, <2>3
      <3>2. Len(s) \in Nat
        BY <2>2
      <3> HIDE DEF a
      <3>3. \A j \in 1 .. Len(a) : j \in 1 .. Len(s) \/ j = Len(s) + 1
        BY <3>1, <3>2
      <3>4. \A j \in 1 .. Len(a) : \E m \in 1 .. n : a[j] = l[m]
        BY <2>2, <3>1, <3>3
      <3>5. Len(a) <= k
        BY <2>2, <2>3, <3>1, <3>2
      <3>6. f[k] = a
        BY <2>5 DEF a
      <3> QED BY <3>1, <3>4, <3>5, <3>6
    <2> QED BY <2>1, <2>4, <2>5
  <1>5. ASSUME bad # {} PROVE FALSE
    <2>0. bad \in SUBSET Nat
      OBVIOUS
    <2>1. PICK p \in bad : \A r \in bad : p <= r
      BY <1>5, <2>0, NatMinimum
    <2>2. p # 0
      BY <1>3, <2>1
    <2> HIDE DEF P
    <2>3. p \in 1 .. n /\ p - 1 \in Nat /\ p - 1 <= n /\ p - 1 \notin bad
      BY <1>2, <2>1, <2>2
    <2>4. P(p - 1)
      BY <2>3
    <2> QED BY <1>4, <2>1, <2>3, <2>4
  <1>6. P(n)
    <2> HIDE DEF P
    <2> QED BY <1>2, <1>5
  <1>7. l = <<>> => f[n] = <<>>
    BY <1>1 DEF n
  <1>8. ASSUME NEW x, l = <<x>>, ~x.expired PROVE f[n] = l
    <2>1. n = 1 /\ l[1] = x
      BY <1>8 DEF n
    <2>2. f[1] = PickOne(l, 1, f[1 - 1])
      BY <1>1, <2>1
    <2>3. f[1 - 1] = <<>>
      BY <1>1
    <2>4. f[1] = Append(<<>>, x)
      BY <1>8, <2>1, <2>2, <2>3, Zenon DEF PickOne
    <2> QED BY <1>8, <2>1, <2>4
  <1> QED BY <1>1, <1>6, <1>7, <1>8 DEF n

-----------------------------------------------------------------------------
(***************************************************************************)
(* What the receive task works on, and what always holds of it.            *)
(***************************************************************************)
Owners == Clients \cup {Recv, Nobody}

Listeners == [by : Clients \cup {Recv}, expired : BOOLEAN]

Views == [list : Seq(Listeners), trx : [owner : Owners, count : Nat], leaked : 0 .. MaxLeaks,
          valid : BOOLEAN, stale : BOOLEAN, tokens : Nat, sent : BOOLEAN]

TrxFits(l, x, k) ==
    /\ x.owner = Nobody <=> x.count = 0
    /\ x.owner = Nobody => l = <<>>
    /\ x.owner = Recv => (\A j \in 1 .. Len(l) : l[j].by = Recv) /\ x.count = Len(l) + k
    /\ x.owner # Recv => k = 0
    /\ x.owner \in Clients => x.count = 1 /\ l = <<ListenerOf(x.owner)>>

Holds(s) == s \in Views /\ TrxFits(s.list, s.trx, s.leaked)

(***************************************************************************)
(* From s to t nothing happens to a client that owns trx_mux; else trx_mux *)
(* gets a level for a command that is sent.                                *)
(***************************************************************************)
Sends(s) == IF s.sent THEN 1 ELSE 0

Follows(s, t) ==
    /\ t.tokens = s.tokens
    /\ s.trx.owner \in Clients \/ t.trx.owner \in Clients =>
           t.trx = s.trx /\ t.list = s.list /\ t.sent = s.sent
    /\ s.trx.owner \notin Clients =>
           s.trx.count - Sends(s) <= t.trx.count - Sends(t) /\ Sends(s) <= Sends(t)

LEMMA AtNames ==
    /\ Recv \notin Clients /\ Nobody \notin Clients /\ Recv # Nobody
    /\ MaxLeaks \in Nat /\ MaxCommands \in Nat /\ BUF \in Nat /\ BUF > 1 /\ RECV_QUEUE \in Nat \ {0}
  BY AtAssumption DEF Recv, Nobody

LEMMA FollowsItself ==
    ASSUME NEW s \in Views
    PROVE  Follows(s, s)
  <1>1. s.trx.count \in Nat /\ Sends(s) \in Nat
    BY DEF Views, Sends
  <1> QED BY <1>1 DEF Follows

LEMMA FollowsOn ==
    ASSUME NEW s \in Views, NEW t \in Views, NEW u \in Views, Follows(s, t), Follows(t, u)
    PROVE  Follows(s, u)
  <1>1. /\ s.trx.count \in Nat /\ Sends(s) \in Nat
        /\ t.trx.count \in Nat /\ Sends(t) \in Nat
        /\ u.trx.count \in Nat /\ Sends(u) \in Nat
    BY DEF Views, Sends
  <1>2. s.trx.owner \in Clients \/ u.trx.owner \in Clients =>
            u.trx = s.trx /\ u.list = s.list /\ u.sent = s.sent
    BY DEF Follows
  <1>3. ASSUME s.trx.owner \notin Clients
        PROVE  s.trx.count - Sends(s) <= u.trx.count - Sends(u) /\ Sends(s) <= Sends(u)
    <2>1. t.trx.owner \notin Clients
      BY <1>3 DEF Follows
    <2>2. s.trx.count - Sends(s) <= t.trx.count - Sends(t) /\ Sends(s) <= Sends(t)
      BY <1>3 DEF Follows
    <2>3. t.trx.count - Sends(t) <= u.trx.count - Sends(u) /\ Sends(t) <= Sends(u)
      BY <2>1 DEF Follows
    <2> QED BY <1>1, <2>2, <2>3
  <1> QED BY <1>2, <1>3 DEF Follows

LEMMA ReleasesNone ==
    ASSUME NEW x \in [owner : Owners, count : Nat], x.count = 0 => x.owner = Nobody
    PROVE  Released(x, 0) = x
  <1>1. x = [owner |-> x.owner, count |-> x.count] /\ x.count \in Nat
    OBVIOUS
  <1>2. CASE x.count = 0
    BY <1>1, <1>2 DEF Released
  <1>3. CASE x.count # 0
    <2>1. Released(x, 0) = [x EXCEPT !.count = x.count - 0]
      BY <1>3 DEF Released
    <2>2. x.count - 0 = x.count
      BY <1>1
    <2> QED BY <1>1, <2>1, <2>2
  <1> QED BY <1>2, <1>3

(***************************************************************************)
(* Expired callbacks go with their levels of trx_mux.                      *)
(***************************************************************************)
LEMMA TimeoutsHold ==
    ASSUME NEW s, Holds(s)
    PROVE  LET t == at_rm_timeout_nodes(s)
           IN  /\ Holds(t) /\ t.tokens = s.tokens /\ t.sent = s.sent
               /\ t.list = s.list => t = s
               /\ s.trx.owner \in Clients \/ t.trx.owner \in Clients => t = s
  <1> DEFINE l == s.list
             kept == Unexpired(l)
             n == Len(l) - Len(kept)
             x == Released(s.trx, n)
             t == [s EXCEPT !.list = kept, !.trx = x]
  <1>1. at_rm_timeout_nodes(s) = t
    BY DEF at_rm_timeout_nodes
  <1>2. /\ s \in Views /\ l \in Seq(Listeners) /\ s.trx \in [owner : Owners, count : Nat]
        /\ s.leaked \in Nat
    BY AtNames DEF Holds, TrxFits, Views
  <1>3. /\ t.list = kept /\ t.trx = x /\ t.leaked = s.leaked /\ t.valid = s.valid
        /\ t.tokens = s.tokens /\ t.sent = s.sent
    BY <1>2 DEF Views
  <1>4. /\ kept \in Seq(Listeners) /\ Len(kept) <= Len(l)
        /\ \A j \in 1 .. Len(kept) : \E k \in 1 .. Len(l) : kept[j] = l[k]
        /\ l = <<>> => kept = <<>>
        /\ \A y : l = <<y>> /\ ~y.expired => kept = l
    BY <1>2, UnexpiredFacts
  <1>5. Len(l) \in Nat /\ Len(kept) \in Nat /\ n \in Nat
    BY <1>2, <1>4
  <1>6. kept = l => t = s
    <2>1. kept = l => n = 0
      BY <1>5
    <2>2. kept = l => x = s.trx
      <3> SUFFICES ASSUME n = 0 PROVE x = s.trx
        BY <2>1
      <3>1. s.trx.count = 0 => s.trx.owner = Nobody
        BY DEF Holds, TrxFits
      <3>2. x = Released(s.trx, 0)
        OBVIOUS
      <3> QED BY <1>2, <3>1, <3>2, ReleasesNone
    <2>3. s = [s EXCEPT !.list = s.list, !.trx = s.trx]
      BY <1>2 DEF Views
    <2> HIDE DEF x
    <2> QED BY <2>2, <2>3
  <1> HIDE DEF kept, l
  <1>7. CASE s.trx.owner = Nobody
    <2>1. t = s
      BY <1>4, <1>6, <1>7 DEF Holds, TrxFits, l
    <2> QED BY <1>1, <2>1
  <1>8. CASE s.trx.owner \in Clients
    <2>1. l = <<ListenerOf(s.trx.owner)>> /\ ~ListenerOf(s.trx.owner).expired
      BY <1>8 DEF Holds, TrxFits, ListenerOf, l
    <2>2. kept = l
      BY <1>4, <2>1
    <2> QED BY <1>1, <1>6, <2>2
  <1>9. CASE s.trx.owner = Recv
    <2>1. /\ \A k \in 1 .. Len(l) : l[k].by = Recv
          /\ s.trx.count = Len(l) + s.leaked
      BY <1>9 DEF Holds, TrxFits, l
    <2>2. \A j \in 1 .. Len(kept) : kept[j].by = Recv
      BY <1>4, <2>1
    <2>3. CASE n = 0
      <3>1. x = s.trx /\ Len(kept) = Len(l)
        <4>1. s.trx.count = 0 => s.trx.owner = Nobody
          BY DEF Holds, TrxFits
        <4>2. x = Released(s.trx, 0)
          BY <2>3
        <4>3. x = s.trx
          BY <1>2, <4>1, <4>2, ReleasesNone
        <4> QED BY <1>5, <2>3, <4>3
      <3> HIDE DEF n, x
      <3>2. t.trx.owner = Recv /\ t.trx.count = Len(t.list) + t.leaked
        BY <1>3, <1>9, <2>1, <3>1
      <3>3. t \in Views
        BY <1>2, <1>4, <3>1 DEF Views
      <3>4. s.trx.count # 0
        BY <1>9, AtNames DEF Holds, TrxFits
      <3>5. Holds(t)
        BY <1>3, <1>9, <2>2, <3>1, <3>2, <3>3, <3>4, AtNames DEF Holds, TrxFits
      <3>6. t.trx.owner \notin Clients
        BY <3>2, AtNames
      <3> HIDE DEF t
      <3> QED BY <1>1, <1>3, <1>6, <1>9, <3>5, <3>6, AtNames DEF l
    <2>4. CASE n # 0 /\ s.trx.count = n
      <3>1. Len(kept) = 0 /\ s.leaked = 0
        BY <1>2, <1>5, <2>1, <2>4
      <3>2. kept = <<>>
        BY <1>4, <3>1
      <3>3. x = [owner |-> Nobody, count |-> 0]
        BY <2>4 DEF Released
      <3>4. kept # l
        BY <1>5, <2>4
      <3> HIDE DEF n, x
      <3>5. t \in Views
        <4>1. x \in [owner : Owners, count : Nat]
          BY <3>3 DEF Owners
        <4> QED BY <1>2, <1>4, <4>1 DEF Views
      <3>6. Holds(t)
        BY <1>3, <3>1, <3>2, <3>3, <3>5, AtNames DEF Holds, TrxFits
      <3>7. t.trx.owner \notin Clients
        BY <1>3, <3>3, AtNames
      <3> HIDE DEF t
      <3> QED BY <1>1, <1>3, <1>9, <3>4, <3>6, <3>7, AtNames DEF l
    <2>5. CASE n # 0 /\ s.trx.count # n
      <3>1. x = [s.trx EXCEPT !.count = @ - n]
        BY <2>5 DEF Released
      <3>2. x.owner = Recv /\ x.count = s.trx.count - n
        BY <1>2, <1>9, <3>1
      <3>3. kept # l
        BY <1>5, <2>5
      <3>4. s.trx.count - n = Len(kept) + s.leaked
        BY <1>2, <1>5, <2>1
      <3>5. s.trx.count - n \in Nat /\ s.trx.count - n # 0
        <4> DEFINE c == s.trx.count
        <4>1. c \in Nat /\ Len(kept) + s.leaked \in Nat
          BY <1>2, <1>5
        <4>2. n \in Nat /\ c # n /\ c - n = Len(kept) + s.leaked
          BY <1>5, <2>5, <3>4
        <4> HIDE DEF c, n
        <4>3. c - n \in Nat /\ c - n # 0
          BY <4>1, <4>2
        <4> QED BY <4>3 DEF c
      <3>6. x \in [owner : Owners, count : Nat]
        BY <1>2, <3>1, <3>5
      <3> HIDE DEF n, x
      <3>7. t \in Views
        BY <1>2, <1>4, <3>6 DEF Views
      <3>8. Holds(t)
        BY <1>3, <2>2, <3>2, <3>4, <3>5, <3>7, AtNames DEF Holds, TrxFits
      <3>9. t.trx.owner \notin Clients
        BY <1>3, <3>2, AtNames
      <3> HIDE DEF t
      <3> QED BY <1>1, <1>3, <1>9, <3>3, <3>8, <3>9, AtNames DEF l
    <2> QED BY <2>3, <2>4, <2>5
  <1>10. s.trx.owner \in Clients \cup {Recv, Nobody}
    BY <1>2 DEF Owners
  <1> QED BY <1>7, <1>8, <1>9, <1>10

(***************************************************************************)
(* An indication is put off, or the receive task asks for the data, with a *)
(* callback or without.                                                    *)
(***************************************************************************)
LEMMA NoticeHolds ==
    ASSUME NEW s, Holds(s), NEW t \in nb_cmd_rcv_data(s)
    PROVE  Holds(t) /\ Follows(s, t)
  <1> DEFINE x == [owner |-> Recv, count |-> s.trx.count + 1]
  <1>1. /\ s \in Views /\ s.list \in Seq(Listeners) /\ s.trx.count \in Nat /\ s.trx.owner \in Owners
        /\ s.leaked \in 0 .. MaxLeaks /\ Len(s.list) \in Nat
    BY DEF Holds, TrxFits, Views
  <1>2. CASE s.trx.owner \notin {Nobody, Recv}
    <2>1. t = [s EXCEPT !.valid = TRUE]
      BY <1>2 DEF nb_cmd_rcv_data
    <2>2. /\ t.list = s.list /\ t.trx = s.trx /\ t.leaked = s.leaked /\ t.tokens = s.tokens
          /\ t.sent = s.sent /\ t \in Views
      BY <1>1, <2>1 DEF Views
    <2>3. Holds(t)
      BY <2>2 DEF Holds, TrxFits
    <2>4. s.trx.owner \in Clients
      BY <1>1, <1>2 DEF Owners
    <2> QED BY <2>2, <2>3, <2>4 DEF Follows
  <1>3. CASE s.trx.owner \in {Nobody, Recv}
    <2>0. /\ s.trx.owner \notin Clients
          /\ \A k \in 1 .. Len(s.list) : s.list[k].by = Recv
          /\ s.trx.count = Len(s.list) + s.leaked
      BY <1>3, AtNames DEF Holds, TrxFits
    <2>1. x.owner = Recv /\ x.count = s.trx.count + 1 /\ x \in [owner : Owners, count : Nat]
      BY <1>1 DEF Owners
    <2>2. Sends(s) \in {0, 1}
      BY DEF Sends
    <2> HIDE DEF x
    <2>3. CASE t = [s EXCEPT !.trx = x, !.sent = TRUE, !.list = Append(@, CallbackListener(FALSE)), !.valid = FALSE]
      <3> DEFINE y == CallbackListener(FALSE)
                 l == s.list
                 a == Append(l, y)
      <3>1. y \in Listeners /\ y.by = Recv /\ l \in Seq(Listeners) /\ \A k \in 1 .. Len(l) : l[k].by = Recv
        BY <1>1, <2>0 DEF CallbackListener, Listeners
      <3> HIDE DEF y
      <3>2. a \in Seq(Listeners) /\ Len(a) = Len(l) + 1 /\ \A k \in 1 .. Len(a) : a[k].by = Recv
        <4> HIDE DEF l
        <4> QED BY <3>1
      <3> HIDE DEF a
      <3>3. /\ t.list = a /\ t.trx = x /\ t.leaked = s.leaked /\ t.tokens = s.tokens /\ t.sent = TRUE
            /\ t \in Views
        BY <1>1, <2>1, <2>3, <3>2 DEF Views, a, y
      <3>4. t.trx.count = Len(t.list) + t.leaked /\ t.trx.count # 0 /\ t.trx.owner = Recv
        <4>1. Len(a) = Len(s.list) + 1 /\ Len(s.list) \in Nat /\ s.leaked \in Nat
          BY <1>1, <3>2, AtNames
        <4> QED BY <2>0, <2>1, <3>3, <4>1
      <3>5. Holds(t)
        BY <3>2, <3>3, <3>4, AtNames DEF Holds, TrxFits
      <3>6. Sends(t) = 1
        BY <3>3 DEF Sends
      <3> QED BY <1>1, <2>0, <2>1, <2>2, <3>3, <3>4, <3>5, <3>6, AtNames DEF Follows
    <2>4. CASE /\ s.leaked < MaxLeaks
               /\ t = [s EXCEPT !.trx = x, !.sent = TRUE, !.leaked = @ + 1, !.valid = TRUE]
      <3>1. s.leaked + 1 \in 0 .. MaxLeaks
        BY <1>1, <2>4, AtNames
      <3>2. /\ t.list = s.list /\ t.trx = x /\ t.leaked = s.leaked + 1 /\ t.tokens = s.tokens
            /\ t.sent = TRUE /\ t \in Views
        BY <1>1, <2>1, <2>4, <3>1 DEF Views
      <3>3. t.trx.count = Len(t.list) + t.leaked /\ t.trx.count # 0 /\ t.trx.owner = Recv
        BY <1>1, <2>0, <2>1, <3>2
      <3>4. Holds(t)
        BY <2>0, <3>2, <3>3, AtNames DEF Holds, TrxFits
      <3>5. Sends(t) = 1
        BY <3>2 DEF Sends
      <3> QED BY <1>1, <2>0, <2>1, <2>2, <3>2, <3>3, <3>4, <3>5, AtNames DEF Follows
    <2> QED
      <3> DEFINE u == [s EXCEPT !.trx = x, !.sent = TRUE]
      <3>1. s.trx.owner \notin {Nobody, Recv} <=> FALSE
        BY <1>3
      <3>2. \/ t = [u EXCEPT !.list = Append(@, CallbackListener(FALSE)), !.valid = FALSE]
            \/ s.leaked < MaxLeaks /\ t = [u EXCEPT !.leaked = @ + 1, !.valid = TRUE]
        BY <3>1 DEF nb_cmd_rcv_data, x
      <3>3. u.list = s.list /\ u.leaked = s.leaked
        BY <1>1 DEF Views
      <3>4. [u EXCEPT !.list = Append(@, CallbackListener(FALSE)), !.valid = FALSE]
            = [s EXCEPT !.trx = x, !.sent = TRUE, !.list = Append(@, CallbackListener(FALSE)), !.valid = FALSE]
        BY <1>1, <3>3 DEF Views
      <3>5. [u EXCEPT !.leaked = @ + 1, !.valid = TRUE]
            = [s EXCEPT !.trx = x, !.sent = TRUE, !.leaked = @ + 1, !.valid = TRUE]
        BY <1>1, <3>3 DEF Views
      <3> HIDE DEF u
      <3> QED BY <2>3, <2>4, <3>2, <3>4, <3>5
  <1> QED BY <1>2, <1>3

LEMMA NoticesHold ==
    ASSUME NEW s, Holds(s), NEW text, NEW t \in nb_step(s), NEW u \in nb_cmd_match(t, text)
    PROVE  Holds(u) /\ Follows(s, u)
  <1>1. Holds(t) /\ Follows(s, t)
    BY NoticeHolds, FollowsItself DEF nb_step, Holds
  <1> DEFINE v == [t EXCEPT !.stale = FALSE]
  <1>2. v \in Views /\ v.list = t.list /\ v.trx = t.trx /\ v.leaked = t.leaked /\ v.tokens = t.tokens /\ v.sent = t.sent
    BY <1>1 DEF Holds, Views
  <1>3. Holds(v)
    BY <1>1, <1>2 DEF Holds
  <1> HIDE DEF v
  <1>4. u = t \/ u \in nb_cmd_rcv_data(v)
    BY DEF nb_cmd_match, v
  <1>5. Holds(u) /\ Follows(t, u)
    <2>1. CASE u = t
      BY <1>1, <2>1, FollowsItself DEF Holds
    <2>2. CASE u \in nb_cmd_rcv_data(v)
      <3>1. Holds(u) /\ Follows(v, u)
        BY <1>3, <2>2, NoticeHolds
      <3>2. Sends(v) = Sends(t)
        BY <1>2 DEF Sends
      <3> QED BY <3>1, <3>2, <1>2 DEF Follows
    <2> QED BY <1>4, <2>1, <2>2
  <1> QED BY <1>1, <1>5, FollowsOn DEF Holds, TrxFits

(***************************************************************************)
(* The response goes to the head of the list: a callback that takes it is  *)
(* removed with its level of trx_mux, else resp_sem may get a token.       *)
(***************************************************************************)
LEMMA RespHolds ==
    ASSUME NEW s, Holds(s), NEW text
    PROVE  LET e == at_handle_resp(s, text)
           IN  /\ Holds(e) /\ e.sent = s.sent /\ e.leaked = s.leaked
               /\ CallbackTakes(s, text) =>
                      /\ s.trx.owner = Recv /\ e.trx.owner \in {Recv, Nobody}
                      /\ e.trx.count = s.trx.count - 1 /\ e.tokens = s.tokens
               /\ ~CallbackTakes(s, text) => e.trx = s.trx /\ e.list = s.list
               /\ (\E c \in Clients : Answered(s, text, c)) => e.tokens = s.tokens + 1
               /\ (~CallbackRefuses(s, text) /\ ~ \E c \in Clients : Answered(s, text, c)) => e.tokens = s.tokens
               /\ \A c \in Clients : Answered(s, text, c) => s.trx.owner = c
  <1> DEFINE e == at_handle_resp(s, text)
             l == s.list
  <1>1. /\ s \in Views /\ l \in Seq(Listeners) /\ s.trx \in [owner : Owners, count : Nat]
        /\ s.leaked \in Nat /\ s.tokens \in Nat
    BY AtNames DEF Holds, TrxFits, Views
  <1>2. ASSUME l # <<>>
        PROVE  /\ Head(l) = l[1] /\ 1 \in 1 .. Len(l)
               /\ s.trx.owner = Recv \/ (s.trx.owner \in Clients /\ l[1].by = s.trx.owner)
    <2>1. s.trx.owner \in Clients \/ s.trx.owner = Recv
      BY <1>1, <1>2 DEF Owners, Holds, TrxFits
    <2>2. s.trx.owner \in Clients => l[1].by = s.trx.owner
      BY DEF Holds, TrxFits, ListenerOf
    <2> QED BY <1>1, <1>2, <2>1, <2>2
  <1>3. \A c \in Clients : Answered(s, text, c) => s.trx.owner = c /\ ~CallbackTakes(s, text) /\ ~CallbackRefuses(s, text)
    <2> SUFFICES ASSUME NEW c \in Clients, Answered(s, text, c)
                 PROVE  s.trx.owner = c /\ Head(l).by # Recv
      BY DEF CallbackTakes, CallbackRefuses
    <2>1. l # <<>> /\ Head(l).by = c
      BY DEF Answered
    <2>2. s.trx.owner # Recv
      BY <1>2, <2>1, AtNames DEF Holds, TrxFits
    <2> QED BY <1>2, <2>1, <2>2, AtNames
  <1>4. CASE CallbackTakes(s, text)
    <2>1. l # <<>> /\ Head(l).by = Recv
      BY <1>4 DEF CallbackTakes
    <2>2. s.trx.owner = Recv
      BY <1>2, <2>1, AtNames
    <2> DEFINE r == Tail(l)
               x == Released(s.trx, 1)
    <2>3. e = [s EXCEPT !.list = r, !.trx = x]
      BY <1>4 DEF at_handle_resp
    <2>4. /\ \A k \in 1 .. Len(l) : l[k].by = Recv
          /\ s.trx.count = Len(l) + s.leaked
      BY <2>2 DEF Holds, TrxFits
    <2>5. /\ r \in Seq(Listeners) /\ Len(r) = Len(l) - 1 /\ Len(r) \in Nat
          /\ \A k \in 1 .. Len(r) : r[k] = l[k + 1] /\ k + 1 \in 1 .. Len(l)
      BY <1>1, <2>1
    <2>6. /\ x \in [owner : Owners, count : Nat] /\ x.count = s.trx.count - 1
          /\ x.owner = IF s.trx.count = 1 THEN Nobody ELSE Recv
      <3>1. s.trx.count \in Nat /\ s.trx.count # 0
        BY <1>1, <2>2, AtNames DEF Holds, TrxFits
      <3>2. CASE s.trx.count = 1
        <4>1. x = [owner |-> Nobody, count |-> 0]
          BY <3>2 DEF Released
        <4> HIDE DEF x
        <4> QED BY <3>2, <4>1 DEF Owners
      <3>3. CASE s.trx.count # 1
        <4>1. x = [s.trx EXCEPT !.count = s.trx.count - 1]
          BY <3>3 DEF Released
        <4>2. s.trx.count - 1 \in Nat
          BY <3>1
        <4> HIDE DEF x
        <4> QED BY <1>1, <2>2, <3>3, <4>1, <4>2
      <3> QED BY <3>2, <3>3
    <2>7. Len(l) \in Nat
      BY <1>1
    <2> HIDE DEF r, x, l, e
    <2>8. /\ e.list = r /\ e.trx = x /\ e.leaked = s.leaked /\ e.tokens = s.tokens /\ e.sent = s.sent
          /\ e \in Views
      BY <1>1, <2>3, <2>5, <2>6 DEF Views
    <2>9. x.count = Len(r) + s.leaked
      BY <1>1, <2>4, <2>5, <2>6, <2>7
    <2>10. TrxFits(r, x, s.leaked)
      <3>1. CASE s.trx.count = 1
        <4>1. x.count = 0 /\ x.owner = Nobody
          BY <2>6, <3>1
        <4>2. Len(r) = 0 /\ s.leaked = 0
          BY <1>1, <2>5, <2>9, <4>1
        <4>3. r = <<>>
          BY <2>5, <4>2
        <4> QED BY <4>1, <4>2, <4>3, AtNames DEF TrxFits
      <3>2. CASE s.trx.count # 1
        <4>1. x.owner = Recv /\ x.count # 0
          BY <1>1, <2>6, <3>2
        <4>2. \A k \in 1 .. Len(r) : r[k].by = Recv
          BY <2>4, <2>5
        <4> QED BY <2>9, <4>1, <4>2, AtNames DEF TrxFits
      <3> QED BY <3>1, <3>2
    <2>11. Holds(e)
      BY <2>8, <2>10 DEF Holds
    <2>12. x.owner \in {Recv, Nobody}
      BY <2>6
    <2> QED BY <1>3, <1>4, <2>2, <2>6, <2>8, <2>11, <2>12 DEF e
  <1>5. CASE ~CallbackTakes(s, text)
    <2> DEFINE more == CallbackRefuses(s, text) \/ \E c \in Clients : Answered(s, text, c)
    <2>1. e = IF more THEN [s EXCEPT !.tokens = s.tokens + 1] ELSE s
      BY <1>5 DEF at_handle_resp
    <2> HIDE DEF e
    <2>2. CASE more
      <3>1. /\ e.list = s.list /\ e.trx = s.trx /\ e.leaked = s.leaked /\ e.tokens = s.tokens + 1 /\ e.sent = s.sent
            /\ e \in Views
        BY <1>1, <2>1, <2>2 DEF Views
      <3>2. Holds(e)
        BY <3>1 DEF Holds
      <3> QED BY <1>3, <1>5, <2>2, <3>1, <3>2 DEF e
    <2>3. CASE ~more
      <3>1. e = s
        BY <2>1, <2>3
      <3> QED BY <1>3, <1>5, <2>3, <3>1 DEF e
    <2> QED BY <2>2, <2>3
  <1> QED BY <1>4, <1>5

-----------------------------------------------------------------------------
(***************************************************************************)
(* The cells of the receive buffer, a ring.                                *)
(***************************************************************************)
Ring == 0 .. BUF - 1

NextCell(w) == (w + 1) % BUF

LEMMA NextCellIs ==
    ASSUME NEW w \in Ring
    PROVE  NextCell(w) = (IF w + 1 = BUF THEN 0 ELSE w + 1) /\ NextCell(w) \in Ring
  <1>0. BUF \in Nat \ {0} /\ w \in Nat
    BY AtNames DEF Ring
  <1>1. CASE w + 1 = BUF
    <2>1. (BUF * 1 + 0) % BUF = 0
      BY <1>0, Remainder
    <2>2. BUF * 1 + 0 = w + 1
      BY <1>0, <1>1
    <2>3. NextCell(w) = 0
      BY <2>1, <2>2 DEF NextCell
    <2> QED BY <1>0, <1>1, <2>3 DEF Ring
  <1>2. CASE w + 1 # BUF
    <2>1. w + 1 \in 0 .. BUF - 1
      BY <1>0, <1>2 DEF Ring
    <2>2. (BUF * 0 + (w + 1)) % BUF = w + 1
      BY <1>0, <2>1, Remainder
    <2>3. BUF * 0 + (w + 1) = w + 1
      BY <1>0
    <2>4. NextCell(w) = w + 1
      BY <2>2, <2>3 DEF NextCell
    <2> QED BY <1>2, <2>1, <2>4 DEF Ring
  <1> QED BY <1>1, <1>2

LEMMA CellsFacts ==
    ASSUME NEW r \in Ring, NEW w \in Ring
    PROVE  /\ Cells(r, w) \subseteq Ring /\ Cells(w, w) = {}
           /\ Cells(r, NextCell(w)) \subseteq Cells(r, w) \cup {w}
           /\ r # NextCell(w) => w \in Cells(r, NextCell(w))
           /\ r # w => r \in Cells(r, w)
  <1>0. BUF \in Nat /\ BUF > 1 /\ r \in 0 .. BUF - 1 /\ w \in 0 .. BUF - 1
    BY AtNames DEF Ring
  <1>1. Cells(r, w) \subseteq Ring
    BY DEF Cells, Ring
  <1>2. Cells(w, w) = {}
    BY <1>0 DEF Cells
  <1>3. ASSUME NEW i \in Cells(r, NextCell(w)) PROVE i \in Cells(r, w) \cup {w}
    BY <1>0, <1>3, NextCellIs DEF Cells
  <1>4. r # NextCell(w) => w \in Cells(r, NextCell(w))
    BY <1>0, NextCellIs DEF Cells
  <1>5. r # w => r \in Cells(r, w)
    BY <1>0 DEF Cells
  <1> QED BY <1>1, <1>2, <1>3, <1>4, <1>5

-----------------------------------------------------------------------------
(***************************************************************************)
(* The inductive invariant for types and listeners.  A client between the  *)
(* start of its command and the deletion of its listener owns trx_mux.     *)
(***************************************************************************)
Busy == Waiting \cup {"prompted", "answered", "timedout"}

Stages == {"idle", "calling", "prompt", "prompted", "wait", "answered", "timedout", "released",
           "returned"}

RecvMessages == [type : {"SENT_DONE"}] \cup [type : {"RX"}, ori : Ring, end : Ring]

IsRX(m) == m.type = "RX"

ClientFit ==
    /\ stage \in [Clients -> Stages]
    /\ cmd \in [Clients -> 0 .. MaxCommands] /\ issued \in 0 .. MaxCommands
    /\ \A c \in Clients : stage[c] \in Busy <=> trx.owner = c

HistoryFit == own \in [Clients -> BOOLEAN] /\ mixed \in BOOLEAN /\ okWithout \in BOOLEAN

ListFit ==
    /\ list \in Seq(Listeners) /\ trx \in [owner : Owners, count : Nat]
    /\ leaked \in 0 .. MaxLeaks /\ valid \in BOOLEAN /\ stale \in BOOLEAN /\ tokens \in Nat
    /\ TrxFits(list, trx, leaked)

RxFit ==
    /\ queue \in Seq(RecvMessages) /\ Len(queue) <= RECV_QUEUE
    /\ DOMAIN rx = Readable(queue, ri, wi) /\ \A i \in DOMAIN rx : rx[i] \in Lines
    /\ wi \in Ring /\ wi_bak \in Ring /\ ri \in Ring

AtFit == ClientFit /\ HistoryFit /\ ListFit /\ RxFit /\ modem \in Seq(Lines)

(***************************************************************************)
(* Which cells are readable, cell by cell.                                 *)
(***************************************************************************)
LEMMA ReadableIs ==
    ASSUME NEW q \in Seq(RecvMessages), NEW r \in Ring, NEW w \in Ring
    PROVE  /\ \A i : i \in Readable(q, r, w) <=>
                  \/ i \in Cells(r, w)
                  \/ \E k \in 1 .. Len(q) : IsRX(q[k]) /\ (i \in Cells(q[k].ori, q[k].end) \/ i \in Cells(q[k].end, w))
           /\ \A k \in 1 .. Len(q) : /\ q[k] \in RecvMessages
                                     /\ IsRX(q[k]) => q[k].ori \in Ring /\ q[k].end \in Ring
           /\ Readable(q, r, w) \subseteq Ring
  <1>1. \A k \in 1 .. Len(q) : q[k] \in RecvMessages
    OBVIOUS
  <1>2. \A m \in RecvMessages : IsRX(m) => m.ori \in Ring /\ m.end \in Ring
    BY DEF RecvMessages, IsRX
  <1>3. \A i : i \in Readable(q, r, w) <=>
                  \/ i \in Cells(r, w)
                  \/ \E k \in 1 .. Len(q) : IsRX(q[k]) /\ (i \in Cells(q[k].ori, q[k].end) \/ i \in Cells(q[k].end, w))
    BY DEF Readable, MessageCells, IsRX
  <1>4. \A x, y : Cells(x, y) \subseteq Ring
    BY DEF Cells, Ring
  <1> QED BY <1>1, <1>2, <1>3, <1>4

(***************************************************************************)
(* A message is queued, or lost because the queue is full.                 *)
(***************************************************************************)
LEMMA QueuedFacts ==
    ASSUME NEW q \in Seq(RecvMessages), Len(q) <= RECV_QUEUE, q = queue, NEW m \in RecvMessages
    PROVE  /\ Queued(m) \in Seq(RecvMessages) /\ Len(Queued(m)) <= RECV_QUEUE
           /\ Queued(m) = q \/ Queued(m) = Append(q, m)
           /\ \A k \in 1 .. Len(Queued(m)) :
                  (k \in 1 .. Len(q) /\ Queued(m)[k] = q[k]) \/ (k = Len(q) + 1 /\ Queued(m)[k] = m)
           /\ \A k \in 1 .. Len(q) : k \in 1 .. Len(Queued(m)) /\ Queued(m)[k] = q[k]
  <1> DEFINE a == Append(q, m)
  <1>1. a \in Seq(RecvMessages) /\ Len(a) = Len(q) + 1 /\ a[Len(q) + 1] = m /\ \A k \in 1 .. Len(q) : a[k] = q[k]
    OBVIOUS
  <1>2. Len(q) \in Nat /\ RECV_QUEUE \in Nat
    BY AtNames
  <1>3. Queued(m) = IF Len(q) < RECV_QUEUE THEN a ELSE q
    BY DEF Queued
  <1> HIDE DEF a
  <1>4. CASE Len(q) < RECV_QUEUE
    <2>1. Queued(m) = a
      BY <1>3, <1>4
    <2>2. \A k \in 1 .. Len(a) : k \in 1 .. Len(q) \/ k = Len(q) + 1
      BY <1>1, <1>2
    <2>3. \A k \in 1 .. Len(q) : k \in 1 .. Len(a)
      BY <1>1, <1>2
    <2>4. Len(a) <= RECV_QUEUE
      BY <1>1, <1>2, <1>4
    <2> QED BY <1>1, <2>1, <2>2, <2>3, <2>4 DEF a
  <1>5. CASE ~(Len(q) < RECV_QUEUE)
    BY <1>3, <1>5
  <1> QED BY <1>4, <1>5

(***************************************************************************)
(* A message that refers to no cell changes nothing that can be read.      *)
(***************************************************************************)
LEMMA SentDoneReads ==
    ASSUME RxFit
    PROVE  LET m == [type |-> "SENT_DONE"]
           IN  Queued(m) \in Seq(RecvMessages) /\ Len(Queued(m)) <= RECV_QUEUE
               /\ Readable(Queued(m), ri, wi) = Readable(queue, ri, wi)
  <1> DEFINE m == [type |-> "SENT_DONE"]
             q == queue
             p == Queued(m)
  <1>1. m \in RecvMessages /\ ~IsRX(m)
    BY DEF RecvMessages, IsRX
  <1>2. q \in Seq(RecvMessages) /\ Len(q) <= RECV_QUEUE /\ ri \in Ring /\ wi \in Ring
    BY DEF RxFit
  <1> HIDE DEF m
  <1>3. /\ p \in Seq(RecvMessages) /\ Len(p) <= RECV_QUEUE
        /\ \A k \in 1 .. Len(p) : (k \in 1 .. Len(q) /\ p[k] = q[k]) \/ (k = Len(q) + 1 /\ p[k] = m)
        /\ \A k \in 1 .. Len(q) : k \in 1 .. Len(p) /\ p[k] = q[k]
    BY <1>1, <1>2, QueuedFacts
  <1> HIDE DEF p, q
  <1>4. \A i : i \in Readable(p, ri, wi) <=> i \in Readable(q, ri, wi)
    BY <1>1, <1>2, <1>3, ReadableIs
  <1>5. Readable(p, ri, wi) = Readable(q, ri, wi)
    BY <1>4
  <1> QED BY <1>3, <1>5 DEF m, p, q

-----------------------------------------------------------------------------
(***************************************************************************)
(* The clients' steps keep AtFit.                                          *)
(***************************************************************************)
LEMMA OwnListener ==
    ASSUME ListFit, NEW c \in Clients, trx.owner = c
    PROVE  /\ list = <<ListenerOf(c)>> /\ trx.count = 1 /\ leaked = 0
           /\ at_listner_list_del(ListenerOf(c)) = <<>>
           /\ Released(trx, 1) = [owner |-> Nobody, count |-> 0]
  <1>1. list = <<ListenerOf(c)>> /\ trx.count = 1 /\ leaked = 0
    BY AtNames DEF ListFit, TrxFits
  <1>2. Released(trx, 1) = [owner |-> Nobody, count |-> 0]
    BY <1>1 DEF Released
  <1>3. at_listner_list_del(ListenerOf(c)) = <<>>
    <2> DEFINE p == ListenerOf(c)
    <2>1. list # <<>> /\ list[1] = p /\ Tail(list) = <<>>
      BY <1>1
    <2> HIDE DEF p
    <2>2. at_listner_list_del(p) = Tail(list)
      BY <2>1 DEF at_listner_list_del
    <2> QED BY <2>1, <2>2 DEF p
  <1> QED BY <1>1, <1>2, <1>3

LEMMA CallsFit ==
    ASSUME AtFit, NEW c \in Clients, Calls(c)
    PROVE  AtFit'
  <1>1. /\ stage[c] = "idle" /\ issued < MaxCommands /\ issued' = issued + 1
        /\ cmd' = [cmd EXCEPT ![c] = issued + 1] /\ own' = [own EXCEPT ![c] = FALSE]
        /\ stage' = [stage EXCEPT ![c] = "calling"]
        /\ UNCHANGED <<list, trx, tokens, leaked, valid, stale, rx, wi, wi_bak, ri, queue, modem, mixed, okWithout>>
    BY DEF Calls, listenerVars, indVars, sockVars, rxVars
  <1>2. ListFit' /\ RxFit' /\ (modem \in Seq(Lines))'
    BY <1>1 DEF AtFit, ListFit, RxFit
  <1>3. HistoryFit'
    BY <1>1 DEF AtFit, HistoryFit
  <1>4. ClientFit'
    <2>1. issued + 1 \in 0 .. MaxCommands
      BY <1>1, AtNames DEF AtFit, ClientFit
    <2> QED BY <1>1, <2>1 DEF AtFit, ClientFit, Stages, Busy, Waiting
  <1> QED BY <1>2, <1>3, <1>4 DEF AtFit

LEMMA BeginFit ==
    ASSUME AtFit, NEW c \in Clients, NEW to \in Waiting, NEW line \in {"OK", ">"}, Begin(c, to, line)
    PROVE  AtFit'
  <1>1. /\ stage[c] = "calling" /\ trx.owner = Nobody /\ trx' = [owner |-> c, count |-> 1]
        /\ list' = Append(list, ListenerOf(c)) /\ modem' = Append(modem, Line(line, cmd[c]))
        /\ stage' = [stage EXCEPT ![c] = to]
        /\ UNCHANGED <<tokens, cmd, issued, leaked, valid, stale, rx, wi, wi_bak, ri, queue, own, mixed, okWithout>>
    BY DEF Begin, indVars, sockVars, rxVars, atHistory
  <1>2. RxFit' /\ HistoryFit'
    BY <1>1 DEF AtFit, RxFit, HistoryFit
  <1>3. list = <<>> /\ leaked = 0
    BY <1>1, AtNames DEF AtFit, ListFit, TrxFits
  <1>4. list' = <<ListenerOf(c)>>
    BY <1>1, <1>3
  <1>5. ListFit'
    <2>1. ListenerOf(c) \in Listeners
      BY DEF ListenerOf, Listeners
    <2>2. list' \in Seq(Listeners) /\ trx' \in [owner : Owners, count : Nat]
      BY <1>1, <1>4, <2>1 DEF Owners
    <2>3. TrxFits(list', trx', leaked')
      BY <1>1, <1>3, <1>4, AtNames DEF TrxFits
    <2> QED BY <1>1, <2>2, <2>3 DEF AtFit, ListFit
  <1>6. (modem \in Seq(Lines))'
    <2>1. Line(line, cmd[c]) \in Lines
      BY DEF AtFit, ClientFit, Line, Lines
    <2> QED BY <1>1, <2>1 DEF AtFit
  <1>7. ClientFit'
    <2>1. \A d \in Clients : trx.owner # d
      BY <1>1, AtNames
    <2>2. \A d \in Clients : trx'.owner = d <=> d = c
      BY <1>1
    <2> QED BY <1>1, <2>1, <2>2 DEF AtFit, ClientFit, Stages, Busy, Waiting
  <1> QED BY <1>2, <1>5, <1>6, <1>7 DEF AtFit

(***************************************************************************)
(* A client that stays within its command.                                 *)
(***************************************************************************)
LEMMA StaysBusy ==
    ASSUME ClientFit, NEW c \in Clients, NEW to \in Busy, stage[c] \in Busy,
           stage' = [stage EXCEPT ![c] = to], UNCHANGED <<cmd, issued, trx>>
    PROVE  ClientFit'
  BY DEF ClientFit, Busy, Waiting, Stages

(***************************************************************************)
(* A client that is done with its command.                                 *)
(***************************************************************************)
LEMMA Outside ==
    ASSUME ClientFit, NEW c \in Clients, NEW to \in {"idle", "returned"},
           stage[c] \in {"released", "returned"},
           stage' = [stage EXCEPT ![c] = to], UNCHANGED <<cmd, issued, trx>>
    PROVE  ClientFit'
  BY DEF ClientFit, Busy, Waiting, Stages

LEMMA MixesFit ==
    ASSUME HistoryFit, NEW cond, Mixes(cond), UNCHANGED okWithout
    PROVE  HistoryFit'
  <1>1. mixed' \in BOOLEAN
    BY DEF Mixes
  <1>2. own' = [c \in Clients |-> FALSE] \/ own' = own
    BY DEF Mixes
  <1>3. own' \in [Clients -> BOOLEAN]
    BY <1>2 DEF HistoryFit
  <1> QED BY <1>1, <1>3 DEF HistoryFit

LEMMA ProceedsFit ==
    ASSUME AtFit, NEW c \in Clients, Proceeds(c)
    PROVE  AtFit'
  <1>1. CASE RespSemTaken(c)
    <2>1. /\ stage[c] \in Waiting /\ tokens > 0 /\ tokens' = tokens - 1
          /\ stage' = [stage EXCEPT ![c] = IF stage[c] = "prompt" THEN "prompted" ELSE "answered"]
          /\ UNCHANGED <<list, trx, cmd, issued, leaked, valid, stale, rx, wi, wi_bak, ri, queue, modem, own, mixed, okWithout>>
      BY <1>1 DEF RespSemTaken, indVars, sockVars, rxVars, atHistory
    <2>2. ClientFit'
      <3> DEFINE to == IF stage[c] = "prompt" THEN "prompted" ELSE "answered"
      <3>1. to \in Busy /\ stage[c] \in Busy
        BY <2>1 DEF Busy
      <3> HIDE DEF to
      <3>2. stage' = [stage EXCEPT ![c] = to]
        BY <2>1 DEF to
      <3> QED BY <2>1, <3>1, <3>2, StaysBusy DEF AtFit
    <2>3. tokens' \in Nat
      BY <2>1 DEF AtFit, ListFit
    <2> QED BY <2>1, <2>2, <2>3 DEF AtFit, HistoryFit, ListFit, RxFit
  <1>2. CASE RespSemTimeout(c)
    <2>1. /\ stage[c] \in Waiting /\ Mixes(TRUE)
          /\ stage' = [stage EXCEPT ![c] = IF stage[c] = "prompt" THEN "prompted" ELSE "timedout"]
          /\ UNCHANGED <<list, trx, tokens, cmd, issued, leaked, valid, stale, rx, wi, wi_bak, ri, queue, modem, okWithout>>
      BY <1>2 DEF RespSemTimeout, listenerVars, indVars, sockVars, rxVars
    <2>2. ClientFit'
      <3> DEFINE to == IF stage[c] = "prompt" THEN "prompted" ELSE "timedout"
      <3>1. to \in Busy /\ stage[c] \in Busy
        BY <2>1 DEF Busy
      <3> HIDE DEF to
      <3>2. stage' = [stage EXCEPT ![c] = to]
        BY <2>1 DEF to
      <3> QED BY <2>1, <3>1, <3>2, StaysBusy DEF AtFit
    <2>3. HistoryFit'
      BY <2>1, MixesFit DEF AtFit
    <2> QED BY <2>1, <2>2, <2>3 DEF AtFit, ListFit, RxFit
  <1>3. CASE WriteData(c)
    <2>1. /\ stage[c] = "prompted"
          /\ list' = Append(at_listner_list_del(ListenerOf(c)), ListenerOf(c))
          /\ modem' = Append(modem, Line("OK", cmd[c]))
          /\ stage' = [stage EXCEPT ![c] = "wait"]
          /\ UNCHANGED <<tokens, trx, cmd, issued, leaked, valid, stale, rx, wi, wi_bak, ri, queue, own, mixed, okWithout>>
      BY <1>3 DEF WriteData, indVars, sockVars, rxVars, atHistory
    <2>2. trx.owner = c
      BY <2>1 DEF AtFit, ClientFit, Busy
    <2>3. list' = <<ListenerOf(c)>> /\ list = <<ListenerOf(c)>>
      <3>1. list = <<ListenerOf(c)>> /\ at_listner_list_del(ListenerOf(c)) = <<>>
        BY <2>2, OwnListener DEF AtFit
      <3> QED BY <2>1, <3>1
    <2>4. ClientFit'
      BY <2>1, StaysBusy DEF AtFit, Busy, Waiting
    <2>5. Line("OK", cmd[c]) \in Lines
      BY DEF AtFit, ClientFit, Line, Lines
    <2>6. (modem \in Seq(Lines))'
      BY <2>1, <2>5 DEF AtFit
    <2> QED BY <2>1, <2>3, <2>4, <2>6 DEF AtFit, HistoryFit, ListFit, RxFit
  <1>4. CASE Releases(c)
    <2>1. /\ stage[c] \in {"answered", "timedout"}
          /\ list' = at_listner_list_del(ListenerOf(c)) /\ trx' = Released(trx, 1)
          /\ okWithout' = (okWithout \/ (stage[c] = "answered" /\ ~own[c] /\ ~mixed))
          /\ own' = [own EXCEPT ![c] = FALSE] /\ stage' = [stage EXCEPT ![c] = "released"]
          /\ UNCHANGED <<tokens, cmd, issued, leaked, valid, stale, rx, wi, wi_bak, ri, queue, modem, mixed>>
      BY <1>4 DEF Releases, indVars, sockVars, rxVars
    <2>2. trx.owner = c
      BY <2>1 DEF AtFit, ClientFit, Busy
    <2>3. list' = <<>> /\ trx' = [owner |-> Nobody, count |-> 0] /\ leaked = 0
      BY <2>1, <2>2, OwnListener DEF AtFit
    <2>4. ListFit'
      <3>1. TrxFits(list', trx', leaked')
        BY <2>1, <2>3, AtNames DEF TrxFits
      <3>2. list' \in Seq(Listeners) /\ trx' \in [owner : Owners, count : Nat]
        BY <2>3 DEF Owners
      <3> QED BY <2>1, <3>1, <3>2 DEF AtFit, ListFit
    <2>5. HistoryFit'
      <3>1. okWithout' \in BOOLEAN
        BY <2>1
      <3>2. own' \in [Clients -> BOOLEAN]
        BY <2>1 DEF AtFit, HistoryFit
      <3> QED BY <2>1, <3>1, <3>2 DEF AtFit, HistoryFit
    <2>6. ClientFit'
      <3>1. \A d \in Clients : trx'.owner # d
        BY <2>3, AtNames
      <3>2. \A d \in Clients : stage'[d] \notin Busy
        BY <2>1, <2>2 DEF AtFit, ClientFit, Busy, Waiting
      <3> QED BY <2>1, <3>1, <3>2 DEF AtFit, ClientFit, Stages
    <2> QED BY <2>1, <2>4, <2>5, <2>6 DEF AtFit, RxFit
  <1>5. CASE Return(c)
    <2>1. /\ stage[c] = "released" /\ queue' = Queued([type |-> "SENT_DONE"])
          /\ stage' = [stage EXCEPT ![c] = IF op[c] = "send" THEN "idle" ELSE "returned"]
          /\ UNCHANGED <<list, trx, tokens, cmd, issued, leaked, valid, stale, rx, wi, wi_bak, ri, modem, own, mixed, okWithout>>
      BY <1>5 DEF Return, Returned, listenerVars, indVars, sockVars, rxVars, atHistory
    <2>2. RxFit'
      <3>1. /\ queue' \in Seq(RecvMessages) /\ Len(queue') <= RECV_QUEUE
            /\ Readable(queue', ri, wi) = Readable(queue, ri, wi)
        BY <2>1, SentDoneReads DEF AtFit
      <3> QED BY <2>1, <3>1 DEF AtFit, RxFit
    <2>3. ClientFit'
      BY <2>1, Outside DEF AtFit
    <2> QED BY <2>1, <2>2, <2>3 DEF AtFit, HistoryFit, ListFit
  <1>6. CASE nb_close(c) \/ nb_create_sock_link(c)
    <2>1. /\ stage[c] = "returned" /\ stage' = [stage EXCEPT ![c] = "idle"]
          /\ stale' \in {stale, valid}
          /\ UNCHANGED <<list, trx, tokens, cmd, issued, leaked, valid, rx, wi, wi_bak, ri, queue, modem, own, mixed, okWithout>>
      BY <1>6 DEF nb_close, nb_create_sock_link, listenerVars, rxVars, atHistory
    <2>2. ClientFit'
      BY <2>1, Outside DEF AtFit
    <2> QED BY <2>1, <2>2 DEF AtFit, HistoryFit, ListFit, RxFit
  <1> QED BY <1>1, <1>2, <1>3, <1>4, <1>5, <1>6 DEF Proceeds

-----------------------------------------------------------------------------
(***************************************************************************)
(* What the interrupt stores and queues keeps AtFit.                       *)
(***************************************************************************)
LEMMA NextReads ==
    ASSUME RxFit
    PROVE  /\ NextCell(wi) \in Ring
           /\ Readable(queue, ri, NextCell(wi)) \subseteq Ring
           /\ Readable(queue, ri, NextCell(wi)) \subseteq Readable(queue, ri, wi) \cup {wi}
  <1> DEFINE n == NextCell(wi)
  <1>1. queue \in Seq(RecvMessages) /\ ri \in Ring /\ wi \in Ring
    BY DEF RxFit
  <1>2. n \in Ring
    BY <1>1, NextCellIs
  <1> HIDE DEF n
  <1>3. \A r \in Ring : Cells(r, n) \subseteq Cells(r, wi) \cup {wi}
    BY <1>1, CellsFacts DEF n
  <1>4. Readable(queue, ri, n) \subseteq Ring
    BY <1>1, <1>2, ReadableIs
  <1>5. ASSUME NEW i \in Readable(queue, ri, n), i # wi
        PROVE  i \in Readable(queue, ri, wi)
    <2>1. CASE i \in Cells(ri, n)
      BY <2>1, <1>1, <1>3, <1>5, ReadableIs
    <2>2. CASE i \notin Cells(ri, n)
      <3>1. PICK k \in 1 .. Len(queue) :
                IsRX(queue[k]) /\ (i \in Cells(queue[k].ori, queue[k].end) \/ i \in Cells(queue[k].end, n))
        BY <2>2, <1>1, <1>2, <1>5, ReadableIs
      <3>2. queue[k].end \in Ring
        BY <3>1, <1>1, ReadableIs
      <3>3. i \in Cells(queue[k].ori, queue[k].end) \/ i \in Cells(queue[k].end, wi)
        BY <3>1, <3>2, <1>3, <1>5
      <3> QED
        BY <3>1, <3>3, <1>1, ReadableIs
    <2> QED
      BY <2>1, <2>2
  <1> QED
    BY <1>2, <1>4, <1>5 DEF n

LEMMA ReceivesFit ==
    ASSUME AtFit, NEW l \in Lines, Receives(l), modem' \in Seq(Lines)
    PROVE  AtFit'
  <1> DEFINE n == NextCell(wi)
  <1>1. /\ rx' = [i \in Readable(queue, ri, n) |-> IF i = wi THEN l ELSE rx[i]]
        /\ wi' = n
        /\ Mixes(n = ri \/ wi \in Readable(queue, ri, wi))
        /\ UNCHANGED <<stage, cmd, issued, list, trx, tokens, leaked, valid, stale, wi_bak, ri, queue, okWithout>>
    BY DEF Receives, NextCell, clientVars, listenerVars, indVars, sockVars
  <1>2. n \in Ring /\ Readable(queue, ri, n) \subseteq Ring
        /\ Readable(queue, ri, n) \subseteq Readable(queue, ri, wi) \cup {wi}
    BY NextReads DEF AtFit
  <1> HIDE DEF n
  <1>3. RxFit'
    <2>1. DOMAIN rx' = Readable(queue', ri', wi')
      BY <1>1
    <2>2. ASSUME NEW i \in DOMAIN rx'
          PROVE  rx'[i] \in Lines
      BY <2>2, <1>1, <1>2 DEF AtFit, RxFit
    <2> QED
      BY <1>1, <1>2, <2>1, <2>2 DEF AtFit, RxFit
  <1>4. HistoryFit'
    BY <1>1, MixesFit DEF AtFit
  <1> QED
    BY <1>1, <1>3, <1>4 DEF AtFit, ClientFit, ListFit

LEMMA ModemFit ==
    ASSUME AtFit, ModemAnswers \/ ModemIndicates
    PROVE  AtFit'
  <1>1. CASE ModemAnswers
    <2>1. modem \in Seq(Lines) /\ modem # <<>> /\ modem' = Tail(modem) /\ Receives(Head(modem))
      BY <1>1 DEF ModemAnswers, AtFit
    <2>2. Head(modem) \in Lines /\ Tail(modem) \in Seq(Lines)
      BY <2>1
    <2> QED
      BY <2>1, <2>2, ReceivesFit
  <1>2. CASE ModemIndicates
    <2>1. Receives(Line("IND", 0)) /\ modem' = modem
      BY <1>2 DEF ModemIndicates
    <2>2. Line("IND", 0) \in Lines
      BY AtNames DEF Line, Lines
    <2> QED
      BY <2>1, <2>2, ReceivesFit DEF AtFit
  <1> QED
    BY <1>1, <1>2

LEMMA IdleFit ==
    ASSUME AtFit, Idle
    PROVE  AtFit'
  <1> DEFINE m == [type |-> "RX", ori |-> ri, end |-> wi]
  <1>1. /\ wi_bak' = wi /\ ri' = wi /\ queue' = Queued(m)
        /\ rx' = [i \in Readable(queue', wi, wi) |-> rx[i]]
        /\ UNCHANGED <<stage, cmd, issued, list, trx, tokens, leaked, valid, stale, wi, indications, modem, mixed, own, okWithout>>
    BY DEF Idle, clientVars, listenerVars, indVars, sockVars, atHistory
  <1>2. queue \in Seq(RecvMessages) /\ Len(queue) <= RECV_QUEUE /\ ri \in Ring /\ wi \in Ring
    BY DEF AtFit, RxFit
  <1>3. m \in RecvMessages /\ m.ori = ri /\ m.end = wi
    BY <1>2 DEF RecvMessages
  <1> HIDE DEF m
  <1>4. /\ queue' \in Seq(RecvMessages) /\ Len(queue') <= RECV_QUEUE
        /\ \A k \in 1 .. Len(queue') :
               (k \in 1 .. Len(queue) /\ queue'[k] = queue[k]) \/ (k = Len(queue) + 1 /\ queue'[k] = m)
    BY <1>1, <1>2, <1>3, QueuedFacts, ZenonT(60)
  <1>5. ASSUME NEW i \in Readable(queue', wi, wi)
        PROVE  i \in Readable(queue, ri, wi)
    <2>1. i \notin Cells(wi, wi)
      BY <1>2, CellsFacts
    <2>2. PICK k \in 1 .. Len(queue') :
              IsRX(queue'[k]) /\ (i \in Cells(queue'[k].ori, queue'[k].end) \/ i \in Cells(queue'[k].end, wi))
      BY <1>2, <1>4, <1>5, <2>1, ReadableIs
    <2>3. CASE k \in 1 .. Len(queue) /\ queue'[k] = queue[k]
      BY <2>2, <2>3, <1>2, ReadableIs
    <2>4. CASE queue'[k] = m
      BY <2>1, <2>2, <2>4, <1>2, <1>3, ReadableIs
    <2> QED
      BY <2>3, <2>4, <1>4
  <1>6. RxFit'
    BY <1>1, <1>2, <1>4, <1>5 DEF AtFit, RxFit
  <1> QED
    BY <1>1, <1>6 DEF AtFit, ClientFit, HistoryFit, ListFit

LEMMA ExpiresFit ==
    ASSUME AtFit, Expires
    PROVE  AtFit'
  <1>1. PICK k \in 1 .. Len(list) :
            /\ list[k] = CallbackListener(FALSE)
            /\ list' = [list EXCEPT ![k] = CallbackListener(TRUE)]
    BY DEF Expires
  <1>2. UNCHANGED <<stage, cmd, issued, trx, tokens, leaked, valid, stale, rx, wi, wi_bak, ri, queue, modem, mixed, own, okWithout>>
    BY DEF Expires, clientVars, indVars, sockVars, rxVars, atHistory
  <1>3. list \in Seq(Listeners) /\ TrxFits(list, trx, leaked)
    BY DEF AtFit, ListFit
  <1>4. CallbackListener(TRUE) \in Listeners /\ CallbackListener(TRUE).by = Recv /\ CallbackListener(FALSE).by = Recv
    BY DEF CallbackListener, Listeners
  <1>5. list' \in Seq(Listeners) /\ Len(list') = Len(list)
        /\ \A j \in 1 .. Len(list) : list'[j] = list[j] \/ list'[j].by = Recv
    <2> DEFINE y == CallbackListener(TRUE)
    <2>1. y \in Listeners /\ y.by = Recv
      BY <1>4
    <2> HIDE DEF y
    <2>2. list' = [list EXCEPT ![k] = y]
      BY <1>1 DEF y
    <2> QED
      BY <1>3, <2>1, <2>2
  <1>6. trx.owner \notin Clients
    <2>1. ASSUME trx.owner \in Clients
          PROVE  FALSE
      <3>1. list = <<ListenerOf(trx.owner)>>
        BY <1>3, <2>1 DEF TrxFits
      <3>2. list[k] = ListenerOf(trx.owner)
        BY <3>1
      <3>3. ListenerOf(trx.owner).by = trx.owner
        BY DEF ListenerOf
      <3> QED
        BY <3>2, <3>3, <2>1, <1>1, <1>4, AtNames
    <2> QED
      BY <2>1
  <1>7. list # <<>>
    BY <1>1
  <1>8. TrxFits(list', trx, leaked)
    BY <1>3, <1>5, <1>6, <1>7 DEF TrxFits
  <1> QED
    BY <1>2, <1>5, <1>8 DEF AtFit, ClientFit, HistoryFit, ListFit, RxFit

-----------------------------------------------------------------------------
(***************************************************************************)
(* The receive task with one message: what it works on holds all along, a  *)
(* client that owns trx_mux sees nothing of it but the tokens.             *)
(***************************************************************************)
Texts(m) == {rx[i] : i \in MessageCells(m)}

Handled(m, old, s, e) ==
    /\ Holds(Now) /\ old = at_rm_timeout_nodes(Now)
    /\ Holds(old) /\ Holds(s) /\ Holds(e)
    /\ Follows(old, s)
    /\ \E t \in nb_step(old) : s \in nb_cmd_match(t, Texts(m))
    /\ e = (IF Texts(m) = {} THEN s ELSE at_handle_resp(s, Texts(m)))
    /\ list' = e.list /\ trx' = e.trx /\ tokens' = e.tokens
    /\ leaked' = e.leaked /\ valid' = e.valid /\ stale' = (e.valid /\ e.stale)
    /\ modem' = (IF e.sent THEN Append(modem, Line("DATA", 0)) ELSE modem)
    /\ mixed' = (mixed \/ old.list # list \/ ri' # ri \/ (Texts(m) # {} /\ CallbackRefuses(s, Texts(m))))
    /\ own' = [c \in Clients |->
                  ~mixed' /\ (own[c] \/ (Answered(s, Texts(m), c) /\ Line("OK", cmd[c]) \in Texts(m)))]

LEMMA NowHolds ==
    ASSUME ListFit
    PROVE  Holds(Now) /\ Now.list = list /\ Now.trx = trx /\ Now.leaked = leaked /\ Now.tokens = tokens /\ Now.sent = FALSE
         /\ Now.valid = valid /\ Now.stale = stale
  BY DEF ListFit, Now, Holds, Views

LEMMA MessageHandled ==
    ASSUME AtFit, HandleMessage
    PROVE  /\ queue # <<>> /\ queue' = Tail(queue)
           /\ ri' = IF Texts(Head(queue)) = {} THEN ri ELSE Head(queue).end
           /\ rx' = [i \in Readable(queue', ri', wi) |-> rx[i]]
           /\ UNCHANGED <<stage, cmd, issued, used, op, wi, wi_bak, indications, okWithout>>
           /\ \E s, e : Handled(Head(queue), at_rm_timeout_nodes(Now), s, e)
  <1> DEFINE m == Head(queue)
             old == at_rm_timeout_nodes(Now)
  <1>1. /\ queue # <<>> /\ queue' = Tail(queue)
        /\ ri' = IF Texts(m) = {} THEN ri ELSE m.end
        /\ rx' = [i \in Readable(queue', ri', wi) |-> rx[i]]
        /\ UNCHANGED <<stage, cmd, issued, used, op, wi, wi_bak, indications, okWithout>>
    BY DEF HandleMessage, Texts, clientVars
  <1>2. \E s1 \in nb_step(old) : \E s \in nb_cmd_match(s1, Texts(m)) :
            LET e == IF Texts(m) = {} THEN s ELSE at_handle_resp(s, Texts(m))
            IN  /\ list' = e.list /\ trx' = e.trx /\ tokens' = e.tokens
                /\ leaked' = e.leaked /\ valid' = e.valid /\ stale' = (e.valid /\ e.stale)
                /\ modem' = (IF e.sent THEN Append(modem, Line("DATA", 0)) ELSE modem)
                /\ mixed' = (mixed \/ old.list # list \/ ri' # ri
                                   \/ (Texts(m) # {} /\ CallbackRefuses(s, Texts(m))))
                /\ own' = [c \in Clients |->
                              /\ ~mixed'
                              /\ own[c] \/ (Answered(s, Texts(m), c) /\ Line("OK", cmd[c]) \in Texts(m))]
    BY DEF HandleMessage, Texts
  <1>3. PICK s1 \in nb_step(old) : \E s \in nb_cmd_match(s1, Texts(m)) :
            LET e == IF Texts(m) = {} THEN s ELSE at_handle_resp(s, Texts(m))
            IN  /\ list' = e.list /\ trx' = e.trx /\ tokens' = e.tokens
                /\ leaked' = e.leaked /\ valid' = e.valid /\ stale' = (e.valid /\ e.stale)
                /\ modem' = (IF e.sent THEN Append(modem, Line("DATA", 0)) ELSE modem)
                /\ mixed' = (mixed \/ old.list # list \/ ri' # ri
                                   \/ (Texts(m) # {} /\ CallbackRefuses(s, Texts(m))))
                /\ own' = [c \in Clients |->
                              /\ ~mixed'
                              /\ own[c] \/ (Answered(s, Texts(m), c) /\ Line("OK", cmd[c]) \in Texts(m))]
    BY <1>2
  <1>4. PICK s \in nb_cmd_match(s1, Texts(m)) :
            LET e == IF Texts(m) = {} THEN s ELSE at_handle_resp(s, Texts(m))
            IN  /\ list' = e.list /\ trx' = e.trx /\ tokens' = e.tokens
                /\ leaked' = e.leaked /\ valid' = e.valid /\ stale' = (e.valid /\ e.stale)
                /\ modem' = (IF e.sent THEN Append(modem, Line("DATA", 0)) ELSE modem)
                /\ mixed' = (mixed \/ old.list # list \/ ri' # ri
                                   \/ (Texts(m) # {} /\ CallbackRefuses(s, Texts(m))))
                /\ own' = [c \in Clients |->
                              /\ ~mixed'
                              /\ own[c] \/ (Answered(s, Texts(m), c) /\ Line("OK", cmd[c]) \in Texts(m))]
    BY <1>3
  <1> DEFINE e == IF Texts(m) = {} THEN s ELSE at_handle_resp(s, Texts(m))
  <1> HIDE DEF m, old
  <1>5. Holds(Now)
    BY NowHolds DEF AtFit
  <1>6. Holds(old)
    BY <1>5, TimeoutsHold DEF old
  <1>7. Holds(s) /\ Follows(old, s)
    BY <1>6, NoticesHold
  <1>8. Holds(e)
    BY <1>7, RespHolds
  <1>9. Handled(m, old, s, e)
    BY <1>4, <1>5, <1>6, <1>7, <1>8 DEF Handled, old
  <1> QED
    BY <1>1, <1>9 DEF m, old

(***************************************************************************)
(* What is read once a message has been taken from the queue was readable. *)
(***************************************************************************)
LEMMA TailReads ==
    ASSUME RxFit, queue # <<>>, NEW r \in {ri, Head(queue).end}, r = ri \/ IsRX(Head(queue))
    PROVE  /\ Tail(queue) \in Seq(RecvMessages) /\ Len(Tail(queue)) <= RECV_QUEUE /\ r \in Ring
           /\ Readable(Tail(queue), r, wi) \subseteq Readable(queue, ri, wi)
  <1> DEFINE t == Tail(queue)
  <1>1. queue \in Seq(RecvMessages) /\ Len(queue) <= RECV_QUEUE /\ ri \in Ring /\ wi \in Ring
    BY DEF RxFit
  <1>2. /\ Head(queue) = queue[1] /\ 1 \in 1 .. Len(queue)
        /\ t \in Seq(RecvMessages) /\ Len(t) = Len(queue) - 1
        /\ \A k \in 1 .. Len(t) : t[k] = queue[k + 1] /\ k + 1 \in 1 .. Len(queue)
    BY <1>1
  <1>3. Len(queue) \in Nat /\ RECV_QUEUE \in Nat
    BY <1>1, AtNames
  <1>4. r \in Ring
    BY <1>1, <1>2, ReadableIs
  <1> HIDE DEF t
  <1>5. ASSUME NEW i \in Readable(t, r, wi)
        PROVE  i \in Readable(queue, ri, wi)
    <2>1. CASE i \in Cells(r, wi)
      BY <2>1, <1>1, <1>2, ReadableIs
    <2>2. CASE i \notin Cells(r, wi)
      <3>1. PICK k \in 1 .. Len(t) : IsRX(t[k]) /\ (i \in Cells(t[k].ori, t[k].end) \/ i \in Cells(t[k].end, wi))
        BY <2>2, <1>1, <1>2, <1>4, <1>5, ReadableIs
      <3>2. t[k] = queue[k + 1] /\ k + 1 \in 1 .. Len(queue)
        BY <1>2
      <3> DEFINE j == k + 1
      <3> HIDE DEF j
      <3>3. j \in 1 .. Len(queue) /\ t[k] = queue[j]
        BY <3>2 DEF j
      <3> QED
        BY <3>1, <3>3, <1>1, ReadableIs
    <2> QED
      BY <2>1, <2>2
  <1> QED
    BY <1>2, <1>3, <1>1, <1>4, <1>5 DEF t

LEMMA HandledReads ==
    ASSUME RxFit, queue # <<>>, Texts(Head(queue)) # {}
    PROVE  IsRX(Head(queue))
  BY DEF Texts, MessageCells, IsRX

LEMMA HandleFit ==
    ASSUME AtFit, HandleMessage
    PROVE  AtFit'
  <1> DEFINE m == Head(queue)
             old == at_rm_timeout_nodes(Now)
  <1>1. /\ queue # <<>> /\ queue' = Tail(queue)
        /\ ri' = IF Texts(m) = {} THEN ri ELSE m.end
        /\ rx' = [i \in Readable(queue', ri', wi) |-> rx[i]]
        /\ UNCHANGED <<stage, cmd, issued, used, op, wi, wi_bak, indications, okWithout>>
        /\ \E s, e : Handled(m, old, s, e)
    BY MessageHandled
  <1>2. PICK s, e : Handled(m, old, s, e)
    BY <1>1
  <1>3. RxFit /\ (Texts(m) # {} => IsRX(m))
    BY <1>1, HandledReads DEF AtFit
  <1>4. ri' \in {ri, m.end} /\ (ri' = ri \/ IsRX(m))
    BY <1>1, <1>3
  <1>5. /\ queue' \in Seq(RecvMessages) /\ Len(queue') <= RECV_QUEUE /\ ri' \in Ring
        /\ Readable(queue', ri', wi) \subseteq Readable(queue, ri, wi)
    BY <1>1, <1>3, <1>4, TailReads
  <1> HIDE DEF m, old
  <1>6. RxFit'
    BY <1>1, <1>3, <1>5 DEF RxFit
  <1>7. ListFit'
    <2>1. /\ Holds(e) /\ list' = e.list /\ trx' = e.trx /\ tokens' = e.tokens
          /\ leaked' = e.leaked /\ valid' = e.valid /\ stale' = (e.valid /\ e.stale)
      BY <1>2 DEF Handled
    <2> QED
      BY <2>1 DEF Holds, Views, ListFit
  <1>8. HistoryFit'
    <2>1. mixed' \in BOOLEAN
      BY <1>2 DEF Handled
    <2>2. own' = [c \in Clients |->
                     ~mixed' /\ (own[c] \/ (Answered(s, Texts(m), c) /\ Line("OK", cmd[c]) \in Texts(m)))]
      BY <1>2 DEF Handled
    <2>3. own' \in [Clients -> BOOLEAN]
      BY <2>2
    <2> QED
      BY <1>1, <2>1, <2>3 DEF AtFit, HistoryFit
  <1>9. \A c \in Clients : trx'.owner = c <=> trx.owner = c
    <2>1. Holds(Now) /\ Now.trx = trx /\ old = at_rm_timeout_nodes(Now)
      BY NowHolds DEF AtFit, old
    <2>2. trx.owner \in Clients \/ old.trx.owner \in Clients => old.trx = trx
      BY <2>1, TimeoutsHold
    <2>3. old.trx.owner \in Clients \/ s.trx.owner \in Clients => s.trx = old.trx
      BY <1>2 DEF Handled, Follows
    <2>4. s.trx.owner \in Clients \/ e.trx.owner \in Clients => e.trx = s.trx
      BY <1>2, RespHolds, AtNames DEF Handled
    <2>5. trx' = e.trx
      BY <1>2 DEF Handled
    <2> QED
      BY <2>2, <2>3, <2>4, <2>5
  <1>10. ClientFit'
    BY <1>1, <1>9 DEF AtFit, ClientFit
  <1>11. (modem \in Seq(Lines))'
    <2>1. Line("DATA", 0) \in Lines
      BY AtNames DEF Line, Lines
    <2>2. modem' = modem \/ modem' = Append(modem, Line("DATA", 0))
      BY <1>2 DEF Handled
    <2> QED
      BY <2>1, <2>2 DEF AtFit
  <1> QED
    BY <1>6, <1>7, <1>8, <1>10, <1>11 DEF AtFit

-----------------------------------------------------------------------------
LEMMA AtFitInit ==
    ASSUME AtInit
    PROVE  AtFit
  <1>1. ClientFit
    BY AtNames DEF AtInit, ClientFit, Stages, Busy, Waiting
  <1>2. HistoryFit
    BY DEF AtInit, HistoryFit
  <1>3. ListFit
    <2>1. list = <<>> /\ trx.owner = Nobody /\ trx.count = 0 /\ leaked = 0
      BY DEF AtInit
    <2>2. TrxFits(list, trx, leaked)
      BY <2>1, AtNames DEF TrxFits
    <2>3. trx \in [owner : Owners, count : Nat]
      BY DEF AtInit, Owners
    <2>4. list \in Seq(Listeners)
      BY <2>1
    <2>5. leaked = 0 /\ tokens = 0 /\ valid = FALSE /\ stale = FALSE
      BY DEF AtInit
    <2>6. leaked \in 0 .. MaxLeaks /\ tokens \in Nat
      BY <2>5, AtNames
    <2>7. valid \in BOOLEAN /\ stale \in BOOLEAN
      BY <2>5
    <2> QED
      BY <2>2, <2>3, <2>4, <2>6, <2>7 DEF ListFit
  <1>4. RxFit
    <2>1. 0 \in Ring /\ queue \in Seq(RecvMessages) /\ queue = <<>> /\ Len(queue) <= RECV_QUEUE
      BY AtNames DEF AtInit, Ring
    <2>2. Cells(0, 0) = {}
      BY <2>1, CellsFacts
    <2>3. \A i : i \notin Readable(queue, 0, 0)
      <3>1. ~ \E k \in 1 .. Len(queue) : TRUE
        BY <2>1
      <3> QED
        BY <2>1, <2>2, <3>1, ReadableIs
    <2>4. Readable(queue, 0, 0) = {}
      BY <2>3
    <2>5. DOMAIN rx = {}
      BY DEF AtInit
    <2> QED
      BY <2>1, <2>4, <2>5 DEF AtInit, RxFit
  <1> QED
    BY <1>1, <1>2, <1>3, <1>4 DEF AtInit, AtFit

LEMMA AtFitStep ==
    ASSUME AtFit, [AtNext]_atVars
    PROVE  AtFit'
  <1>1. ASSUME NEW c \in Clients, ClientStep(c)
        PROVE  AtFit'
    <2>1. CASE Calls(c)
      BY <2>1, CallsFit
    <2>2. CASE at_cmd_multi_suffix(c)
      BY <2>2, BeginFit DEF at_cmd_multi_suffix, Waiting
    <2>3. CASE at_write(c)
      BY <2>3, BeginFit DEF at_write, Waiting
    <2>4. CASE Proceeds(c)
      BY <2>4, ProceedsFit
    <2> QED
      BY <1>1, <2>1, <2>2, <2>3, <2>4 DEF ClientStep
  <1>2. CASE UNCHANGED atVars
    BY <1>2 DEF atVars, clientVars, atHistory, listenerVars, indVars, sockVars, rxVars, AtFit, ClientFit, HistoryFit, ListFit,
                RxFit
  <1> QED
    BY <1>1, <1>2, ModemFit, IdleFit, HandleFit, ExpiresFit DEF AtNext

(***************************************************************************)
(* The socket and its indications.  One that is put off while the socket   *)
(* is closed is of the closed one.                                         *)
(***************************************************************************)
SocketFit ==
    /\ used \in BOOLEAN /\ op \in [Clients -> {"send", "close", "create"}]
    /\ valid /\ ~used => stale
    /\ PutOffIsSeen

Telling == Busy \cup {"released"}

LEMMA RunsFrom ==
    ASSUME AtFit, SocketFit, NEW c \in Clients, stage[c] \notin Telling, NEW to,
           stage' = [stage EXCEPT ![c] = to], UNCHANGED <<valid, stale, leaked, queue>>
    PROVE  PutOffIsSeen'
  <1>1. \A d \in Clients : stage[d] \in Telling => stage'[d] \in Telling
    BY DEF AtFit, ClientFit
  <1> QED BY <1>1 DEF SocketFit, PutOffIsSeen, Telling, Busy

LEMMA TellingStays ==
    ASSUME AtFit, SocketFit, NEW c \in Clients, NEW to \in Telling,
           stage' = [stage EXCEPT ![c] = to], UNCHANGED <<valid, stale, leaked, queue>>
    PROVE  PutOffIsSeen'
  <1>1. \A d \in Clients : stage[d] \in Telling => stage'[d] \in Telling
    BY DEF AtFit, ClientFit
  <1> QED BY <1>1 DEF SocketFit, PutOffIsSeen, Telling, Busy

(***************************************************************************)
(* A message is in the queue once one has been sent, also if it was lost.  *)
(***************************************************************************)
LEMMA QueuedIsSeen ==
    ASSUME AtFit, NEW m \in RecvMessages, queue' = Queued(m)
    PROVE  PutOffIsSeen'
  <1>1. /\ queue \in Seq(RecvMessages) /\ Len(queue) <= RECV_QUEUE /\ RECV_QUEUE > 0
        /\ Queued(m) = IF Len(queue) < RECV_QUEUE THEN Append(queue, m) ELSE queue
    BY AtNames DEF AtFit, RxFit, Queued
  <1>2. Append(queue, m) # <<>> /\ (~(Len(queue) < RECV_QUEUE) => queue # <<>>)
    BY <1>1
  <1>3. queue' # <<>>
    BY <1>1, <1>2
  <1> QED BY <1>3 DEF PutOffIsSeen

LEMMA ClientSocketFit ==
    ASSUME AtFit, SocketFit, NEW c \in Clients, ClientStep(c)
    PROVE  SocketFit'
  <1>1. CASE Calls(c)
    <2>1. /\ stage[c] = "idle" /\ stage' = [stage EXCEPT ![c] = "calling"]
          /\ UNCHANGED <<leaked, valid, used, stale, queue>>
          /\ \E o \in Purposes(c) : op' = [op EXCEPT ![c] = o]
      BY <1>1 DEF Calls
    <2>2. Purposes(c) \subseteq {"send", "close", "create"}
      BY DEF Purposes
    <2>3. op' \in [Clients -> {"send", "close", "create"}]
      BY <2>1, <2>2 DEF SocketFit
    <2>4. PutOffIsSeen'
      BY <2>1, RunsFrom DEF Telling, Busy, Waiting
    <2> QED BY <2>1, <2>3, <2>4 DEF SocketFit
  <1>2. CASE at_cmd_multi_suffix(c) \/ at_write(c)
    <2>1. PICK to \in Waiting : stage' = [stage EXCEPT ![c] = to]
      BY <1>2 DEF at_cmd_multi_suffix, at_write, Begin, Waiting
    <2>2. UNCHANGED <<leaked, valid, used, op, stale, queue>>
      BY <1>2 DEF at_cmd_multi_suffix, at_write, Begin, indVars, sockVars
    <2>3. PutOffIsSeen'
      BY <2>1, <2>2, TellingStays DEF Telling, Busy
    <2> QED BY <2>2, <2>3 DEF SocketFit
  <1>3. CASE RespSemTaken(c) \/ WriteData(c) \/ Releases(c)
    <2>1. PICK to \in Telling : stage' = [stage EXCEPT ![c] = to]
      BY <1>3 DEF RespSemTaken, WriteData, Releases, Telling, Busy, Waiting
    <2>2. UNCHANGED <<leaked, valid, used, op, stale, queue>>
      BY <1>3 DEF RespSemTaken, WriteData, Releases, indVars, sockVars
    <2>3. PutOffIsSeen'
      BY <2>1, <2>2, TellingStays
    <2> QED BY <2>2, <2>3 DEF SocketFit
  <1>4. CASE RespSemTimeout(c)
    <2>1. PICK to \in Telling : stage' = [stage EXCEPT ![c] = to]
      BY <1>4 DEF RespSemTimeout, Telling, Busy, Waiting
    <2>2. /\ UNCHANGED <<leaked, valid, used, stale, queue>>
          /\ op' = [op EXCEPT ![c] = IF op[c] = "create" THEN "send" ELSE op[c]]
      BY <1>4 DEF RespSemTimeout
    <2>3. op' \in [Clients -> {"send", "close", "create"}]
      BY <2>2 DEF SocketFit
    <2>4. PutOffIsSeen'
      BY <2>1, <2>2, TellingStays
    <2> QED BY <2>2, <2>3, <2>4 DEF SocketFit
  <1>5. CASE Return(c)
    <2>1. queue' = Queued([type |-> "SENT_DONE"]) /\ UNCHANGED <<valid, used, op, stale>>
      BY <1>5 DEF Return, indVars, sockVars
    <2>2. [type |-> "SENT_DONE"] \in RecvMessages
      BY DEF RecvMessages
    <2>3. PutOffIsSeen'
      BY <2>1, <2>2, QueuedIsSeen
    <2> QED BY <2>1, <2>3 DEF SocketFit
  <1>6. CASE nb_close(c)
    <2>1. used' = FALSE /\ stale' = valid /\ valid' = valid /\ op' = [op EXCEPT ![c] = "send"]
      BY <1>6 DEF nb_close
    <2>2. op' \in [Clients -> {"send", "close", "create"}]
      BY <2>1 DEF SocketFit
    <2> QED BY <2>1, <2>2 DEF SocketFit, PutOffIsSeen
  <1>7. CASE nb_create_sock_link(c)
    <2>1. /\ stage[c] = "returned" /\ stage' = [stage EXCEPT ![c] = "idle"]
          /\ used' \in {used, TRUE} /\ op' = [op EXCEPT ![c] = "send"]
          /\ UNCHANGED <<leaked, valid, stale, queue>>
      BY <1>7 DEF nb_create_sock_link
    <2>2. op' \in [Clients -> {"send", "close", "create"}]
      BY <2>1 DEF SocketFit
    <2>3. PutOffIsSeen'
      BY <2>1, RunsFrom DEF Telling, Busy, Waiting
    <2> QED BY <2>1, <2>2, <2>3 DEF SocketFit
  <1> QED
    BY <1>1, <1>2, <1>3, <1>4, <1>5, <1>6, <1>7 DEF ClientStep, Proceeds

(***************************************************************************)
(* The receive task puts an indication off only while a client owns        *)
(* trx_mux, or because at_malloc failed.                                   *)
(***************************************************************************)
LEMMA NoticePutOff ==
    ASSUME NEW s, Holds(s), NEW t \in nb_cmd_rcv_data(s), t.valid
    PROVE  t.trx.owner \in Clients \/ t.leaked > 0
  <1>1. s \in Views /\ s.trx.owner \in Owners /\ s.leaked \in Nat
    BY AtNames DEF Holds, Views
  <1>2. CASE s.trx.owner \notin {Nobody, Recv}
    <2>1. t = [s EXCEPT !.valid = TRUE]
      BY <1>2 DEF nb_cmd_rcv_data
    <2>2. t.trx = s.trx
      BY <1>1, <2>1 DEF Views
    <2> QED BY <1>1, <1>2, <2>2 DEF Owners
  <1>3. CASE s.trx.owner \in {Nobody, Recv}
    <2> DEFINE u == [s EXCEPT !.trx = [owner |-> Recv, count |-> @.count + 1], !.sent = TRUE]
    <2>1. DOMAIN u = DOMAIN s /\ u.leaked = s.leaked
      BY <1>1 DEF Views
    <2>2. DOMAIN s = {"list", "trx", "leaked", "valid", "stale", "tokens", "sent"}
      BY <1>1 DEF Views
    <2>3. \/ t = [u EXCEPT !.list = Append(@, CallbackListener(FALSE)), !.valid = FALSE]
          \/ t = [u EXCEPT !.leaked = @ + 1, !.valid = TRUE]
      BY <1>3 DEF nb_cmd_rcv_data
    <2> HIDE DEF u
    <2>4. t.leaked = u.leaked + 1
      BY <2>1, <2>2, <2>3
    <2> QED BY <1>1, <2>1, <2>4
  <1> QED BY <1>2, <1>3

LEMMA HandleSocketFit ==
    ASSUME AtFit, AtFit', SocketFit, HandleMessage
    PROVE  SocketFit'
  <1> DEFINE m == Head(queue)
             old == at_rm_timeout_nodes(Now)
  <1>1. UNCHANGED <<used, op>> /\ \E s, e : Handled(m, old, s, e)
    BY MessageHandled
  <1>2. PICK s, e : Handled(m, old, s, e)
    BY <1>1
  <1>3. /\ Holds(Now) /\ Now.valid = valid /\ Now.stale = stale
        /\ old = at_rm_timeout_nodes(Now)
    BY NowHolds DEF AtFit
  <1>4. old.valid = valid /\ old.stale = stale
    BY <1>3 DEF at_rm_timeout_nodes, Holds, Views
  <1> HIDE DEF old, m
  <1>5. /\ Holds(old) /\ Holds(s) /\ Holds(e)
        /\ e = (IF Texts(m) = {} THEN s ELSE at_handle_resp(s, Texts(m)))
        /\ trx' = e.trx /\ leaked' = e.leaked /\ valid' = e.valid
        /\ stale' = (e.valid /\ e.stale)
    BY <1>2 DEF Handled
  <1>6. PICK t \in nb_step(old) : s \in nb_cmd_match(t, Texts(m))
    BY <1>2 DEF Handled
  <1>7. e.valid = s.valid /\ e.stale = s.stale /\ e.leaked = s.leaked
    BY <1>5 DEF at_handle_resp, Holds, Views
  <1>8. s.trx.owner \in Clients => e.trx = s.trx
    BY <1>5, RespHolds, AtNames
  <1>9. Holds(t)
    BY <1>5, <1>6, NoticeHolds DEF nb_step
  <1>10. t.valid => t.stale \/ t.trx.owner \in Clients \/ t.leaked > 0
    <2>1. CASE t = old /\ ~(old.valid /\ used)
      BY <2>1, <1>4 DEF SocketFit
    <2>2. CASE t \in nb_cmd_rcv_data(old)
      BY <2>2, <1>5, NoticePutOff
    <2> QED BY <1>6, <2>1, <2>2 DEF nb_step
  <1>11. s.valid => s.stale \/ s.trx.owner \in Clients \/ s.leaked > 0
    <2> DEFINE v == [t EXCEPT !.stale = FALSE]
    <2>1. CASE s = t
      BY <2>1, <1>10
    <2>2. CASE s \in nb_cmd_rcv_data(v)
      <3>1. v \in Views /\ v.list = t.list /\ v.trx = t.trx /\ v.leaked = t.leaked
        BY <1>9 DEF Holds, Views
      <3>2. Holds(v)
        BY <1>9, <3>1 DEF Holds
      <3> QED BY <2>2, <3>2, NoticePutOff
    <2> QED BY <1>6, <2>1, <2>2 DEF nb_cmd_match
  <1>12. ASSUME valid', ~used'
         PROVE  stale'
    <2>1. s = old
      BY <1>1, <1>6, <1>12 DEF nb_step, nb_cmd_match
    <2> QED BY <1>1, <1>4, <1>5, <1>7, <1>12, <2>1 DEF SocketFit
  <1>13. ASSUME valid', ~stale'
         PROVE  leaked' > 0 \/ \E c \in Clients : stage'[c] \in Busy
    <2>1. s.valid /\ ~s.stale
      BY <1>5, <1>7, <1>13
    <2>2. CASE s.trx.owner \in Clients
      <3>1. trx'.owner \in Clients
        BY <1>5, <1>8, <2>2
      <3> QED BY <3>1 DEF AtFit, ClientFit
    <2>3. CASE s.leaked > 0
      BY <1>5, <1>7, <2>3
    <2> QED BY <1>11, <2>1, <2>2, <2>3
  <1>14. PutOffIsSeen'
    BY <1>13 DEF PutOffIsSeen, Busy
  <1> QED
    BY <1>1, <1>12, <1>14 DEF SocketFit

LEMMA SocketFitStep ==
    ASSUME AtFit, AtFit', SocketFit, [AtNext]_atVars
    PROVE  SocketFit'
  <1>1. ASSUME NEW l, Receives(l)
        PROVE  UNCHANGED <<stage, leaked, valid, used, op, stale, queue>>
    BY <1>1 DEF Receives, clientVars, indVars, sockVars
  <1>2. CASE ModemAnswers \/ ModemIndicates \/ Expires \/ UNCHANGED atVars
    <2>1. UNCHANGED <<stage, leaked, valid, used, op, stale, queue>>
      BY <1>1, <1>2 DEF ModemAnswers, ModemIndicates, Expires, atVars, clientVars, indVars, sockVars
    <2> QED BY <2>1 DEF SocketFit, PutOffIsSeen
  <1>3. CASE Idle
    <2> DEFINE m == [type |-> "RX", ori |-> ri, end |-> wi]
    <2>1. queue' = Queued(m) /\ UNCHANGED <<valid, used, op, stale>>
      BY <1>3 DEF Idle, indVars, sockVars
    <2>2. m \in RecvMessages
      BY DEF RecvMessages, AtFit, RxFit
    <2> HIDE DEF m
    <2>3. PutOffIsSeen'
      BY <2>1, <2>2, QueuedIsSeen
    <2> QED BY <2>1, <2>3 DEF SocketFit
  <1> QED
    BY <1>2, <1>3, ClientSocketFit, HandleSocketFit DEF AtNext

LEMMA AtFitImplies ==
    ASSUME AtFit, SocketFit
    PROVE  AtTypeOK
  <1>1. DOMAIN rx \subseteq 0 .. BUF - 1 /\ \A i \in DOMAIN rx : rx[i] \in Lines
    BY ReadableIs DEF AtFit, RxFit, Ring
  <1>2. {wi, wi_bak, ri} \subseteq 0 .. BUF - 1 /\ Len(queue) <= RECV_QUEUE
    BY DEF AtFit, RxFit, Ring
  <1>3. /\ list \in Seq([by : Clients \cup {Recv}, expired : BOOLEAN])
        /\ trx \in [owner : Clients \cup {Recv, Nobody}, count : Nat]
    BY DEF AtFit, ListFit, Listeners, Owners
  <1>4. trx.owner = Nobody <=> trx.count = 0
    BY DEF AtFit, ListFit, TrxFits
  <1>5. stage \in [Clients -> {"idle", "calling", "prompt", "prompted", "wait", "answered", "timedout", "released",
                              "returned"}]
    BY DEF AtFit, ClientFit, Stages
  <1>6. used \in BOOLEAN /\ stale \in BOOLEAN /\ op \in [Clients -> {"send", "close", "create"}]
    BY DEF SocketFit, AtFit, ListFit
  <1>7. cmd \in [Clients -> 0 .. MaxCommands] /\ own \in [Clients -> BOOLEAN] /\ mixed \in BOOLEAN /\ okWithout \in BOOLEAN
    BY DEF AtFit, ClientFit, HistoryFit
  <1>8. tokens \in Nat /\ leaked \in 0 .. MaxLeaks /\ valid \in BOOLEAN /\ modem \in Seq(Lines)
    BY DEF AtFit, ListFit
  <1> QED
    BY <1>1, <1>2, <1>3, <1>4, <1>5, <1>6, <1>7, <1>8 DEF AtTypeOK

LEMMA SocketFitInit ==
    ASSUME AtInit
    PROVE  SocketFit
  BY DEF AtInit, SocketFit, PutOffIsSeen

(***************************************************************************)
(* AtTypeOK: the list, trx_mux and what the interrupt and the receive task *)
(* share keep their types, and recvQueue never exceeds its length.         *)
(***************************************************************************)
THEOREM AtTypes == AtSpec => []AtTypeOK
  <1>1. AtInit => AtFit /\ SocketFit
    BY AtFitInit, SocketFitInit
  <1>2. AtFit /\ SocketFit /\ [AtNext]_atVars => AtFit' /\ SocketFit'
    BY AtFitStep, SocketFitStep
  <1>3. AtFit /\ SocketFit => AtTypeOK
    BY AtFitImplies
  <1> QED
    BY <1>1, <1>2, <1>3, PTL DEF AtSpec

(***************************************************************************)
(* PutOffIsSeen: an indication that was put off is not forgotten before    *)
(* its socket is closed: a message waits for the receive task, or a client *)
(* is on its way to sending one, or an at_malloc failed.                   *)
(***************************************************************************)
THEOREM PutOffAlwaysSeen == AtSpec => []PutOffIsSeen
  <1>1. AtInit => AtFit /\ SocketFit
    BY AtFitInit, SocketFitInit
  <1>2. AtFit /\ SocketFit /\ [AtNext]_atVars => AtFit' /\ SocketFit'
    BY AtFitStep, SocketFitStep
  <1>3. SocketFit => PutOffIsSeen
    BY DEF SocketFit
  <1> QED
    BY <1>1, <1>2, <1>3, PTL DEF AtSpec

(***************************************************************************)
(* ListenersHoldTrx: a listener that lives on a client's stack is listed   *)
(* only while that client is in the call and owns trx_mux, and every       *)
(* callback, listed or lost, has its level of trx_mux.                     *)
(***************************************************************************)
THEOREM ListenersAreSafe == AtSpec => []ListenersHoldTrx
  <1>1. AtInit => AtFit
    BY AtFitInit
  <1>2. AtFit /\ [AtNext]_atVars => AtFit'
    BY AtFitStep
  <1>3. AtFit => ListenersHoldTrx
    <2>1. AtFit => TrxFits(list, trx, leaked) /\ \A c \in Clients : stage[c] \in Busy <=> trx.owner = c
      BY DEF AtFit, ListFit, ClientFit
    <2> QED
      BY <2>1 DEF TrxFits, ListenersHoldTrx, Busy
  <1> QED
    BY <1>1, <1>2, <1>3, PTL DEF AtSpec

-----------------------------------------------------------------------------
(***************************************************************************)
(* The account of answers.  While nothing has been mixed up the segments   *)
(* of the buffer are disjoint and are read in the order in which they came;*)
(* each line still on its way, which the modem will send or which is in    *)
(* the buffer, is what the owner of trx_mux waits for; and with the tokens *)
(* of resp_sem they are never more than its waits.                         *)
(***************************************************************************)
SegmentsFit ==
    /\ wi_bak = ri
    /\ \A k \in 1 .. Len(queue) : IsRX(queue[k]) =>
           /\ queue[k].ori # queue[k].end
           /\ \A i \in Cells(queue[k].ori, queue[k].end) : i \notin Cells(ri, wi)
           /\ queue[k].end = wi => ri = wi
           /\ \A j \in 1 .. Len(queue) : k < j /\ IsRX(queue[j]) => queue[k].end # ri

Pending == {i \in DOMAIN rx : rx[i].kind # "IND"}

OnTheWay == Len(modem) + Cardinality(Pending)

Awaited == IF trx.owner \in Clients THEN Line(Suffix(trx.owner), cmd[trx.owner]) ELSE Line("DATA", 0)

AllAwaited == (\A k \in 1 .. Len(modem) : modem[k] = Awaited) /\ \A i \in Pending : rx[i] = Awaited

WaitsFit ==
    /\ trx.owner \notin Clients => tokens = 0 /\ OnTheWay <= trx.count
    /\ \A c \in Clients : trx.owner = c =>
           /\ stage[c] # "timedout"
           /\ tokens + OnTheWay <= IF stage[c] \in Waiting THEN 1 ELSE 0
           /\ stage[c] = "answered" \/ (tokens > 0 /\ stage[c] = "wait") => own[c]

Account == AllAwaited /\ WaitsFit

OwnFit == ~okWithout /\ (mixed \/ (SegmentsFit /\ Account))

(***************************************************************************)
(* Sets of cells are finite and can be counted.                            *)
(***************************************************************************)
LEMMA RingSets ==
    ASSUME NEW S \in SUBSET Ring
    PROVE  IsFiniteSet(S) /\ Cardinality(S) \in Nat /\ (Cardinality(S) = 0 <=> S = {})
  <1>1. IsFiniteSet(Ring)
    BY FS_Interval, AtNames DEF Ring
  <1>2. IsFiniteSet(S)
    BY <1>1, FS_Subset
  <1> QED
    BY <1>2, FS_CardinalityType, FS_EmptySet

LEMMA RingSubsets ==
    ASSUME NEW S \in SUBSET Ring, NEW T \in SUBSET S
    PROVE  /\ Cardinality(T) <= Cardinality(S)
           /\ \A i \in S : i \notin T => Cardinality(T) + 1 <= Cardinality(S)
  <1>1. IsFiniteSet(S) /\ Cardinality(S) \in Nat /\ Cardinality(T) \in Nat
    BY RingSets
  <1>2. Cardinality(T) <= Cardinality(S)
    BY <1>1, FS_Subset
  <1>3. ASSUME NEW i \in S, i \notin T
        PROVE  Cardinality(T) + 1 <= Cardinality(S)
    <2>1. IsFiniteSet(S \ {i}) /\ Cardinality(S \ {i}) = Cardinality(S) - 1
      BY <1>1, <1>3, FS_RemoveElement
    <2>2. T \in SUBSET (S \ {i})
      BY <1>3
    <2>3. Cardinality(T) <= Cardinality(S \ {i})
      BY <2>1, <2>2, FS_Subset
    <2> QED
      BY <1>1, <2>1, <2>3
  <1> QED
    BY <1>2, <1>3

LEMMA RingAdds ==
    ASSUME NEW S \in SUBSET Ring, NEW w \in Ring, NEW T \in SUBSET (S \cup {w})
    PROVE  Cardinality(T) <= Cardinality(S) + 1
  <1>1. IsFiniteSet(S) /\ Cardinality(S) \in Nat /\ Cardinality(T) \in Nat
    BY RingSets
  <1>2. IsFiniteSet(S \cup {w}) /\ Cardinality(S \cup {w}) <= Cardinality(S) + 1
    <2>1. /\ IsFiniteSet(S \cup {w})
          /\ Cardinality(S \cup {w}) = IF w \in S THEN Cardinality(S) ELSE Cardinality(S) + 1
      BY <1>1, FS_AddElement
    <2> QED
      BY <1>1, <2>1
  <1>3. Cardinality(T) <= Cardinality(S \cup {w})
    BY <1>2, FS_Subset
  <1>4. Cardinality(S \cup {w}) \in Nat
    BY <1>2, FS_CardinalityType
  <1> QED
    BY <1>1, <1>2, <1>3, <1>4

LEMMA PendingCounts ==
    ASSUME AtFit, AtFit'
    PROVE  /\ Pending \in SUBSET Ring /\ Cardinality(Pending) \in Nat /\ Len(modem) \in Nat
           /\ Pending' \in SUBSET Ring /\ Cardinality(Pending') \in Nat /\ Len(modem') \in Nat
           /\ OnTheWay = Len(modem) + Cardinality(Pending)
           /\ OnTheWay' = Len(modem') + Cardinality(Pending')
           /\ OnTheWay \in Nat /\ OnTheWay' \in Nat
           /\ tokens \in Nat /\ tokens' \in Nat
           /\ OnTheWay = 0 => modem = <<>> /\ Pending = {}
  <1>1. Pending \in SUBSET Ring
    BY ReadableIs DEF AtFit, RxFit, Pending
  <1>2. Pending' \in SUBSET Ring
    BY ReadableIs DEF AtFit, RxFit, Pending
  <1>3. modem \in Seq(Lines) /\ modem' \in Seq(Lines)
    BY DEF AtFit
  <1>4. Len(modem) \in Nat /\ Len(modem') \in Nat /\ (Len(modem) = 0 => modem = <<>>)
    BY <1>3
  <1>5. Cardinality(Pending) \in Nat /\ Cardinality(Pending') \in Nat /\ (Cardinality(Pending) = 0 => Pending = {})
    BY <1>1, <1>2, RingSets
  <1>6. OnTheWay = Len(modem) + Cardinality(Pending) /\ OnTheWay' = Len(modem') + Cardinality(Pending')
    BY DEF OnTheWay
  <1>7. tokens \in Nat /\ tokens' \in Nat
    BY DEF AtFit, ListFit
  <1> QED
    BY <1>1, <1>2, <1>4, <1>5, <1>6, <1>7

(***************************************************************************)
(* Lines that move from the modem to the buffer, or are lost, leave the    *)
(* account in order as long as nothing happens to the owner of trx_mux.    *)
(***************************************************************************)
SameOwner ==
    /\ trx' = trx
    /\ \A c \in Clients : trx.owner = c => stage'[c] = stage[c] /\ cmd'[c] = cmd[c]

LEMMA AwaitedStays ==
    ASSUME SameOwner
    PROVE  Awaited' = Awaited
  <1>1. CASE trx.owner \in Clients
    <2>1. stage'[trx.owner] = stage[trx.owner] /\ cmd'[trx.owner] = cmd[trx.owner] /\ trx'.owner = trx.owner
      BY <1>1 DEF SameOwner
    <2> QED
      BY <1>1, <2>1 DEF Awaited, Suffix
  <1>2. CASE trx.owner \notin Clients
    BY <1>2 DEF Awaited, SameOwner, Line
  <1> QED
    BY <1>1, <1>2

LEMMA LinesMove ==
    ASSUME AtFit, AtFit', Account, SameOwner, tokens' = tokens,
           \A c \in Clients : trx.owner = c => own'[c] = own[c],
           \A k \in 1 .. Len(modem') : modem'[k] = Awaited,
           \A i \in Pending' : rx'[i] = Awaited,
           OnTheWay' <= OnTheWay
    PROVE  Account'
  <1>1. AllAwaited'
    BY AwaitedStays DEF AllAwaited
  <1>2. OnTheWay \in Nat /\ OnTheWay' \in Nat /\ tokens \in Nat
    BY PendingCounts
  <1>3. ASSUME trx.owner \notin Clients
        PROVE  tokens = 0 /\ OnTheWay' <= trx.count
    <2>1. tokens = 0 /\ OnTheWay <= trx.count /\ trx.count \in Nat
      BY <1>3 DEF Account, WaitsFit, AtFit, ListFit
    <2> QED
      BY <1>2, <2>1
  <1>4. ASSUME NEW c \in Clients, trx.owner = c
        PROVE  /\ stage[c] # "timedout"
               /\ tokens + OnTheWay' <= IF stage[c] \in Waiting THEN 1 ELSE 0
               /\ stage[c] = "answered" \/ (tokens > 0 /\ stage[c] = "wait") => own[c]
    <2>1. /\ stage[c] # "timedout"
          /\ tokens + OnTheWay <= IF stage[c] \in Waiting THEN 1 ELSE 0
          /\ stage[c] = "answered" \/ (tokens > 0 /\ stage[c] = "wait") => own[c]
      BY <1>4 DEF Account, WaitsFit
    <2> DEFINE n == IF stage[c] \in Waiting THEN 1 ELSE 0
    <2>2. n \in Nat /\ tokens + OnTheWay <= n
      BY <2>1
    <2> HIDE DEF n
    <2>3. \A x, y, z, w \in Nat : x + y <= w /\ z <= y => x + z <= w
      OBVIOUS
    <2>4. tokens + OnTheWay' <= n
      BY <1>2, <2>2, <2>3
    <2> QED
      BY <2>1, <2>4 DEF n
  <1>5. WaitsFit'
    BY <1>3, <1>4 DEF WaitsFit, SameOwner
  <1> QED
    BY <1>1, <1>5 DEF Account

-----------------------------------------------------------------------------
(***************************************************************************)
(* The clients' steps keep the account.                                    *)
(***************************************************************************)
LEMMA CallsOwn ==
    ASSUME AtFit, AtFit', SegmentsFit, Account, NEW c \in Clients, Calls(c)
    PROVE  SegmentsFit' /\ Account'
  <1>1. /\ stage[c] = "idle" /\ cmd' = [cmd EXCEPT ![c] = issued + 1] /\ own' = [own EXCEPT ![c] = FALSE]
        /\ stage' = [stage EXCEPT ![c] = "calling"]
        /\ UNCHANGED <<list, trx, tokens, leaked, valid, rx, wi, wi_bak, ri, queue, modem, mixed, okWithout>>
    BY DEF Calls, listenerVars, indVars, rxVars
  <1>2. trx.owner # c
    BY <1>1 DEF AtFit, ClientFit, Busy, Waiting
  <1>3. \A d \in Clients : trx.owner = d => stage'[d] = stage[d] /\ cmd'[d] = cmd[d] /\ own'[d] = own[d]
    BY <1>1, <1>2 DEF AtFit, ClientFit, HistoryFit
  <1>4. SameOwner
    BY <1>1, <1>3 DEF SameOwner
  <1>5. Pending' = Pending
    BY <1>1 DEF Pending
  <1>6. OnTheWay' <= OnTheWay
    BY <1>1, <1>5, PendingCounts
  <1>7. (\A k \in 1 .. Len(modem') : modem'[k] = Awaited) /\ \A i \in Pending' : rx'[i] = Awaited
    BY <1>1, <1>5 DEF Account, AllAwaited
  <1>8. Account'
    BY <1>1, <1>3, <1>4, <1>6, <1>7, LinesMove
  <1> QED
    BY <1>1, <1>8 DEF SegmentsFit

LEMMA BeginOwn ==
    ASSUME AtFit, AtFit', SegmentsFit, Account, NEW c \in Clients, NEW to, NEW line, Begin(c, to, line),
           <<to, line>> \in {<<"wait", "OK">>, <<"prompt", ">">>}
    PROVE  SegmentsFit' /\ Account'
  <1>1. /\ stage[c] = "calling" /\ trx.owner = Nobody /\ trx' = [owner |-> c, count |-> 1]
        /\ modem' = Append(modem, Line(line, cmd[c])) /\ stage' = [stage EXCEPT ![c] = to]
        /\ UNCHANGED <<tokens, cmd, issued, leaked, valid, rx, wi, wi_bak, ri, queue, own, mixed, okWithout>>
    BY DEF Begin, indVars, rxVars, atHistory
  <1>2. (to = "wait" /\ line = "OK") \/ (to = "prompt" /\ line = ">")
    OBVIOUS
  <1>3. tokens = 0 /\ OnTheWay = 0 /\ modem = <<>> /\ Pending = {}
    <2>1. trx.owner \notin Clients /\ trx.count = 0
      BY <1>1, AtNames DEF AtFit, ListFit, TrxFits
    <2>2. tokens = 0 /\ OnTheWay <= 0
      BY <2>1 DEF Account, WaitsFit
    <2> QED
      BY <2>2, PendingCounts
  <1>4. Pending' = {}
    BY <1>1, <1>3 DEF Pending
  <1>5. modem' = <<Line(line, cmd[c])>>
    BY <1>1, <1>3
  <1>6. stage'[c] = to /\ trx'.owner = c /\ \A d \in Clients : trx'.owner = d => d = c
    BY <1>1 DEF AtFit, ClientFit
  <1>7. Awaited' = Line(line, cmd[c])
    BY <1>1, <1>2, <1>6 DEF Awaited, Suffix, Line
  <1>8. AllAwaited'
    BY <1>4, <1>5, <1>7 DEF AllAwaited
  <1>9. OnTheWay' = 1
    <2>1. Cardinality({}) = 0 /\ Len(modem') = 1
      BY <1>5, FS_EmptySet
    <2> QED
      BY <2>1, <1>4 DEF OnTheWay
  <1>10. WaitsFit'
    BY <1>1, <1>2, <1>3, <1>6, <1>9 DEF WaitsFit, Waiting
  <1> QED
    BY <1>1, <1>8, <1>10 DEF SegmentsFit, Account

LEMMA WaitEnds ==
    ASSUME AtFit, Account, NEW c \in Clients, trx.owner = c
    PROVE  /\ stage[c] # "timedout" /\ (stage[c] = "answered" => own[c])
           /\ stage[c] \in {"prompted", "answered"} => tokens = 0 /\ OnTheWay = 0
           /\ stage[c] \in Waiting => tokens + OnTheWay <= 1 /\ (tokens > 0 /\ stage[c] = "wait" => own[c])
  <1>1. /\ stage[c] # "timedout"
        /\ tokens + OnTheWay <= IF stage[c] \in Waiting THEN 1 ELSE 0
        /\ stage[c] = "answered" \/ (tokens > 0 /\ stage[c] = "wait") => own[c]
    BY DEF Account, WaitsFit
  <1>2. ASSUME stage[c] \in {"prompted", "answered"}
        PROVE  tokens = 0 /\ OnTheWay = 0
    <2>1. stage[c] \notin Waiting
      BY <1>2 DEF Waiting
    <2>2. tokens + OnTheWay <= 0
      BY <1>1, <2>1
    <2>3. tokens \in Nat /\ OnTheWay \in Nat
      BY RingSets, ReadableIs DEF AtFit, ListFit, RxFit, OnTheWay, Pending
    <2> QED
      BY <2>2, <2>3
  <1>3. ASSUME stage[c] \in Waiting
        PROVE  tokens + OnTheWay <= 1
    BY <1>1, <1>3
  <1> QED
    BY <1>1, <1>2, <1>3

LEMMA TakenOwn ==
    ASSUME AtFit, AtFit', SegmentsFit, Account, NEW c \in Clients, RespSemTaken(c)
    PROVE  SegmentsFit' /\ Account'
  <1>1. /\ stage[c] \in Waiting /\ tokens > 0 /\ tokens' = tokens - 1
        /\ stage' = [stage EXCEPT ![c] = IF stage[c] = "prompt" THEN "prompted" ELSE "answered"]
        /\ UNCHANGED <<list, trx, cmd, issued, leaked, valid, rx, wi, wi_bak, ri, queue, modem, own, mixed, okWithout>>
    BY DEF RespSemTaken, indVars, rxVars, atHistory
  <1>2. trx.owner = c
    BY <1>1 DEF AtFit, ClientFit, Busy
  <1>3. tokens + OnTheWay <= 1 /\ (stage[c] = "wait" => own[c])
    BY <1>1, <1>2, WaitEnds
  <1>4. tokens = 1 /\ OnTheWay = 0 /\ modem = <<>> /\ Pending = {}
    BY <1>1, <1>3, PendingCounts
  <1>5. Pending' = {} /\ modem' = <<>> /\ OnTheWay' = 0 /\ tokens' = 0
    <2>1. Pending' = Pending
      BY <1>1 DEF Pending
    <2>2. OnTheWay' = OnTheWay
      BY <1>1, <2>1 DEF OnTheWay
    <2> QED
      BY <1>1, <1>4, <2>1, <2>2
  <1>6. AllAwaited'
    BY <1>5 DEF AllAwaited
  <1>7. stage'[c] = (IF stage[c] = "prompt" THEN "prompted" ELSE "answered") /\ \A d \in Clients : trx'.owner = d => d = c
    BY <1>1, <1>2 DEF AtFit, ClientFit
  <1>8. stage'[c] # "timedout" /\ (stage'[c] = "answered" => own'[c]) /\ stage'[c] # "wait"
    BY <1>1, <1>3, <1>7 DEF Waiting
  <1>9. WaitsFit'
    <2>1. trx'.owner = c
      BY <1>1, <1>2
    <2> QED
      BY <2>1, <1>5, <1>7, <1>8 DEF WaitsFit
  <1> QED
    BY <1>1, <1>6, <1>9 DEF SegmentsFit, Account

LEMMA WriteOwn ==
    ASSUME AtFit, AtFit', SegmentsFit, Account, NEW c \in Clients, WriteData(c)
    PROVE  SegmentsFit' /\ Account'
  <1>1. /\ stage[c] = "prompted" /\ modem' = Append(modem, Line("OK", cmd[c])) /\ stage' = [stage EXCEPT ![c] = "wait"]
        /\ UNCHANGED <<tokens, trx, cmd, issued, leaked, valid, rx, wi, wi_bak, ri, queue, own, mixed, okWithout>>
    BY DEF WriteData, indVars, rxVars, atHistory
  <1>2. trx.owner = c
    BY <1>1 DEF AtFit, ClientFit, Busy
  <1>3. tokens = 0 /\ OnTheWay = 0 /\ modem = <<>> /\ Pending = {}
    BY <1>1, <1>2, WaitEnds, PendingCounts
  <1>4. Pending' = {}
    BY <1>1, <1>3 DEF Pending
  <1>5. modem' = <<Line("OK", cmd[c])>>
    BY <1>1, <1>3
  <1>6. stage'[c] = "wait" /\ trx'.owner = c /\ \A d \in Clients : trx'.owner = d => d = c
    BY <1>1, <1>2 DEF AtFit, ClientFit
  <1>7. Awaited' = Line("OK", cmd[c])
    BY <1>1, <1>6 DEF Awaited, Suffix, Line
  <1>8. AllAwaited'
    BY <1>4, <1>5, <1>7 DEF AllAwaited
  <1>9. OnTheWay' = 1
    <2>1. Cardinality({}) = 0 /\ Len(modem') = 1
      BY <1>5, FS_EmptySet
    <2> QED
      BY <2>1, <1>4 DEF OnTheWay
  <1>10. WaitsFit'
    BY <1>1, <1>3, <1>6, <1>9 DEF WaitsFit, Waiting
  <1> QED
    BY <1>1, <1>8, <1>10 DEF SegmentsFit, Account

LEMMA ReleasesOwn ==
    ASSUME AtFit, AtFit', OwnFit, NEW c \in Clients, Releases(c)
    PROVE  OwnFit'
  <1>1. /\ stage[c] \in {"answered", "timedout"} /\ trx' = Released(trx, 1)
        /\ okWithout' = (okWithout \/ (stage[c] = "answered" /\ ~own[c] /\ ~mixed))
        /\ UNCHANGED <<tokens, cmd, issued, leaked, valid, rx, wi, wi_bak, ri, queue, modem, mixed>>
    BY DEF Releases, indVars, rxVars
  <1>2. trx.owner = c
    BY <1>1 DEF AtFit, ClientFit, Busy
  <1>3. CASE mixed
    BY <1>1, <1>3 DEF OwnFit
  <1>4. CASE ~mixed
    <2>1. SegmentsFit /\ Account /\ ~okWithout
      BY <1>4 DEF OwnFit
    <2>2. stage[c] = "answered" /\ own[c] /\ tokens = 0 /\ OnTheWay = 0
      BY <2>1, <1>1, <1>2, WaitEnds
    <2>3. ~okWithout'
      BY <1>1, <2>1, <2>2
    <2>4. trx' = [owner |-> Nobody, count |-> 0]
      BY <1>1, <1>2, OwnListener DEF AtFit
    <2>5. Pending' = Pending
      BY <1>1 DEF Pending
    <2>6. Pending' = {} /\ modem' = <<>> /\ OnTheWay' = 0
      BY <2>2, <2>5, <1>1, PendingCounts DEF OnTheWay
    <2>7. Account'
      BY <2>2, <2>4, <2>6, <1>1, AtNames DEF Account, AllAwaited, WaitsFit
    <2>8. SegmentsFit'
      BY <1>1, <2>1 DEF SegmentsFit
    <2> QED
      BY <2>3, <2>7, <2>8 DEF OwnFit
  <1> QED
    BY <1>3, <1>4

LEMMA ReturnOwn ==
    ASSUME AtFit, AtFit', SegmentsFit, Account, NEW c \in Clients, Return(c)
    PROVE  SegmentsFit' /\ Account'
  <1> DEFINE m == [type |-> "SENT_DONE"]
  <1>1. /\ stage[c] = "released" /\ queue' = Queued(m)
        /\ \E to \in {"idle", "returned"} : stage' = [stage EXCEPT ![c] = to]
        /\ UNCHANGED <<list, trx, tokens, cmd, issued, leaked, valid, rx, wi, wi_bak, ri, modem, own, mixed, okWithout>>
    BY DEF Return, Returned, listenerVars, indVars, rxVars, atHistory
  <1>2. m \in RecvMessages /\ ~IsRX(m)
    BY DEF RecvMessages, IsRX
  <1> HIDE DEF m
  <1>3. trx.owner # c
    BY <1>1 DEF AtFit, ClientFit, Busy, Waiting
  <1>4. \A d \in Clients : trx.owner = d => stage'[d] = stage[d] /\ cmd'[d] = cmd[d] /\ own'[d] = own[d]
    BY <1>1, <1>3 DEF AtFit, ClientFit
  <1>5. SameOwner
    BY <1>1, <1>4 DEF SameOwner
  <1>6. Pending' = Pending
    BY <1>1 DEF Pending
  <1>7. OnTheWay' <= OnTheWay
    BY <1>1, <1>6, PendingCounts
  <1>8. (\A k \in 1 .. Len(modem') : modem'[k] = Awaited) /\ \A i \in Pending' : rx'[i] = Awaited
    BY <1>1, <1>6 DEF Account, AllAwaited
  <1>9. Account'
    BY <1>1, <1>4, <1>5, <1>7, <1>8, LinesMove
  <1>10. queue \in Seq(RecvMessages) /\ Len(queue) <= RECV_QUEUE
    BY DEF AtFit, RxFit
  <1>11. \A k \in 1 .. Len(queue') : IsRX(queue'[k]) => k \in 1 .. Len(queue) /\ queue'[k] = queue[k]
    BY <1>1, <1>2, <1>10, QueuedFacts
  <1>12. SegmentsFit'
    BY <1>1, <1>11 DEF SegmentsFit
  <1> QED
    BY <1>9, <1>12

LEMMA SocketOwn ==
    ASSUME AtFit, AtFit', SegmentsFit, Account, NEW c \in Clients, nb_close(c) \/ nb_create_sock_link(c)
    PROVE  SegmentsFit' /\ Account'
  <1>1. /\ stage[c] = "returned" /\ stage' = [stage EXCEPT ![c] = "idle"]
        /\ UNCHANGED <<trx, tokens, cmd, rx, wi, wi_bak, ri, queue, modem, own>>
    BY DEF nb_close, nb_create_sock_link, listenerVars, rxVars, atHistory
  <1>2. trx.owner # c
    BY <1>1 DEF AtFit, ClientFit, Busy, Waiting
  <1>3. \A d \in Clients : trx.owner = d => stage'[d] = stage[d] /\ cmd'[d] = cmd[d] /\ own'[d] = own[d]
    BY <1>1, <1>2 DEF AtFit, ClientFit
  <1>4. SameOwner
    BY <1>1, <1>3 DEF SameOwner
  <1>5. Pending' = Pending
    BY <1>1 DEF Pending
  <1>6. OnTheWay' <= OnTheWay
    BY <1>1, <1>5, PendingCounts
  <1>7. (\A k \in 1 .. Len(modem') : modem'[k] = Awaited) /\ \A i \in Pending' : rx'[i] = Awaited
    BY <1>1, <1>5 DEF Account, AllAwaited
  <1>8. Account'
    BY <1>1, <1>3, <1>4, <1>6, <1>7, LinesMove
  <1>9. SegmentsFit'
    BY <1>1 DEF SegmentsFit
  <1> QED
    BY <1>8, <1>9

-----------------------------------------------------------------------------
(***************************************************************************)
(* What the interrupt does keeps it.  A cell that is stored into is not one*)
(* that can be read; the one after it is not where reading starts.         *)
(***************************************************************************)
LEMMA ReceivesSegments ==
    ASSUME AtFit, SegmentsFit, NEW l \in Lines, Receives(l), ~mixed'
    PROVE  /\ SegmentsFit' /\ wi \in Ring
           /\ Pending' \subseteq {i \in Pending : rx'[i] = rx[i]} \cup {wi}
           /\ rx'[wi] = l
           /\ l.kind = "IND" => wi \notin Pending'
  <1> DEFINE n == NextCell(wi)
  <1>1. /\ rx' = [i \in Readable(queue, ri, n) |-> IF i = wi THEN l ELSE rx[i]]
        /\ wi' = n /\ UNCHANGED <<wi_bak, ri, queue>>
        /\ n # ri /\ wi \notin Readable(queue, ri, wi)
    BY DEF Receives, Mixes, NextCell
  <1>2. queue \in Seq(RecvMessages) /\ ri \in Ring /\ wi \in Ring /\ n \in Ring
        /\ DOMAIN rx = Readable(queue, ri, wi)
        /\ Readable(queue, ri, n) \subseteq Readable(queue, ri, wi) \cup {wi}
    BY NextReads DEF AtFit, RxFit
  <1>3. Cells(ri, n) \subseteq Cells(ri, wi) \cup {wi} /\ wi \in Cells(ri, n)
    BY <1>1, <1>2, CellsFacts
  <1>4. \A r \in Ring : r # n => wi \in Cells(r, n)
    BY <1>2, CellsFacts
  <1> HIDE DEF n
  <1>5. wi \in Readable(queue, ri, n)
    BY <1>2, <1>3, ReadableIs
  <1>6. rx'[wi] = l
    BY <1>1, <1>5
  <1>7. Pending' \subseteq {i \in Pending : rx'[i] = rx[i]} \cup {wi}
    BY <1>1, <1>2 DEF Pending
  <1>8. l.kind = "IND" => wi \notin Pending'
    BY <1>6 DEF Pending
  <1>9. ASSUME NEW k \in 1 .. Len(queue), IsRX(queue[k])
        PROVE  /\ queue[k].ori # queue[k].end
               /\ \A i \in Cells(queue[k].ori, queue[k].end) : i \notin Cells(ri, n)
               /\ queue[k].end # n
               /\ \A j \in 1 .. Len(queue) : k < j /\ IsRX(queue[j]) => queue[k].end # ri
    <2>1. /\ queue[k].ori # queue[k].end
          /\ \A i \in Cells(queue[k].ori, queue[k].end) : i \notin Cells(ri, wi)
          /\ \A j \in 1 .. Len(queue) : k < j /\ IsRX(queue[j]) => queue[k].end # ri
      BY <1>9 DEF SegmentsFit
    <2>2. queue[k].ori \in Ring /\ queue[k].end \in Ring
      BY <1>2, <1>9, ReadableIs
    <2>3. wi \notin Cells(queue[k].ori, queue[k].end)
      BY <1>1, <1>2, <1>9, ReadableIs
    <2>4. queue[k].end # n
      BY <2>1, <2>2, <2>3, <1>4
    <2> QED
      BY <2>1, <2>3, <2>4, <1>3
  <1>10. SegmentsFit'
    <2>1. wi_bak = ri
      BY DEF SegmentsFit
    <2> QED
      BY <2>1, <1>1, <1>9 DEF SegmentsFit
  <1> QED
    BY <1>2, <1>6, <1>7, <1>8, <1>10

LEMMA ModemOwn ==
    ASSUME AtFit, AtFit', SegmentsFit, Account, ModemAnswers \/ ModemIndicates, ~mixed'
    PROVE  SegmentsFit' /\ Account'
  <1>1. PICK l \in Lines : Receives(l) /\ \/ modem # <<>> /\ l = modem[1] /\ modem' = Tail(modem)
                                          \/ l.kind = "IND" /\ modem' = modem
    <2>1. CASE ModemAnswers
      <3>1. modem \in Seq(Lines) /\ modem # <<>> /\ modem' = Tail(modem) /\ Receives(Head(modem))
        BY <2>1 DEF ModemAnswers, AtFit
      <3>2. Head(modem) \in Lines /\ Head(modem) = modem[1]
        BY <3>1
      <3> QED
        BY <3>1, <3>2
    <2>2. CASE ModemIndicates
      <3>1. Receives(Line("IND", 0)) /\ modem' = modem
        BY <2>2 DEF ModemIndicates
      <3>2. Line("IND", 0) \in Lines /\ Line("IND", 0).kind = "IND"
        BY AtNames DEF Line, Lines
      <3> QED
        BY <3>1, <3>2
    <2> QED
      BY <2>1, <2>2
  <1>2. /\ SegmentsFit' /\ wi \in Ring
        /\ Pending' \subseteq {i \in Pending : rx'[i] = rx[i]} \cup {wi}
        /\ rx'[wi] = l
        /\ l.kind = "IND" => wi \notin Pending'
    BY <1>1, ReceivesSegments
  <1>3. UNCHANGED <<stage, cmd, issued, trx, tokens>> /\ own' = own
    BY <1>1 DEF Receives, Mixes, clientVars, listenerVars
  <1>4. SameOwner
    BY <1>3 DEF SameOwner
  <1>5. (\A k \in 1 .. Len(modem) : modem[k] = Awaited) /\ \A i \in Pending : rx[i] = Awaited
    BY DEF Account, AllAwaited
  <1>6. CASE modem # <<>> /\ l = modem[1] /\ modem' = Tail(modem)
    <2>1. /\ Len(modem') = Len(modem) - 1 /\ 1 \in 1 .. Len(modem)
          /\ \A k \in 1 .. Len(modem') : modem'[k] = modem[k + 1] /\ k + 1 \in 1 .. Len(modem)
      <3>1. modem \in Seq(Lines)
        BY DEF AtFit
      <3> QED
        BY <3>1, <1>6
    <2>2. \A k \in 1 .. Len(modem') : modem'[k] = Awaited
      BY <2>1, <1>5
    <2>3. \A i \in Pending' : rx'[i] = Awaited
      BY <2>1, <1>2, <1>5, <1>6
    <2>4. Cardinality(Pending') <= Cardinality(Pending) + 1
      <3>1. Pending' \in SUBSET (Pending \cup {wi})
        BY <1>2
      <3> QED
        BY <3>1, <1>2, RingAdds, PendingCounts
    <2>5. OnTheWay' <= OnTheWay
      BY <2>1, <2>4, PendingCounts
    <2> QED
      BY <2>2, <2>3, <2>5, <1>2, <1>3, <1>4, LinesMove
  <1>7. CASE l.kind = "IND" /\ modem' = modem
    <2>1. Pending' \in SUBSET Pending /\ \A i \in Pending' : rx'[i] = Awaited
      BY <1>2, <1>5, <1>7
    <2>2. Cardinality(Pending') <= Cardinality(Pending)
      BY <2>1, RingSubsets, PendingCounts
    <2>3. OnTheWay' <= OnTheWay
      BY <2>2, <1>7, PendingCounts
    <2>4. \A k \in 1 .. Len(modem') : modem'[k] = Awaited
      BY <1>5, <1>7
    <2> QED
      BY <2>1, <2>3, <2>4, <1>2, <1>3, <1>4, LinesMove
  <1> QED
    BY <1>1, <1>6, <1>7

(***************************************************************************)
(* Fewer cells that can be read are fewer lines on their way.              *)
(***************************************************************************)
LEMMA ReadsLess ==
    ASSUME AtFit, AtFit', Account, DOMAIN rx' \subseteq DOMAIN rx, \A i \in DOMAIN rx' : rx'[i] = rx[i],
           UNCHANGED <<stage, cmd, trx, tokens, own, modem>>
    PROVE  Account'
  <1>1. Pending' \in SUBSET Pending
    BY DEF Pending
  <1>2. Cardinality(Pending') <= Cardinality(Pending)
    BY <1>1, RingSubsets, PendingCounts
  <1>3. OnTheWay' <= OnTheWay
    BY <1>2, PendingCounts
  <1>4. (\A k \in 1 .. Len(modem') : modem'[k] = Awaited) /\ \A i \in Pending' : rx'[i] = Awaited
    BY <1>1 DEF Account, AllAwaited, Pending
  <1>5. SameOwner
    BY DEF SameOwner
  <1> QED
    BY <1>3, <1>4, <1>5, LinesMove

LEMMA IdleOwn ==
    ASSUME AtFit, AtFit', SegmentsFit, Account, Idle
    PROVE  SegmentsFit' /\ Account'
  <1> DEFINE m == [type |-> "RX", ori |-> ri, end |-> wi]
  <1>1. /\ wi # wi_bak /\ wi_bak' = wi /\ ri' = wi /\ queue' = Queued(m)
        /\ rx' = [i \in Readable(queue', wi, wi) |-> rx[i]]
        /\ UNCHANGED <<stage, cmd, issued, list, trx, tokens, leaked, valid, wi, indications, modem, mixed, own, okWithout>>
    BY DEF Idle, clientVars, listenerVars, indVars, atHistory
  <1>2. queue \in Seq(RecvMessages) /\ Len(queue) <= RECV_QUEUE /\ ri \in Ring /\ wi \in Ring
        /\ DOMAIN rx = Readable(queue, ri, wi)
    BY DEF AtFit, RxFit
  <1>3. m \in RecvMessages /\ m.ori = ri /\ m.end = wi
    BY <1>2 DEF RecvMessages
  <1> HIDE DEF m
  <1>4. \A k \in 1 .. Len(queue') : (k \in 1 .. Len(queue) /\ queue'[k] = queue[k]) \/ (k = Len(queue) + 1 /\ queue'[k] = m)
    BY <1>1, <1>2, <1>3, QueuedFacts, ZenonT(60)
  <1>5. ri # wi /\ wi_bak = ri
    BY <1>1 DEF SegmentsFit
  <1>6. \A k \in 1 .. Len(queue) : IsRX(queue[k]) => queue[k].ori # queue[k].end /\ queue[k].end # wi
    BY <1>5 DEF SegmentsFit
  <1>7. \A i : i \notin Cells(wi, wi)
    BY <1>2, CellsFacts
  <1>8. SegmentsFit'
    <2>1. ASSUME NEW k \in 1 .. Len(queue'), IsRX(queue'[k])
          PROVE  /\ queue'[k].ori # queue'[k].end
                 /\ \A j \in 1 .. Len(queue') : k < j /\ IsRX(queue'[j]) => queue'[k].end # wi
      <3>1. CASE k \in 1 .. Len(queue) /\ queue'[k] = queue[k]
        BY <3>1, <2>1, <1>6
      <3>2. CASE k = Len(queue) + 1 /\ queue'[k] = m
        <4>1. \A j \in 1 .. Len(queue') : ~(k < j)
          BY <3>2, <1>4, <1>2
        <4> QED
          BY <4>1, <3>2, <1>3, <1>5
      <3> QED
        BY <3>1, <3>2, <1>4
    <2> QED
      BY <2>1, <1>1, <1>7 DEF SegmentsFit
  <1>9. DOMAIN rx' = Readable(queue', wi, wi) /\ \A i \in DOMAIN rx' : rx'[i] = rx[i]
    BY <1>1
  <1>10. ASSUME NEW i \in Readable(queue', wi, wi)
         PROVE  i \in Readable(queue, ri, wi)
    <2>1. queue' \in Seq(RecvMessages)
      BY DEF AtFit, RxFit
    <2>2. PICK k \in 1 .. Len(queue') :
              IsRX(queue'[k]) /\ (i \in Cells(queue'[k].ori, queue'[k].end) \/ i \in Cells(queue'[k].end, wi))
      BY <2>1, <1>2, <1>7, <1>10, ReadableIs
    <2>3. CASE k \in 1 .. Len(queue) /\ queue'[k] = queue[k]
      BY <2>2, <2>3, <1>2, ReadableIs
    <2>4. CASE queue'[k] = m
      BY <2>2, <2>4, <1>2, <1>3, <1>7, ReadableIs
    <2> QED
      BY <2>3, <2>4, <1>4
  <1>11. Account'
    <2>1. DOMAIN rx' \subseteq DOMAIN rx
      BY <1>2, <1>9, <1>10
    <2> QED
      BY <2>1, <1>1, <1>9, ReadsLess
  <1> QED
    BY <1>8, <1>11

LEMMA ExpiresOwn ==
    ASSUME AtFit, AtFit', SegmentsFit, Account, Expires
    PROVE  SegmentsFit' /\ Account'
  <1>1. UNCHANGED <<stage, cmd, issued, trx, tokens, leaked, valid, rx, wi, wi_bak, ri, queue, modem, mixed, own, okWithout>>
    BY DEF Expires, clientVars, indVars, rxVars, atHistory
  <1>2. Account'
    BY <1>1, ReadsLess
  <1> QED
    BY <1>1, <1>2 DEF SegmentsFit

-----------------------------------------------------------------------------
(***************************************************************************)
(* The receive task keeps it.  A segment that is read where reading stands *)
(* is the last that is queued, and what it holds is read once.             *)
(***************************************************************************)
LEMMA HandleSegments ==
    ASSUME AtFit, SegmentsFit, HandleMessage, ri' = ri
    PROVE  /\ SegmentsFit'
           /\ Pending' \subseteq Pending
           /\ \A i \in Pending' : rx'[i] = rx[i] /\ i \notin MessageCells(Head(queue))
           /\ MessageCells(Head(queue)) \subseteq DOMAIN rx
  <1> DEFINE m == Head(queue)
             t == Tail(queue)
  <1>1. /\ queue # <<>> /\ queue' = t
        /\ ri' = IF Texts(m) = {} THEN ri ELSE m.end
        /\ rx' = [i \in Readable(t, ri, wi) |-> rx[i]]
        /\ UNCHANGED <<wi, wi_bak>>
    BY MessageHandled
  <1>2. queue \in Seq(RecvMessages) /\ ri \in Ring /\ wi \in Ring /\ DOMAIN rx = Readable(queue, ri, wi)
    BY DEF AtFit, RxFit
  <1>3. /\ m = queue[1] /\ 1 \in 1 .. Len(queue)
        /\ t \in Seq(RecvMessages)
        /\ \A k \in 1 .. Len(t) : t[k] = queue[k + 1] /\ k + 1 \in 1 .. Len(queue) /\ 1 < k + 1
        /\ \A j, k \in 1 .. Len(t) : k < j => k + 1 < j + 1
    BY <1>1, <1>2
  <1>4. Readable(t, ri, wi) \subseteq Readable(queue, ri, wi)
    BY <1>1, TailReads DEF AtFit
  <1> HIDE DEF m, t
  <1>5. MessageCells(m) \subseteq DOMAIN rx
    <2>1. ASSUME NEW i \in MessageCells(m)
          PROVE  i \in Readable(queue, ri, wi)
      <3>1. IsRX(queue[1]) /\ i \in Cells(queue[1].ori, queue[1].end)
        BY <2>1, <1>3 DEF MessageCells, IsRX
      <3> QED
        BY <3>1, <1>2, <1>3, ReadableIs
    <2> QED
      BY <2>1, <1>2
  <1>6. SegmentsFit'
    <2>1. wi_bak = ri
      BY DEF SegmentsFit
    <2>2. ASSUME NEW k \in 1 .. Len(t), IsRX(t[k])
          PROVE  /\ t[k].ori # t[k].end
                 /\ \A i \in Cells(t[k].ori, t[k].end) : i \notin Cells(ri, wi)
                 /\ t[k].end = wi => ri = wi
                 /\ \A j \in 1 .. Len(t) : k < j /\ IsRX(t[j]) => t[k].end # ri
      <3> DEFINE n == k + 1
      <3>1. n \in 1 .. Len(queue) /\ t[k] = queue[n]
        BY <1>3
      <3>2. \A j \in 1 .. Len(t) : k < j /\ IsRX(t[j]) => \E h \in 1 .. Len(queue) : n < h /\ IsRX(queue[h])
        <4>1. ASSUME NEW j \in 1 .. Len(t), k < j, IsRX(t[j])
              PROVE  \E h \in 1 .. Len(queue) : n < h /\ IsRX(queue[h])
          <5>1. t[j] = queue[j + 1] /\ j + 1 \in 1 .. Len(queue) /\ n < j + 1
            BY <4>1, <1>3
          <5> QED
            BY <4>1, <5>1
        <4> QED
          BY <4>1
      <3> HIDE DEF n
      <3> QED
        BY <2>2, <3>1, <3>2 DEF SegmentsFit
    <2> QED
      BY <2>1, <2>2, <1>1 DEF SegmentsFit
  <1>7. ASSUME NEW i \in Readable(t, ri, wi), i \in MessageCells(m)
        PROVE  FALSE
    <2>1. IsRX(queue[1]) /\ i \in Cells(queue[1].ori, queue[1].end)
      BY <1>7, <1>3 DEF MessageCells, IsRX
    <2>2. Texts(m) # {} /\ queue[1].end = ri
      <3>1. Texts(m) # {}
        BY <1>7 DEF Texts
      <3> QED
        BY <3>1, <1>1, <1>3
    <2>3. i \notin Cells(ri, wi) /\ \A j \in 1 .. Len(queue) : 1 < j => ~IsRX(queue[j])
      BY <2>1, <2>2, <1>3 DEF SegmentsFit
    <2>4. PICK k \in 1 .. Len(t) : IsRX(t[k])
      BY <1>7, <2>3, <1>2, <1>3, ReadableIs
    <2>5. t[k] = queue[k + 1] /\ k + 1 \in 1 .. Len(queue) /\ 1 < k + 1
      BY <1>3
    <2> QED
      BY <2>3, <2>4, <2>5
  <1>8. ASSUME NEW i \in Pending'
        PROVE  i \in Pending /\ rx'[i] = rx[i] /\ i \notin MessageCells(m)
    <2>1. i \in Readable(t, ri, wi) /\ rx'[i] = rx[i] /\ rx[i].kind # "IND"
      BY <1>1, <1>8 DEF Pending
    <2> QED
      BY <2>1, <1>2, <1>4, <1>7 DEF Pending
  <1> QED
    BY <1>5, <1>6, <1>8 DEF m

(***************************************************************************)
(* A line of the message is one fewer on its way.                          *)
(***************************************************************************)
LEMMA HandleCounts ==
    ASSUME AtFit, AtFit', SegmentsFit, Account, HandleMessage, ri' = ri
    PROVE  /\ Cardinality(Pending') <= Cardinality(Pending)
           /\ \A l \in Texts(Head(queue)) : l.kind # "IND" =>
                  l = Awaited /\ Cardinality(Pending') + 1 <= Cardinality(Pending)
  <1>1. /\ Pending' \in SUBSET Pending
        /\ \A i \in Pending' : i \notin MessageCells(Head(queue))
        /\ MessageCells(Head(queue)) \subseteq DOMAIN rx
    BY HandleSegments
  <1>2. Pending \in SUBSET Ring
    BY PendingCounts
  <1>3. /\ Cardinality(Pending') <= Cardinality(Pending)
        /\ \A i \in Pending : i \notin Pending' => Cardinality(Pending') + 1 <= Cardinality(Pending)
    BY <1>1, <1>2, RingSubsets
  <1>4. ASSUME NEW l \in Texts(Head(queue)), l.kind # "IND"
        PROVE  l = Awaited /\ Cardinality(Pending') + 1 <= Cardinality(Pending)
    <2>1. PICK i \in MessageCells(Head(queue)) : l = rx[i]
      BY DEF Texts
    <2>2. i \in Pending /\ i \notin Pending'
      BY <2>1, <1>1, <1>4 DEF Pending
    <2>3. rx[i] = Awaited
      BY <2>2 DEF Account, AllAwaited
    <2> QED
      BY <2>1, <2>2, <2>3, <1>3
  <1> QED
    BY <1>3, <1>4

LEMMA HandleAwaits ==
    ASSUME AtFit, AtFit', SegmentsFit, Account, HandleMessage, ri' = ri,
           UNCHANGED Awaited, modem' \in {modem, Append(modem, Awaited)}
    PROVE  AllAwaited'
  <1>1. Pending' \subseteq Pending /\ \A i \in Pending' : rx'[i] = rx[i]
    BY HandleSegments
  <1>2. (\A k \in 1 .. Len(modem) : modem[k] = Awaited) /\ \A i \in Pending : rx[i] = Awaited
    BY DEF Account, AllAwaited
  <1>3. \A k \in 1 .. Len(modem') : modem'[k] = Awaited
    <2>1. modem \in Seq(Lines)
      BY DEF AtFit
    <2>2. CASE modem' = modem
      BY <2>2, <1>2
    <2>3. CASE modem' = Append(modem, Awaited)
      BY <2>1, <2>3, <1>2
    <2> QED
      BY <2>2, <2>3
  <1> QED
    BY <1>1, <1>2, <1>3 DEF AllAwaited

(***************************************************************************)
(* No callback has expired and the message is read where it should be.     *)
(***************************************************************************)
LEMMA HandledUnmixed ==
    ASSUME AtFit, HandleMessage, ~mixed'
    PROVE  \E s, e :
               /\ Handled(Head(queue), Now, s, e)
               /\ ri' = ri /\ ~mixed
               /\ Texts(Head(queue)) # {} => ~CallbackRefuses(s, Texts(Head(queue)))
  <1> DEFINE m == Head(queue)
             old == at_rm_timeout_nodes(Now)
  <1>1. \E s, e : Handled(m, old, s, e)
    BY MessageHandled
  <1>2. PICK s, e : Handled(m, old, s, e)
    BY <1>1
  <1> HIDE DEF m, old
  <1>3. ~mixed /\ old.list = list /\ ri' = ri /\ (Texts(m) # {} => ~CallbackRefuses(s, Texts(m)))
    BY <1>2 DEF Handled
  <1>4. Holds(Now) /\ Now.list = list
    BY NowHolds DEF AtFit
  <1>5. old = Now
    BY <1>3, <1>4, TimeoutsHold DEF old
  <1> QED
    BY <1>2, <1>3, <1>5 DEF m

(***************************************************************************)
(* A client owns trx_mux: an answer gives it a token and is then read.     *)
(***************************************************************************)
LEMMA HandleOwned ==
    ASSUME AtFit, AtFit', SegmentsFit, Account, HandleMessage, ~mixed',
           NEW c \in Clients, trx.owner = c
    PROVE  Account'
  <1> DEFINE m == Head(queue)
             text == Texts(m)
  <1>1. PICK s, e : Handled(m, Now, s, e) /\ ri' = ri /\ ~mixed /\ (text # {} => ~CallbackRefuses(s, text))
    BY HandledUnmixed
  <1>2. UNCHANGED <<stage, cmd>>
    BY MessageHandled
  <1>3. Now.trx = trx /\ Now.tokens = tokens /\ Now.sent = FALSE
    BY NowHolds DEF AtFit
  <1>4. s.trx = trx /\ s.tokens = tokens /\ s.sent = FALSE /\ Holds(s)
    BY <1>1, <1>3 DEF Handled, Follows
  <1>5. /\ Cardinality(Pending') <= Cardinality(Pending)
        /\ \A l \in text : l.kind # "IND" => l = Awaited /\ Cardinality(Pending') + 1 <= Cardinality(Pending)
    BY <1>1, HandleCounts
  <1>6. /\ trx' = e.trx /\ tokens' = e.tokens /\ e = (IF text = {} THEN s ELSE at_handle_resp(s, text))
        /\ modem' = (IF e.sent THEN Append(modem, Line("DATA", 0)) ELSE modem)
        /\ own' = [d \in Clients |-> ~mixed' /\ (own[d] \/ (Answered(s, text, d) /\ Line("OK", cmd[d]) \in text))]
    BY <1>1 DEF Handled
  <1> HIDE DEF m, text
  <1> DEFINE r == at_handle_resp(s, text)
  <1>7. /\ r.sent = s.sent
        /\ CallbackTakes(s, text) => s.trx.owner = Recv
        /\ ~CallbackTakes(s, text) => r.trx = s.trx
        /\ (\E d \in Clients : Answered(s, text, d)) => r.tokens = s.tokens + 1
        /\ (~CallbackRefuses(s, text) /\ ~ \E d \in Clients : Answered(s, text, d)) => r.tokens = s.tokens
        /\ \A d \in Clients : Answered(s, text, d) => s.trx.owner = d
    BY <1>4, RespHolds
  <1> HIDE DEF r
  <1>8. e = (IF text = {} THEN s ELSE r)
    BY <1>6 DEF r
  <1>9. trx' = trx /\ modem' = modem
    BY <1>4, <1>6, <1>7, <1>8, AtNames
  <1>10. SameOwner
    BY <1>2, <1>9 DEF SameOwner
  <1>11. own[c] => own'[c]
    BY <1>6
  <1>12. AllAwaited'
    BY <1>1, <1>9, <1>10, AwaitedStays, HandleAwaits
  <1>13. /\ stage[c] # "timedout"
         /\ tokens + OnTheWay <= IF stage[c] \in Waiting THEN 1 ELSE 0
         /\ stage[c] = "answered" \/ (tokens > 0 /\ stage[c] = "wait") => own[c]
    BY DEF Account, WaitsFit
  <1>14. CASE text # {} /\ Answered(s, text, c)
    <2>1. PICK l \in text : Matches(Suffix(c), l)
      BY <1>14 DEF Answered
    <2>2. l.kind # "IND"
      BY <2>1 DEF Matches, Suffix
    <2>3. l = Awaited /\ Cardinality(Pending') + 1 <= Cardinality(Pending)
      BY <2>2, <1>5
    <2>4. tokens' = tokens + 1
      BY <1>4, <1>6, <1>7, <1>8, <1>14
    <2>5. OnTheWay' + 1 <= OnTheWay
      BY <2>3, <1>9, PendingCounts
    <2>6. stage[c] \in Waiting /\ tokens' + OnTheWay' <= 1
      BY <2>4, <2>5, <1>13, PendingCounts, SMTT(60)
    <2>7. ASSUME stage[c] = "wait"
          PROVE  own'[c]
      <3>1. l = Line("OK", cmd[c])
        BY <2>3, <2>7 DEF Awaited, Suffix
      <3> QED
        BY <3>1, <1>6, <1>14
    <2>8. WaitsFit'
      BY <2>6, <2>7, <1>2, <1>9, <1>13 DEF WaitsFit, Waiting
    <2> QED
      BY <2>8, <1>12 DEF Account
  <1>15. CASE text = {} \/ ~Answered(s, text, c)
    <2>1. tokens' = tokens
      BY <1>1, <1>4, <1>6, <1>7, <1>8, <1>15 DEF text
    <2>2. OnTheWay' <= OnTheWay
      BY <1>5, <1>9, PendingCounts
    <2>3. tokens' + OnTheWay' <= tokens + OnTheWay
      BY <2>1, <2>2, PendingCounts
    <2> DEFINE n == IF stage[c] \in Waiting THEN 1 ELSE 0
    <2>4. n \in Nat /\ tokens + OnTheWay <= n
      BY <1>13
    <2> HIDE DEF n
    <2>5. tokens' + OnTheWay' <= n
      <3>1. \A x, y, z \in Nat : x <= y /\ y <= z => x <= z
        OBVIOUS
      <3>2. tokens' + OnTheWay' \in Nat /\ tokens + OnTheWay \in Nat
        BY PendingCounts, SMTT(60)
      <3> QED
        BY <3>1, <3>2, <2>3, <2>4, SMTT(60)
    <2>6. WaitsFit'
      BY <2>1, <2>5, <1>2, <1>9, <1>11, <1>13 DEF WaitsFit, n
    <2> QED
      BY <2>6, <1>12 DEF Account
  <1> QED
    BY <1>14, <1>15

(***************************************************************************)
(* No client owns it: what is on its way is for the callbacks, each with a *)
(* level of trx_mux.                                                       *)
(***************************************************************************)
LEMMA HandleUnowned ==
    ASSUME AtFit, AtFit', SegmentsFit, Account, HandleMessage, ~mixed', trx.owner \notin Clients
    PROVE  Account'
  <1> DEFINE m == Head(queue)
             text == Texts(m)
  <1>1. PICK s, e : Handled(m, Now, s, e) /\ ri' = ri /\ ~mixed /\ (text # {} => ~CallbackRefuses(s, text))
    BY HandledUnmixed
  <1>2. Now.trx = trx /\ Now.tokens = tokens /\ Now.sent = FALSE
    BY NowHolds DEF AtFit
  <1>3. /\ Holds(s) /\ s.trx.owner \notin Clients /\ s.tokens = tokens
        /\ trx.count <= s.trx.count - Sends(s)
    <2>1. Follows(Now, s) /\ Holds(s) /\ Sends(Now) = 0
      BY <1>1, <1>2 DEF Handled, Sends
    <2>2. trx.count \in Nat
      BY DEF AtFit, ListFit
    <2>3. s.tokens = tokens /\ trx.count - 0 <= s.trx.count - Sends(s)
      BY <1>2, <2>1 DEF Follows
    <2>4. s.trx.owner \notin Clients
      BY <1>2, <2>1 DEF Follows
    <2> QED
      BY <2>1, <2>2, <2>3, <2>4
  <1>4. /\ Cardinality(Pending') <= Cardinality(Pending)
        /\ \A l \in text : l.kind # "IND" => l = Awaited /\ Cardinality(Pending') + 1 <= Cardinality(Pending)
    BY <1>1, HandleCounts
  <1>5. /\ trx' = e.trx /\ tokens' = e.tokens /\ e = (IF text = {} THEN s ELSE at_handle_resp(s, text))
        /\ modem' = (IF e.sent THEN Append(modem, Line("DATA", 0)) ELSE modem)
    BY <1>1 DEF Handled
  <1> HIDE DEF m, text
  <1> DEFINE r == at_handle_resp(s, text)
  <1>6. /\ r.sent = s.sent /\ Holds(r)
        /\ CallbackTakes(s, text) => /\ r.trx.owner \in {Recv, Nobody}
                                     /\ r.trx.count = s.trx.count - 1
        /\ ~CallbackTakes(s, text) => r.trx = s.trx
        /\ (\E d \in Clients : Answered(s, text, d)) => \E d \in Clients : s.trx.owner = d
        /\ CallbackTakes(s, text) => r.tokens = s.tokens
        /\ (~CallbackRefuses(s, text) /\ ~ \E d \in Clients : Answered(s, text, d)) => r.tokens = s.tokens
    BY <1>3, RespHolds
  <1> HIDE DEF r
  <1>7. e = (IF text = {} THEN s ELSE r)
    BY <1>5 DEF r
  <1>8. trx'.owner \notin Clients
    BY <1>3, <1>5, <1>6, <1>7, AtNames
  <1>9. Awaited = Line("DATA", 0) /\ Awaited' = Line("DATA", 0)
    BY <1>8 DEF Awaited, Line
  <1>10. AllAwaited'
    BY <1>1, <1>5, <1>9, HandleAwaits
  <1>11. tokens = 0 /\ OnTheWay <= trx.count
    BY DEF Account, WaitsFit
  <1>12. tokens' = 0
    BY <1>1, <1>3, <1>5, <1>6, <1>7, <1>11 DEF text
  <1>13. Len(modem') = Len(modem) + Sends(s)
    <2>1. e.sent = s.sent /\ modem \in Seq(Lines)
      BY <1>6, <1>7 DEF AtFit
    <2> QED
      BY <2>1, <1>5 DEF Sends
  <1>14. Sends(s) \in Nat /\ s.trx.count \in Nat /\ trx.count \in Nat
    BY <1>3 DEF Sends, Holds, Views, AtFit, ListFit
  <1>15. OnTheWay' <= trx'.count
    <2>1. CASE text # {} /\ CallbackTakes(s, text)
      <3>1. PICK l \in text : l.kind = "DATA"
        BY <2>1 DEF CallbackTakes
      <3>2. Cardinality(Pending') + 1 <= Cardinality(Pending)
        BY <3>1, <1>4
      <3>3. trx'.count = s.trx.count - 1
        BY <2>1, <1>5, <1>6, <1>7
      <3> DEFINE x == Cardinality(Pending')
                 y == Cardinality(Pending)
                 z == Len(modem')
                 w == Len(modem)
                 n == Sends(s)
                 k == trx.count
                 h == s.trx.count
      <3>4. x \in Nat /\ y \in Nat /\ z \in Nat /\ w \in Nat /\ n \in Nat /\ k \in Nat /\ h \in Nat
        BY <1>14, PendingCounts
      <3>5. OnTheWay' = z + x /\ w + y <= k
        BY <1>11, PendingCounts
      <3>6. x + 1 <= y /\ z = w + n /\ k <= h - n
        BY <3>2, <1>3, <1>13
      <3> HIDE DEF x, y, z, w, n, k, h
      <3>7. z + x <= h - 1
        BY <3>4, <3>5, <3>6
      <3> QED
        BY <3>3, <3>5, <3>7 DEF h
    <2>2. CASE text = {} \/ ~CallbackTakes(s, text)
      <3>1. trx'.count = s.trx.count
        BY <2>2, <1>5, <1>6, <1>7
      <3> QED
        BY <3>1, <1>3, <1>4, <1>11, <1>13, <1>14, PendingCounts, SMTT(60)
    <2> QED
      BY <2>1, <2>2
  <1>16. WaitsFit'
    BY <1>8, <1>12, <1>15 DEF WaitsFit
  <1> QED
    BY <1>10, <1>16 DEF Account

-----------------------------------------------------------------------------
LEMMA OwnFitInit ==
    ASSUME AtInit
    PROVE  OwnFit
  <1>1. /\ queue = <<>> /\ rx = <<>> /\ modem = <<>> /\ wi_bak = 0 /\ ri = 0 /\ okWithout = FALSE
        /\ trx.owner = Nobody /\ trx.count = 0 /\ tokens = 0
    BY DEF AtInit
  <1>2. SegmentsFit
    BY <1>1 DEF SegmentsFit
  <1>3. Pending = {} /\ Len(modem) = 0
    BY <1>1 DEF Pending
  <1>4. OnTheWay = 0
    <2>1. Cardinality({}) = 0
      BY FS_EmptySet
    <2> QED
      BY <2>1, <1>3 DEF OnTheWay
  <1>5. Account
    BY <1>1, <1>3, <1>4, AtNames DEF Account, AllAwaited, WaitsFit
  <1> QED
    BY <1>1, <1>2, <1>5 DEF OwnFit

(***************************************************************************)
(* Only a call that returns sets okWithout, and mixed stays set.           *)
(***************************************************************************)
LEMMA HistoryStays ==
    ASSUME AtFit, OwnFit, [AtNext]_atVars, \A c \in Clients : ~Releases(c)
    PROVE  ~okWithout' /\ (mixed => mixed')
  <1>1. ~okWithout
    BY DEF OwnFit
  <1>2. ASSUME NEW c \in Clients, ClientStep(c)
        PROVE  UNCHANGED okWithout /\ (mixed => mixed')
    <2>1. CASE Calls(c)
      BY <2>1 DEF Calls
    <2>2. CASE at_cmd_multi_suffix(c) \/ at_write(c)
      BY <2>2 DEF at_cmd_multi_suffix, at_write, Begin, atHistory
    <2>3. CASE RespSemTaken(c)
      BY <2>3 DEF RespSemTaken, atHistory
    <2>4. CASE RespSemTimeout(c)
      BY <2>4 DEF RespSemTimeout, Mixes
    <2>5. CASE WriteData(c)
      BY <2>5 DEF WriteData, atHistory
    <2>6. CASE Return(c)
      BY <2>6 DEF Return, atHistory
    <2>7. CASE nb_close(c)
      BY <2>7 DEF nb_close, atHistory
    <2>8. CASE nb_create_sock_link(c)
      BY <2>8 DEF nb_create_sock_link, atHistory
    <2> QED
      BY <1>2, <2>1, <2>2, <2>3, <2>4, <2>5, <2>6, <2>7, <2>8 DEF ClientStep, Proceeds
  <1>3. ASSUME ModemAnswers \/ ModemIndicates \/ Idle \/ Expires \/ UNCHANGED atVars
        PROVE  UNCHANGED okWithout /\ (mixed => mixed')
    <2>1. ASSUME NEW l, Receives(l)
          PROVE  UNCHANGED okWithout /\ (mixed => mixed')
      <3>1. UNCHANGED okWithout
        BY <2>1 DEF Receives
      <3>2. PICK b : mixed' = (mixed \/ b)
        BY <2>1 DEF Receives, Mixes
      <3> QED
        BY <3>1, <3>2
    <2>2. CASE ModemAnswers \/ ModemIndicates
      BY <2>1, <2>2 DEF ModemAnswers, ModemIndicates
    <2>3. CASE Idle
      BY <2>3 DEF Idle, atHistory
    <2>4. CASE Expires
      BY <2>4 DEF Expires, atHistory
    <2>5. CASE UNCHANGED atVars
      BY <2>5 DEF atVars, atHistory
    <2> QED
      BY <1>3, <2>2, <2>3, <2>4, <2>5
  <1>4. ASSUME HandleMessage
        PROVE  UNCHANGED okWithout /\ (mixed => mixed')
    <2>1. UNCHANGED okWithout /\ \E s, e : Handled(Head(queue), at_rm_timeout_nodes(Now), s, e)
      BY <1>4, MessageHandled
    <2> QED
      BY <2>1 DEF Handled
  <1> QED
    BY <1>1, <1>2, <1>3, <1>4 DEF AtNext

LEMMA OwnFitStep ==
    ASSUME AtFit, AtFit', OwnFit, [AtNext]_atVars
    PROVE  OwnFit'
  <1>1. CASE \E c \in Clients : Releases(c)
    BY <1>1, ReleasesOwn
  <1>2. CASE \A c \in Clients : ~Releases(c)
    <2>1. ~okWithout' /\ (mixed => mixed')
      BY <1>2, HistoryStays
    <2>2. ASSUME ~mixed'
          PROVE  SegmentsFit' /\ Account'
      <3>1. SegmentsFit /\ Account
        BY <2>1, <2>2 DEF OwnFit
      <3>2. ASSUME NEW c \in Clients, ClientStep(c)
            PROVE  SegmentsFit' /\ Account'
        <4>1. CASE Calls(c)
          BY <4>1, <3>1, CallsOwn
        <4>2. CASE at_cmd_multi_suffix(c)
          <5>1. Begin(c, "wait", "OK")
            BY <4>2 DEF at_cmd_multi_suffix
          <5> QED
            BY <5>1, <3>1, BeginOwn
        <4>3. CASE at_write(c)
          <5>1. Begin(c, "prompt", ">")
            BY <4>3 DEF at_write
          <5> QED
            BY <5>1, <3>1, BeginOwn
        <4>4. CASE RespSemTaken(c)
          BY <4>4, <3>1, TakenOwn
        <4>5. CASE RespSemTimeout(c)
          BY <4>5, <2>2 DEF RespSemTimeout, Mixes
        <4>6. CASE WriteData(c)
          BY <4>6, <3>1, WriteOwn
        <4>7. CASE Return(c)
          BY <4>7, <3>1, ReturnOwn
        <4>8. CASE nb_close(c) \/ nb_create_sock_link(c)
          BY <4>8, <3>1, SocketOwn
        <4> QED
          BY <3>2, <1>2, <4>1, <4>2, <4>3, <4>4, <4>5, <4>6, <4>7, <4>8 DEF ClientStep, Proceeds
      <3>3. ASSUME HandleMessage
            PROVE  SegmentsFit' /\ Account'
        <4>1. ri' = ri
          BY <3>3, <2>2, HandledUnmixed
        <4> QED
          BY <3>1, <3>3, <4>1, <2>2, HandleSegments, HandleOwned, HandleUnowned
      <3>4. CASE UNCHANGED atVars
        <4>1. UNCHANGED <<stage, cmd, trx, tokens, rx, wi, wi_bak, ri, queue, modem, own>>
          BY <3>4 DEF atVars, clientVars, atHistory, listenerVars, indVars, rxVars
        <4> QED
          BY <4>1, <3>1, ReadsLess DEF SegmentsFit
      <3> QED
        BY <2>2, <3>1, <3>2, <3>3, <3>4, ModemOwn, IdleOwn, ExpiresOwn DEF AtNext
    <2> QED
      BY <2>1, <2>2 DEF OwnFit
  <1> QED
    BY <1>1, <1>2

(***************************************************************************)
(* AnswerIsOwnUnlessMixed: at_cmd returns AT_OK only after the answer to   *)
(* its command met its listener, unless a wait timed out, text met a       *)
(* callback that does not take it, or received data was mixed up.          *)
(***************************************************************************)
THEOREM AnswersAreOwn == AtSpec => []AnswerIsOwnUnlessMixed
  <1>1. AtInit => AtFit /\ OwnFit
    BY AtFitInit, OwnFitInit
  <1>2. AtFit /\ OwnFit /\ [AtNext]_atVars => AtFit' /\ OwnFit'
    BY AtFitStep, OwnFitStep
  <1>3. OwnFit => AnswerIsOwnUnlessMixed
    BY DEF OwnFit, AnswerIsOwnUnlessMixed
  <1> QED
    BY <1>1, <1>2, <1>3, PTL DEF AtSpec

=============================================================================
