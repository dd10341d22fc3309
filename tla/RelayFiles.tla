------------------------------ MODULE RelayFiles ------------------------------
(***************************************************************************)
(* What a relay keeps on disk, and what of it survives a crash:            *)
(* settings.json (src/portal/settings.c, written by the admin handlers of  *)
(* api_server.c), identity.json (src/portal/identity.c) and the            *)
(* certificate pair (src/portal/acme/manager.c and the renewal thread of   *)
(* cmd/relay-server/main.c), with main's start-up between them.            *)
(*                                                                         *)
(* A crash ends the process at any step; files keep what system calls have *)
(* done so far.  Admin requests run concurrently and take no lock.  An     *)
(* identity is the number of its generation, a certificate or key the      *)
(* number of the lego run it is from, Manual when an operator put it       *)
(* there, Torn when a copy was cut off and 0 when the file is missing.     *)
(* The relay has a host name, and RELAY_DESCRIPTOR_PRIVATE_KEY is not set. *)
(***************************************************************************)
EXTENDS Naturals, Sequences, Functions

CONSTANTS
  Address,       \* identities an admin bans or approves
  Calls,         \* what admins ask for: <<op, arg>>
  Handler,       \* admin requests at a time
  None,
  MaxRequest,    \* bound on admin requests
  Torn, Manual,  \* what cp has not finished, and what an operator has put there
  MaxCrash,      \* bound on crashes
  MaxFault,      \* bound on failing reads, writes, copies, generations and thread starts
  MaxRun         \* bound on successful lego runs

ASSUME BoundsAssumption == /\ MaxRequest \in Nat /\ MaxCrash \in Nat /\ MaxFault \in Nat
                           /\ MaxRun \in Nat \ {0} /\ None \notin Address
ASSUME NoRun == Torn \notin Nat /\ Manual \notin Nat /\ Torn # Manual
ASSUME CallsAssumption ==
  Calls \subseteq ({"banned", "unban", "approved"} \X Address) \cup ({"mode"} \X {"auto", "manual"})
                  \cup ({"flag"} \X BOOLEAN)

VARIABLES
  phase,         \* how far main has come
  mem,           \* the settings in memory
  file,          \* settings.json: [state |-> "missing", "empty" or "whole", set]
  req,           \* admin requests under way
  requests,      \* admin requests still to come
  loading,       \* where a call of load_or_create is
  idfile,        \* identity.json: [gen, named, rest], gen 0: missing or unreadable
  ids,           \* the identity each of the three that load it has in memory
  generated,     \* identities generated so far
  cert, key,     \* fullchain.pem and privatekey.pem
  lego,          \* the pair in .lego/certificates
  acme,          \* where a call of ensure_certificate is
  renewal,       \* the renewal thread
  dns,           \* lego can complete its challenge
  crashes,
  faults,        \* failures still to come
  wrong,         \* history: what has failed, a copy ever and the rest in this run of the relay
  clean,         \* history: no save has been overtaken or cut off since the last whole one
  overlapped     \* history: two admin requests have run at the same time

setvars == <<mem, file, req, requests, clean, overlapped>>
idvars == <<loading, idfile, ids, generated>>
certvars == <<cert, key, lego, acme, renewal, dns>>
ends == <<crashes, faults, wrong>>
vars == <<phase, setvars, idvars, certvars, ends>>

Default == [mode |-> "auto", flag |-> TRUE, banned |-> <<>>, approved |-> <<>>]
Idle == [pc |-> "idle", op |-> None, arg |-> None, json |-> None, alone |-> TRUE]
Missing == [state |-> "missing", set |-> Default]
Empty == [state |-> "empty", set |-> Default]

User == {"relay", "keyless", "descriptor"}
NoIds == [u \in User |-> 0]
Whole == [gen |-> 1, named |-> TRUE, rest |-> TRUE]

(* The first start, on a disk without a certificate, where identity.json   *)
(* may be there and may lack the name or something else; a start with a    *)
(* pair that an operator put there, maybe beside an old one of lego's; or  *)
(* a start with all files there.  The three parts share nothing but the    *)
(* crash, so admin requests are made only in the last case, where all else *)
(* works.                                                                  *)
Init ==
  /\ phase = "down" /\ mem = Default /\ file = Missing
  /\ req = [h \in Handler |-> Idle]
  /\ loading = "no" /\ ids = NoIds /\ generated = 1 /\ acme = "idle" /\ renewal = FALSE
  /\ \/ /\ lego = 0 /\ cert = 0 /\ key = 0 /\ requests = 0 /\ faults = MaxFault /\ dns \in BOOLEAN
        /\ idfile \in [gen : {0, 1}, named : BOOLEAN, rest : BOOLEAN]
     \/ /\ lego \in {0, 1} /\ cert = Manual /\ key = Manual /\ requests = 0 /\ faults = MaxFault
        /\ dns = TRUE /\ idfile = Whole
     \/ /\ lego = 1 /\ cert = 1 /\ key = 1 /\ requests = MaxRequest /\ faults = 0
        /\ dns = TRUE /\ idfile = Whole
  /\ crashes = 0 /\ wrong = {} /\ clean = TRUE /\ overlapped = FALSE

(* One of the calls that may fail does.                                    *)
Fails(what) == faults > 0 /\ faults' = faults - 1 /\ wrong' = wrong \cup {what}
NoFailure == UNCHANGED <<faults, wrong>>

-------------------------------------------------------------------------------
(* portillia_settings_load: a file that does not parse leaves the defaults.*)
(* main then overrides the flags by its environment (FALSE here).          *)
portillia_settings_load == [(IF file.state = "whole" THEN file.set ELSE Default) EXCEPT !.flag = FALSE]

start_settings ==
  /\ phase = "down"
  /\ phase' = "identity" /\ loading' = "read"
  /\ mem' = portillia_settings_load
  /\ UNCHANGED <<file, req, requests, clean, overlapped, idfile, ids, generated, certvars, ends>>

-------------------------------------------------------------------------------
(* portillia_relay_identity_load_or_create, called by main with the host   *)
(* name, and without a name by portillia_keyless_server_setup and, when    *)
(* the relay first describes itself, ensure_descriptor_identity.  A name   *)
(* that the file lacks is taken from the caller, in memory only.           *)

Loader == CASE phase = "identity" -> "relay" [] phase = "keyless" -> "keyless" [] OTHER -> "descriptor"

Complete == idfile.gen # 0 /\ idfile.named /\ idfile.rest
CompleteWhenNamed(u) == idfile.gen # 0 /\ idfile.rest /\ u = "relay"
is_complete(u) == idfile.gen # 0 /\ idfile.rest /\ (idfile.named \/ u = "relay")

(* What follows a load: the certificate after main's, then the descriptor  *)
(* after the signer's, then serving.                                       *)
EndLoad ==
  /\ phase' = CASE phase = "identity" -> "certs" [] phase = "keyless" -> "descriptor" [] OTHER -> "serving"
  /\ loading' = IF phase = "keyless" THEN "read" ELSE "no"
  /\ acme' = IF phase = "identity" THEN "begin" ELSE acme

(* Reading the file; else generating an identity, to be written next, or   *)
(* failing to.                                                             *)
load_identity ==
  /\ loading = "read"
  /\ \/ /\ is_complete(Loader)
        /\ ids' = [ids EXCEPT ![Loader] = idfile.gen]
        /\ wrong' = IF idfile.named THEN wrong ELSE wrong \cup {"name"}
        /\ EndLoad /\ UNCHANGED <<generated, faults>>
     \/ /\ \/ ~is_complete(Loader) /\ NoFailure
           \/ is_complete(Loader) /\ Fails("read")
        /\ ids' = [ids EXCEPT ![Loader] = generated + 1] /\ generated' = generated + 1
        /\ loading' = "write" /\ UNCHANGED <<phase, acme>>
     \/ /\ ~is_complete(Loader) /\ Fails("generate")
        /\ ids' = [ids EXCEPT ![Loader] = 0]
        /\ EndLoad /\ UNCHANGED generated
  /\ UNCHANGED <<setvars, idfile, cert, key, lego, renewal, dns, crashes>>

(* write_file_atomic: a temporary file, which a crash leaves behind, and   *)
(* its renaming.  Either may fail, which is only logged.                   *)
write_identity ==
  /\ loading = "write"
  /\ \/ loading' = "rename" /\ NoFailure /\ UNCHANGED <<phase, acme>>
     \/ Fails("write") /\ EndLoad
  /\ UNCHANGED <<setvars, idfile, ids, generated, cert, key, lego, renewal, dns, crashes>>

rename_identity ==
  /\ loading = "rename"
  /\ idfile' = [gen |-> ids[Loader], named |-> TRUE, rest |-> TRUE]
  /\ EndLoad
  /\ UNCHANGED <<setvars, ids, generated, cert, key, lego, renewal, dns, ends>>

(* A relay that could not get an identity for its descriptor tries again   *)
(* each time it describes itself.                                          *)
ensure_descriptor_identity ==
  /\ phase = "serving" /\ loading = "no" /\ ids["descriptor"] = 0
  /\ loading' = "read"
  /\ UNCHANGED <<phase, setvars, idfile, ids, generated, certvars, ends>>

-------------------------------------------------------------------------------
(* portillia_acme_manager_ensure_certificate, called by main and every 24  *)
(* hours by acme_renewal_thread.                                           *)

(* The chain of a pair that is there is rebuilt, from lego's leaf if there *)
(* is one; the pair is not renewed.                                        *)
ensure_certificate ==
  /\ acme = "begin"
  /\ acme' = IF cert = 0 \/ key = 0 THEN "lego" ELSE IF lego # 0 THEN "rebuild" ELSE "done"
  /\ UNCHANGED <<phase, setvars, idvars, cert, key, lego, renewal, dns, ends>>

ChainIfMissing == IF cert = 0 THEN "chain" ELSE "key"
ChainAlways == "chain"

run_lego ==
  /\ acme = "lego"
  /\ \/ ~dns /\ acme' = "done" /\ UNCHANGED lego
     \/ dns /\ lego < MaxRun /\ lego' = lego + 1 /\ acme' = ChainAlways
  /\ UNCHANGED <<phase, setvars, idvars, cert, key, renewal, dns, ends>>

(* rebuild_fullchain_if_incomplete: certificate_count looks for the        *)
(* certificates in the output of a command with -noout, and finds none, so *)
(* the leaf is always copied.  cp truncates the file, then writes it; its  *)
(* result is not looked at, and the issuer may be appended to what is      *)
(* there.                                                                  *)
EndChain == acme' = IF acme \in {"rebuild", "rebuilding"} THEN "done" ELSE "key"

copy_cert ==
  /\ \/ /\ acme \in {"rebuild", "chain"}
        /\ \/ cert' = Torn /\ acme' = (IF acme = "chain" THEN "chaining" ELSE "rebuilding") /\ NoFailure
           \/ cert' \in {cert, Torn} /\ Fails("copy") /\ EndChain
     \/ /\ acme \in {"rebuilding", "chaining"}
        /\ \/ cert' = lego /\ NoFailure
           \/ UNCHANGED cert /\ Fails("copy")
        /\ EndChain
  /\ UNCHANGED <<phase, setvars, idvars, key, lego, renewal, dns, crashes>>

copy_key ==
  /\ \/ /\ acme = "key"
        /\ \/ key' = Torn /\ acme' = "keying" /\ NoFailure
           \/ UNCHANGED key /\ acme' = "done" /\ Fails("copy")
     \/ /\ acme = "keying" /\ acme' = "done"
        /\ \/ key' = lego /\ NoFailure
           \/ UNCHANGED key /\ Fails("copy")
  /\ UNCHANGED <<phase, setvars, idvars, cert, lego, renewal, dns, crashes>>

(* main goes on whether or not there is a certificate, starts the renewal  *)
(* thread, and sets up what signs for the tunnels.                         *)
start_renewal ==
  /\ phase = "certs" /\ acme = "done"
  /\ phase' = "keyless" /\ loading' = "read" /\ acme' = "idle"
  /\ \/ renewal' = TRUE /\ NoFailure
     \/ renewal' = FALSE /\ Fails("thread")
  /\ UNCHANGED <<setvars, idfile, ids, generated, cert, key, lego, dns, crashes>>

GiveUp == renewal' = (cert # 0 /\ key # 0)
KeepTrying == UNCHANGED renewal

acme_renewal_thread ==
  /\ renewal
  /\ \/ acme = "idle" /\ acme' = "begin" /\ UNCHANGED renewal
     \/ acme = "done" /\ acme' = "idle" /\ KeepTrying
  /\ UNCHANGED <<phase, setvars, idvars, cert, key, lego, dns, ends>>

-------------------------------------------------------------------------------
(* The admin handlers: handle_admin_action (ban, unban, approve) and the   *)
(* settings handlers (approval mode; landing page, UDP and TCP flags).     *)

Others(h) == \E g \in Handler \ {h} : req[g].pc # "idle"
Set(h, pc) == req' = [req EXCEPT ![h].pc = pc]

begin(h, op, arg) ==
  /\ phase = "serving" /\ req[h].pc = "idle" /\ requests > 0
  /\ requests' = requests - 1
  /\ req' = [g \in Handler |->
               IF g = h THEN [pc |-> "check", op |-> op, arg |-> arg, json |-> None, alone |-> ~Others(h)]
               ELSE [req[g] EXCEPT !.alone = @ /\ req[g].pc = "idle"]]
  /\ overlapped' = (overlapped \/ Others(h))
  /\ clean' = (clean /\ ~Others(h))
  /\ UNCHANGED <<phase, mem, file, idvars, certvars, ends>>

AlreadyIn(list, arg) == arg \in Range(list)

(* Swap-remove: the last entry takes the place of the one that goes.       *)
SwapRemove(list, i) == SubSeq([list EXCEPT ![i] = list[Len(list)]], 1, Len(list) - 1)
FirstOf(list, arg) ==
  CHOOSE i \in DOMAIN list : list[i] = arg /\ \A j \in DOMAIN list : list[j] = arg => i <= j
unban(list, arg) ==
  IF AlreadyIn(list, arg) THEN SwapRemove(list, FirstOf(list, arg)) ELSE list

(* Looking through the list, and (in a step of its own) appending.  Of two *)
(* handlers that append at the same time one may overwrite the other.      *)
check(h) ==
  /\ req[h].pc = "check"
  /\ LET op == req[h].op
         arg == req[h].arg
     IN \/ /\ op \in {"banned", "approved"}
           /\ Set(h, IF AlreadyIn(mem[op], arg) THEN "print" ELSE "append")
           /\ UNCHANGED mem
        \/ /\ op = "unban" /\ mem' = [mem EXCEPT !.banned = unban(@, arg)]
           /\ Set(h, "print")
        \/ op = "mode" /\ mem' = [mem EXCEPT !.mode = arg] /\ Set(h, "print")
        \/ op = "flag" /\ mem' = [mem EXCEPT !.flag = arg] /\ Set(h, "print")
  /\ UNCHANGED <<phase, file, requests, clean, overlapped, idvars, certvars, ends>>

append(h) ==
  /\ req[h].pc = "append"
  /\ \/ mem' = [mem EXCEPT ![req[h].op] = Append(@, req[h].arg)]
     \/ (\E g \in Handler \ {h} : req[g].pc = "append" /\ req[g].op = req[h].op) /\ UNCHANGED mem
  /\ Set(h, "print")
  /\ UNCHANGED <<phase, file, requests, clean, overlapped, idvars, certvars, ends>>

(* portillia_settings_save: print, fopen with truncation, write and close. *)
PrintWithoutLists == [mem EXCEPT !.approved = <<>>]
PrintSettings == mem

save_print(h) ==
  /\ req[h].pc = "print"
  /\ req' = [req EXCEPT ![h].pc = "open", ![h].json = PrintSettings]
  /\ UNCHANGED <<phase, mem, file, requests, clean, overlapped, idvars, certvars, ends>>

(* The file may fail to open; the handler answers ok all the same.         *)
save_open(h) ==
  /\ req[h].pc = "open"
  /\ \/ Set(h, "write") /\ file' = Empty /\ UNCHANGED clean
     \/ req' = [req EXCEPT ![h] = Idle] /\ clean' = FALSE /\ UNCHANGED file
  /\ UNCHANGED <<phase, mem, requests, overlapped, idvars, certvars, ends>>

(* A write that fails or is short leaves what does not parse.              *)
save_write(h) ==
  /\ req[h].pc = "write"
  /\ \/ file' = [state |-> "whole", set |-> req[h].json] /\ clean' = (clean \/ req[h].alone)
     \/ file' = Empty /\ clean' = FALSE
  /\ req' = [req EXCEPT ![h] = Idle]
  /\ UNCHANGED <<phase, mem, requests, overlapped, idvars, certvars, ends>>

-------------------------------------------------------------------------------
crash ==
  /\ phase # "down" /\ crashes < MaxCrash
  /\ crashes' = crashes + 1
  /\ phase' = "down" /\ mem' = Default /\ loading' = "no" /\ ids' = NoIds
  /\ req' = [h \in Handler |-> Idle]
  /\ clean' = (clean /\ \A h \in Handler : req[h].pc = "idle")
  /\ acme' = "idle" /\ renewal' = FALSE /\ wrong' = wrong \cap {"copy"}
  /\ UNCHANGED <<file, requests, overlapped, idfile, generated, cert, key, lego, dns, faults>>

(* It matters until there is a pair.                                       *)
dns_changes ==
  /\ cert = 0 \/ key = 0
  /\ dns' = ~dns
  /\ UNCHANGED <<phase, setvars, idvars, cert, key, lego, acme, renewal, ends>>

Start ==
  \/ start_settings \/ load_identity \/ write_identity \/ rename_identity \/ ensure_descriptor_identity
  \/ start_renewal
Certificate == ensure_certificate \/ run_lego \/ copy_cert \/ copy_key
Request(h) == check(h) \/ append(h) \/ save_print(h) \/ save_open(h) \/ save_write(h)

Next ==
  \/ Start \/ Certificate \/ acme_renewal_thread
  \/ \E h \in Handler : Request(h) \/ \E c \in Calls : begin(h, c[1], c[2])
  \/ crash \/ dns_changes

Spec == Init /\ [][Next]_vars

(* main, its threads and its handlers run.                                 *)
Fairness ==
  /\ WF_vars(Start) /\ WF_vars(Certificate) /\ WF_vars(acme_renewal_thread)
  /\ \A h \in Handler : WF_vars(Request(h))

FairSpec == Spec /\ Fairness

-------------------------------------------------------------------------------
Settings == [mode : {"auto", "manual"}, flag : BOOLEAN,
             banned : Seq(Address), approved : Seq(Address)]

TypeOK ==
  /\ phase \in {"down", "identity", "certs", "keyless", "descriptor", "serving"}
  /\ mem \in Settings /\ file.state \in {"missing", "empty", "whole"} /\ file.set \in Settings
  /\ \A h \in Handler : req[h].pc \in {"idle", "check", "append", "print", "open", "write"}
  /\ requests \in 0..MaxRequest /\ crashes \in 0..MaxCrash
  /\ loading \in {"no", "read", "write", "rename"} /\ idfile.gen \in 0..generated
  /\ \A u \in User : ids[u] \in 0..generated
  /\ lego \in 0..MaxRun /\ cert \in 0..lego \cup {Torn, Manual} /\ key \in 0..lego \cup {Torn, Manual}
  /\ acme \in {"idle", "begin", "rebuild", "rebuilding", "lego", "chain", "chaining", "key", "keying", "done"}
  /\ faults \in 0..MaxFault /\ wrong \subseteq {"name", "read", "generate", "write", "copy", "thread"}

Lists(s) == [mode |-> s.mode, banned |-> s.banned, approved |-> s.approved]

(* What an admin has set is on disk when the last save was neither         *)
(* overtaken by another request's, nor cut off by a crash, nor refused by  *)
(* the file system: loading settings.json gives the bans, approvals and    *)
(* the mode in memory.                                                     *)
Persisted ==
  phase = "serving" /\ clean /\ (\A h \in Handler : req[h].pc = "idle")
    => Lists(portillia_settings_load) = Lists(mem)

(* As long as admin requests do not overlap, an identity is in a list once *)
(* at most, across saving, swap-removal and loading, so that one unban     *)
(* undoes any number of bans.                                              *)
ListsAreSets == overlapped \/ (IsInjective(mem.banned) /\ IsInjective(mem.approved))

(* A complete identity.json is never replaced or lost, whenever the relay  *)
(* crashes and whichever of the three that load it comes to it in          *)
(* whatever state of the start-up, unless reading it has failed in this    *)
(* run of the relay.                                                       *)
IdentityKept == [][Complete /\ "read" \notin wrong => idfile' = idfile]_vars

(* A relay that serves signs as the one identity on disk: the keyless      *)
(* signer and the descriptor have it, whichever of them had to generate    *)
(* it, and so has the relay itself unless it found a file without a name.  *)
OneIdentity ==
  phase = "serving" /\ loading = "no" /\ wrong \cap {"read", "generate", "write"} = {} =>
    \A u \in User : ids[u] = idfile.gen \/ (u = "relay" /\ "name" \in wrong)

(* If no copy has failed, then outside ensure_certificate a certificate    *)
(* and a key that are both there and whole come from the same lego run or  *)
(* the same operator, although a crash may leave one without the other and *)
(* a new run replaces both; but an old leaf of lego's takes the place of   *)
(* an operator's.  A chain that a crash has cut off is whole again once    *)
(* main has come past the certificates.                                    *)
PairMatches ==
  "copy" \notin wrong /\ cert # 0 /\ key # 0 /\ acme \in {"idle", "begin", "done"} =>
    /\ cert = Torn => phase \notin {"keyless", "descriptor", "serving"}
    /\ Torn \notin {cert, key} => cert = key \/ (key = Manual /\ cert = lego)

(* The safety of what the relay keeps in memory and on disk, whenever it   *)
(* crashes.                                                                *)
FilesInv == TypeOK /\ ListsAreSets /\ OneIdentity /\ PairMatches

(* When lego can complete its challenge from some time on, the relay gets  *)
(* a certificate and a key, at start-up or, if it could be started, from   *)
(* the renewal thread, although copies may fail; or the copy of the key    *)
(* has been cut off, which the relay takes for a key ever after.           *)
CertificateObtained ==
  <>[](dns /\ "thread" \notin wrong) => <>(key = Torn \/ {cert, key} \cap {0, Torn} = {})
===============================================================================
