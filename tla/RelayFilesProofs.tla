--------------------------- MODULE RelayFilesProofs ---------------------------
(***************************************************************************)
(* That what a relay keeps on disk survives crashes, for any number of     *)
(* admin requests, handlers, crashes and lego runs, and that requests      *)
(* which do not overlap leave settings.json equal to the settings in       *)
(* memory.                                                                 *)
(***************************************************************************)
EXTENDS RelayFiles, WellFoundedInduction, TLAPS

Active(h) == req[h].pc # "idle"
AllIdle == \A h \in Handler : ~Active(h)

IdFile == [gen : Nat, named : BOOLEAN, rest : BOOLEAN]

(* What a request is: the call it was made for, and the settings it has    *)
(* printed once it is about to write them.                                 *)
IsRequest(r) == r = [pc |-> r.pc, op |-> r.op, arg |-> r.arg, json |-> r.json, alone |-> r.alone]
RequestsTyped ==
  /\ req = [h \in Handler |-> req[h]]
  /\ \A h \in Handler : IsRequest(req[h]) /\ req[h].alone \in BOOLEAN
  /\ \A h \in Handler : Active(h) => <<req[h].op, req[h].arg>> \in Calls
  /\ \A h \in Handler : req[h].pc = "append" => req[h].op \in {"banned", "approved"}
  /\ \A h \in Handler : req[h].pc \in {"open", "write"} => req[h].json \in Settings
  /\ clean \in BOOLEAN /\ overlapped \in BOOLEAN /\ dns \in BOOLEAN /\ renewal \in BOOLEAN
  /\ file \in [state : {"missing", "empty", "whole"}, set : Settings]
  /\ idfile \in IdFile /\ generated \in Nat /\ ids = [u \in User |-> ids[u]]

(* Requests are only under way while main serves.                          *)
ServedOnly == phase # "serving" => AllIdle

(* Every copy of the settings has its lists without repetitions, and what  *)
(* a request is about to append is not there yet.                          *)
Clean(s) == IsInjective(s.banned) /\ IsInjective(s.approved)
ListsSound ==
  overlapped \/ /\ Clean(mem) /\ Clean(file.set)
                /\ \A g, h \in Handler : Active(g) /\ Active(h) => g = h
                /\ \A h \in Handler : req[h].pc \in {"open", "write"} => Clean(req[h].json)
                /\ \A h \in Handler : req[h].pc = "append" => ~AlreadyIn(mem[req[h].op], req[h].arg)

(* A request that has run alone so far still does, and what it has printed *)
(* is what is in memory; after a save that counts, no request under way    *)
(* has been overtaken.                                                     *)
AloneSound ==
  \A h \in Handler : Active(h) =>
    /\ req[h].alone => /\ \A g \in Handler : Active(g) => g = h
                       /\ req[h].pc \in {"open", "write"} => req[h].json = mem
    /\ clean => req[h].alone

(* Once main has loaded the settings, they differ from the file only while *)
(* a request is under way or a save has been lost.                         *)
SavedSound == phase # "down" /\ clean /\ AllIdle => Lists(portillia_settings_load) = Lists(mem)

(* An identity is written only over one that is not complete or could not  *)
(* be read.  If no call has failed, main leaves a complete file with its   *)
(* identity (or has found one without a name), the signer leaves a         *)
(* complete file with its own, and the descriptor finds that one.          *)
Unfailed == wrong \cap {"read", "generate", "write"} = {}
LoadsSound ==
  /\ phase \in {"down", "certs"} => loading = "no"
  /\ loading \in {"write", "rename"} => ids[Loader] # 0 /\ (Complete => "read" \in wrong)
IdentitySound ==
  Unfailed =>
    /\ phase \notin {"down", "identity"} => "name" \in wrong \/ (Complete /\ ids["relay"] = idfile.gen)
    /\ phase \in {"descriptor", "serving"} => Complete /\ ids["keyless"] = idfile.gen
    /\ phase = "serving" /\ loading = "no" => ids["descriptor"] = idfile.gen

(* lego runs only until there is a key, so a whole key that is not an      *)
(* operator's is from the last run, and so is the chain beside it, unless  *)
(* its copy has been cut off, in which case the next call makes it again.  *)
PairSound ==
  "copy" \notin wrong =>
    /\ acme \in {"lego", "chain", "chaining", "key"} => key = 0
    /\ acme \in {"rebuild", "rebuilding", "chain", "chaining", "key", "keying"} => lego # 0
    /\ acme = "keying" => key = Torn
    /\ acme \in {"key", "keying"} => cert = lego
    /\ key # 0 =>
         /\ cert # 0
         /\ cert = Torn => lego # 0 /\ acme # "done"
         /\ cert = Torn /\ acme \in {"idle", "begin"} => phase \notin {"keyless", "descriptor", "serving"}
         /\ key \in {Torn, Manual, lego}
         /\ Torn \notin {cert, key} => cert = key \/ (key = Manual /\ cert = lego)

IInv ==
  /\ TypeOK /\ RequestsTyped /\ ServedOnly /\ ListsSound /\ AloneSound
  /\ SavedSound /\ LoadsSound /\ IdentitySound /\ PairSound

-------------------------------------------------------------------------------
(* The lists of settings.json.                                             *)

(* A non-empty set of positions has a least one.                           *)
LEMMA LeastPosition ==
  ASSUME NEW S \in SUBSET Nat, S # {}
  PROVE  \E x \in S : \A y \in S : x <= y
<1> DEFINE R == {p \in Nat \X Nat : p[1] < p[2]}
<1>1. IsWellFoundedOn(R, Nat)
  BY NatLessThanWellFounded DEF OpToRel
<1> HIDE DEF R
<1>2. PICK x \in S : \A y \in S : ~(<<y, x>> \in R)
  <2>1. S \subseteq Nat
    OBVIOUS
  <2>2. QED
    BY <1>1, <2>1, WFMin, Zenon
<1>3. ASSUME NEW y \in S PROVE x <= y
  <2>1. ~(<<y, x>> \in R) /\ <<y, x>> \in Nat \X Nat
    BY <1>2
  <2>2. QED
    BY <2>1 DEF R
<1>4. QED
  BY <1>3

(* The element that swap-removal moves was the last one.                   *)
LEMMA SwapRemoveSound ==
  ASSUME NEW S, NEW list \in Seq(S), NEW i \in 1..Len(list)
  PROVE  /\ SwapRemove(list, i) \in Seq(S)
         /\ IsInjective(list) => IsInjective(SwapRemove(list, i))
<1> PICK n \in Nat : n = Len(list) /\ n # 0
  OBVIOUS
<1> DEFINE moved == [list EXCEPT ![i] = list[n]]
           short == SwapRemove(list, i)
<1>1. moved \in Seq(S) /\ Len(moved) = n
  OBVIOUS
<1>2. short = SubSeq(moved, 1, n - 1)
  BY DEF SwapRemove
<1>3. /\ short \in Seq(S) /\ DOMAIN short = 1..n - 1
      /\ \A k \in 1..n - 1 : short[k] = IF k = i THEN list[n] ELSE list[k]
  <2>1. n - 1 \in 0..n
    OBVIOUS
  <2>2. \A k \in 1..n : moved[k] = IF k = i THEN list[n] ELSE list[k]
    OBVIOUS
  <2> HIDE DEF moved, short
  <2>3. short \in Seq(S) /\ Len(short) = n - 1 /\ \A k \in 1..n - 1 : short[k] = moved[k]
    BY <1>1, <1>2, <2>1
  <2>4. QED
    BY <2>2, <2>3
<1> HIDE DEF short
<1>4. ASSUME IsInjective(list) PROVE IsInjective(short)
  <2>1. \A k, m \in 1..n : list[k] = list[m] => k = m
    BY <1>4 DEF IsInjective
  <2>2. ASSUME NEW k \in 1..n - 1, NEW m \in 1..n - 1, short[k] = short[m] PROVE k = m
    <3> DEFINE f == IF k = i THEN n ELSE k
               g == IF m = i THEN n ELSE m
    <3>1. f \in 1..n /\ g \in 1..n /\ (f = g => k = m)
      OBVIOUS
    <3>2. short[k] = list[f] /\ short[m] = list[g]
      BY <1>3, Zenon
    <3> HIDE DEF f, g
    <3>3. f = g
      BY <2>1, <2>2, <3>1, <3>2, Zenon
    <3>4. QED
      BY <3>1, <3>3
  <2>3. QED
    BY <1>3, <2>2 DEF IsInjective
<1>5. QED
  BY <1>3, <1>4 DEF short

(* unban keeps a list a list, and without repetitions if it had none.      *)
LEMMA UnbanSound ==
  ASSUME NEW S, NEW list \in Seq(S), NEW arg
  PROVE  /\ unban(list, arg) \in Seq(S)
         /\ IsInjective(list) => IsInjective(unban(list, arg))
<1>1. CASE AlreadyIn(list, arg)
  <2> DEFINE at == {i \in DOMAIN list : list[i] = arg}
  <2>1. at # {} /\ at \in SUBSET Nat
    BY <1>1 DEF AlreadyIn, Range
  <2>2. PICK i \in at : \A j \in at : i <= j
    <3> HIDE DEF at
    <3>1. QED
      BY <2>1, LeastPosition, Zenon
  <2>3. FirstOf(list, arg) \in DOMAIN list
    BY <2>2, Zenon DEF FirstOf
  <2>4. unban(list, arg) = SwapRemove(list, FirstOf(list, arg)) /\ DOMAIN list = 1..Len(list)
    BY <1>1 DEF unban
  <2>5. QED
    BY <2>3, <2>4, SwapRemoveSound
<1>2. CASE ~AlreadyIn(list, arg)
  BY <1>2 DEF unban
<1>3. QED
  BY <1>1, <1>2

(* Appending what is not there leaves a list without repetitions.          *)
LEMMA AppendSound ==
  ASSUME NEW S, NEW list \in Seq(S), NEW arg \in S
  PROVE  /\ Append(list, arg) \in Seq(S)
         /\ IsInjective(list) /\ ~AlreadyIn(list, arg) => IsInjective(Append(list, arg))
<1> PICK n \in Nat : n = Len(list)
  OBVIOUS
<1> DEFINE long == Append(list, arg)
<1>1. /\ long \in Seq(S) /\ DOMAIN long = 1..n + 1 /\ long[n + 1] = arg
      /\ \A k \in 1..n : long[k] = list[k]
  OBVIOUS
<1>2. DOMAIN list = 1..n
  OBVIOUS
<1> HIDE DEF long
<1>3. ASSUME IsInjective(list), ~AlreadyIn(list, arg) PROVE IsInjective(long)
  <2>1. \A k \in 1..n : list[k] # arg
    BY <1>2, <1>3 DEF AlreadyIn, Range
  <2>2. \A k, m \in 1..n : list[k] = list[m] => k = m
    BY <1>2, <1>3 DEF IsInjective
  <2>3. \A k, m \in 1..n + 1 : long[k] = long[m] => k = m
    BY <1>1, <2>1, <2>2
  <2>4. QED
    BY <1>1, <2>3 DEF IsInjective
<1>4. QED
  BY <1>1, <1>3 DEF long

(* The settings a relay starts with.                                       *)
LEMMA DefaultSound == Default \in Settings /\ Clean(Default)
<1>1. <<>> \in Seq(Address) /\ DOMAIN <<>> = {}
  OBVIOUS
<1>2. IsInjective(<<>>)
  BY <1>1 DEF IsInjective
<1>3. QED
  BY <1>1, <1>2 DEF Default, Settings, Clean

-------------------------------------------------------------------------------
(* The invariant holds when the relay first starts.                        *)
LEMMA InitInv == Init => IInv
<1> SUFFICES ASSUME Init PROVE IInv
  OBVIOUS
<1> USE BoundsAssumption DEF Init
<1>1. Default \in Settings /\ Clean(Default)
  BY DefaultSound
<1>2. AllIdle
  BY DEF AllIdle, Active, Idle
<1>3. TypeOK
  BY <1>1, NoRun DEF TypeOK, Idle, Missing, NoIds, Whole
<1>4. RequestsTyped
  <2>1. \A h \in Handler : IsRequest(req[h]) /\ req[h].alone \in BOOLEAN
    BY Zenon DEF IsRequest, Idle
  <2>2. \A h \in Handler : req[h].pc = "idle"
    BY DEF Idle
  <2>3. req = [h \in Handler |-> req[h]] /\ file \in [state : {"missing", "empty", "whole"}, set : Settings]
    BY <1>1 DEF Missing
  <2>4. clean \in BOOLEAN /\ overlapped \in BOOLEAN /\ dns \in BOOLEAN /\ renewal \in BOOLEAN
    BY Zenon
  <2>5. idfile \in IdFile /\ generated \in Nat /\ ids = [u \in User |-> ids[u]]
    <3>1. CASE idfile \in [gen : {0, 1}, named : BOOLEAN, rest : BOOLEAN]
      BY <3>1 DEF IdFile, NoIds
    <3>2. CASE idfile = Whole
      BY <3>2 DEF Whole, IdFile, NoIds
    <3>3. QED
      BY <3>1, <3>2
  <2>6. QED
    BY <2>1, <2>2, <2>3, <2>4, <2>5 DEF RequestsTyped, Active
<1>5. ServedOnly /\ ListsSound /\ AloneSound /\ SavedSound
  BY <1>1, <1>2 DEF ServedOnly, ListsSound, AloneSound, SavedSound, AllIdle, Active, Missing
<1>6. LoadsSound /\ IdentitySound
  BY DEF LoadsSound, IdentitySound
<1>7. PairSound
  BY NoRun DEF PairSound
<1>8. QED
  BY <1>3, <1>4, <1>5, <1>6, <1>7 DEF IInv

(* The part of the invariant about the settings depends on nothing else.   *)
LEMMA SettingsKept ==
  ASSUME IInv, UNCHANGED setvars, phase' \in {"down", "identity"} => phase' = phase,
         phase = "serving" => phase' = "serving", phase = "down" => phase' = "down"
  PROVE  /\ ServedOnly' /\ ListsSound' /\ AloneSound' /\ SavedSound'
         /\ mem' \in Settings /\ file'.state \in {"missing", "empty", "whole"} /\ file'.set \in Settings
         /\ \A h \in Handler : req'[h].pc \in {"idle", "check", "append", "print", "open", "write"}
         /\ requests' \in 0..MaxRequest
BY DEF IInv, TypeOK, setvars, ServedOnly, ListsSound, AloneSound, SavedSound, AllIdle, Active, Clean,
       portillia_settings_load, AlreadyIn

(* The part about the identity is left alone by steps that do not load it. *)
LEMMA IdentityFrame ==
  ASSUME IInv, UNCHANGED <<phase, idvars>>, wrong' \cap {"read", "generate", "write", "name"}
                                              = wrong \cap {"read", "generate", "write", "name"}
  PROVE  LoadsSound' /\ IdentitySound'
<1>1. /\ Unfailed' <=> Unfailed
      /\ "name" \in wrong' <=> "name" \in wrong
      /\ "read" \in wrong' <=> "read" \in wrong
  BY DEF Unfailed
<1>2. LoadsSound'
  BY <1>1 DEF IInv, LoadsSound, Complete, Loader, idvars
<1>3. IdentitySound'
  BY <1>1 DEF IInv, IdentitySound, Complete, idvars
<1>4. QED
  BY <1>2, <1>3

(* The part about the certificates is left alone by steps that touch no    *)
(* certificate and do not end main's set-up of them.                       *)
LEMMA PairFrame ==
  ASSUME IInv, UNCHANGED <<cert, key, lego>>, "copy" \in wrong => "copy" \in wrong',
         \/ acme' = acme
         \/ acme' \in {"idle", "begin"} /\ (acme = "done" \/ phase' \notin {"keyless", "descriptor", "serving"}),
         phase' \in {"keyless", "descriptor", "serving"} =>
           phase \in {"keyless", "descriptor", "serving"} \/ acme = "done"
  PROVE  PairSound'
<1> SUFFICES ASSUME "copy" \notin wrong, "copy" \notin wrong' PROVE PairSound'
  BY DEF PairSound
<1>1. PairSound
  BY DEF IInv
<1>2. QED
  BY <1>1 DEF PairSound

(* Where a load ends.                                                      *)
LEMMA EndLoadSound ==
  ASSUME IInv, EndLoad, loading # "no"
  PROVE  /\ phase' \in {"certs", "descriptor", "serving"} /\ loading' \in {"no", "read"}
         /\ phase = "identity" => phase' = "certs" /\ loading' = "no" /\ Loader = "relay"
         /\ phase = "keyless" => phase' = "descriptor" /\ loading' = "read" /\ Loader = "keyless"
         /\ phase \in {"descriptor", "serving"} => phase' = "serving" /\ loading' = "no" /\ Loader = "descriptor"
         /\ phase \in {"identity", "keyless", "descriptor", "serving"}
         /\ acme' = acme \/ (acme' = "begin" /\ phase' = "certs")
BY DEF IInv, TypeOK, LoadsSound, EndLoad, Loader

(* main's first step.                                                      *)
LEMMA SettingsInv == IInv /\ start_settings => IInv'
<1> SUFFICES ASSUME IInv, start_settings PROVE IInv'
  OBVIOUS
<1>1. AllIdle /\ UNCHANGED <<file, req, requests, clean, overlapped, idfile, ids, generated, certvars, ends>>
  BY DEF start_settings, IInv, ServedOnly
<1>2. mem' \in Settings /\ (~overlapped => Clean(mem')) /\ Lists(portillia_settings_load)' = Lists(mem')
  <2>1. Default \in Settings /\ Clean(Default)
    BY DefaultSound
  <2>2. PICK s \in Settings : portillia_settings_load = [s EXCEPT !.flag = FALSE] /\ (~overlapped => Clean(s))
    BY <2>1, Zenon DEF IInv, TypeOK, ListsSound, portillia_settings_load
  <2>3. portillia_settings_load' = portillia_settings_load
    BY <1>1 DEF portillia_settings_load
  <2>4. QED
    BY <2>2, <2>3, Zenon DEF start_settings, Settings, Clean, Lists
<1>3. TypeOK' /\ RequestsTyped'
  <2>1. UNCHANGED <<cert, key, lego, acme, renewal, dns, crashes, faults, wrong>>
    BY <1>1 DEF certvars, ends
  <2>2. TypeOK'
    BY <1>1, <1>2, <2>1, Zenon DEF IInv, TypeOK, start_settings
  <2>3. RequestsTyped'
    BY <1>1, <2>1, Zenon DEF IInv, RequestsTyped, Active
  <2>4. QED
    BY <2>2, <2>3
<1>4. ServedOnly' /\ AloneSound' /\ ListsSound' /\ SavedSound'
  BY <1>1, <1>2 DEF IInv, start_settings, ServedOnly, AloneSound, ListsSound, SavedSound, AllIdle, Active
<1>5. LoadsSound' /\ IdentitySound'
  BY <1>1 DEF start_settings, LoadsSound, IdentitySound
<1>6. PairSound'
  BY <1>1, PairFrame DEF start_settings, certvars, ends
<1>7. QED
  BY <1>3, <1>4, <1>5, <1>6 DEF IInv

(* What all steps that load an identity have in common.                    *)
LEMMA LoadFrame ==
  ASSUME IInv, UNCHANGED <<setvars, cert, key, lego, renewal, dns, crashes>>,
         phase' \in {"certs", "keyless", "descriptor", "serving", phase}, phase # "down",
         phase = "serving" => phase' = "serving", phase = "certs" => phase' = "certs",
         phase' \in {"keyless", "descriptor", "serving"} => phase \in {"keyless", "descriptor", "serving"},
         loading' \in {"no", "read", "write", "rename"}, acme' = acme \/ (acme' = "begin" /\ phase' = "certs"),
         idfile' \in IdFile, generated' \in Nat, idfile'.gen \in 0..generated', ids' = [u \in User |-> ids'[u]],
         \A u \in User : ids'[u] \in 0..generated',
         faults' \in 0..MaxFault, wrong \subseteq wrong',
         wrong' \subseteq {"name", "read", "generate", "write", "copy", "thread"},
         LoadsSound', IdentitySound'
  PROVE  IInv'
<1>1. ServedOnly' /\ ListsSound' /\ AloneSound' /\ SavedSound'
  BY SettingsKept
<1>2. PairSound'
  BY PairFrame
<1>3. TypeOK'
  BY DEF IInv, TypeOK, setvars
<1>4. RequestsTyped'
  BY DEF IInv, RequestsTyped, setvars, Active
<1>5. QED
  BY <1>1, <1>2, <1>3, <1>4 DEF IInv

(* A failure is recorded.                                                  *)
LEMMA FailsSound ==
  ASSUME IInv, NEW what \in {"read", "generate", "write", "copy", "thread"}, Fails(what)
  PROVE  /\ faults' \in 0..MaxFault /\ wrong \subseteq wrong' /\ what \in wrong'
         /\ wrong' \subseteq {"name", "read", "generate", "write", "copy", "thread"}
         /\ wrong' = wrong \cup {what}
BY BoundsAssumption DEF IInv, TypeOK, Fails

(* load_or_create reads the file or generates an identity.                 *)
LEMMA LoadInv == IInv /\ load_identity => IInv'
<1> SUFFICES ASSUME IInv, load_identity PROVE IInv'
  OBVIOUS
<1>1. /\ loading = "read" /\ UNCHANGED <<setvars, idfile, cert, key, lego, renewal, dns, crashes>>
      /\ phase \in {"identity", "keyless", "descriptor", "serving"}
  BY DEF load_identity, IInv, TypeOK, LoadsSound
<1>2. /\ idfile \in IdFile /\ generated \in Nat /\ ids = [u \in User |-> ids[u]] /\ idfile.gen \in 0..generated
      /\ \A u \in User : ids[u] \in 0..generated
      /\ faults \in 0..MaxFault /\ wrong \subseteq {"name", "read", "generate", "write", "copy", "thread"}
  BY DEF IInv, TypeOK, RequestsTyped
<1>3. PICK w \in User : w = Loader
  BY DEF Loader, User
<1>4. ASSUME NEW id \in Nat, ids' = [ids EXCEPT ![Loader] = id]
      PROVE  /\ ids' = [u \in User |-> ids'[u]] /\ ids'[w] = id
             /\ \A u \in User : u # w => ids'[u] = ids[u]
  BY <1>2, <1>3, <1>4
<1>5. CASE /\ is_complete(Loader)
           /\ ids' = [ids EXCEPT ![Loader] = idfile.gen]
           /\ wrong' = IF idfile.named THEN wrong ELSE wrong \cup {"name"}
           /\ EndLoad /\ UNCHANGED <<generated, faults>>
  <2>1. /\ wrong \subseteq wrong' /\ wrong' \subseteq {"name", "read", "generate", "write", "copy", "thread"}
        /\ (Unfailed' <=> Unfailed) /\ (~idfile.named => "name" \in wrong') /\ ("name" \in wrong => "name" \in wrong')
    BY <1>2, <1>5 DEF Unfailed
  <2>2. /\ ids' = [u \in User |-> ids'[u]] /\ ids'[w] = idfile.gen /\ \A u \in User : u # w => ids'[u] = ids[u]
    BY <1>2, <1>4, <1>5
  <2>3. \A u \in User : ids'[u] \in 0..generated'
    BY <1>2, <1>5, <2>2
  <2>4. /\ phase' \in {"certs", "descriptor", "serving"} /\ loading' \in {"no", "read"}
        /\ phase = "identity" => phase' = "certs" /\ loading' = "no" /\ w = "relay"
        /\ phase = "keyless" => phase' = "descriptor" /\ loading' = "read" /\ w = "keyless"
        /\ phase \in {"descriptor", "serving"} => phase' = "serving" /\ loading' = "no" /\ w = "descriptor"
        /\ acme' = acme \/ (acme' = "begin" /\ phase' = "certs")
    BY <1>1, <1>3, <1>5, EndLoadSound
  <2>5. LoadsSound'
    BY <1>1, <2>4 DEF LoadsSound
  <2>6. (Complete' <=> Complete) /\ (w # "relay" => Complete) /\ (idfile.named => Complete) /\ idfile' = idfile
    BY <1>1, <1>3, <1>5 DEF Complete, is_complete
  <2>7. IdentitySound'
    BY <1>1, <2>1, <2>2, <2>4, <2>6 DEF IInv, IdentitySound, User
  <2>8. QED
    BY <1>1, <1>2, <1>5, <2>1, <2>2, <2>3, <2>4, <2>5, <2>7, LoadFrame
<1>6. CASE /\ \/ ~is_complete(Loader) /\ NoFailure
              \/ is_complete(Loader) /\ Fails("read")
           /\ ids' = [ids EXCEPT ![Loader] = generated + 1] /\ generated' = generated + 1
           /\ loading' = "write" /\ UNCHANGED <<phase, acme>>
  <2>1. /\ faults' \in 0..MaxFault /\ wrong \subseteq wrong'
        /\ wrong' \subseteq {"name", "read", "generate", "write", "copy", "thread"}
        /\ wrong' = wrong \/ "read" \in wrong'
        /\ Complete => "read" \in wrong'
    <3>1. CASE ~is_complete(Loader) /\ NoFailure
      BY <1>2, <3>1 DEF NoFailure, Complete, is_complete
    <3>2. CASE is_complete(Loader) /\ Fails("read")
      BY <3>2, FailsSound
    <3>3. QED
      BY <1>6, <3>1, <3>2
  <2>2. /\ ids' = [u \in User |-> ids'[u]] /\ ids'[w] = generated + 1 /\ \A u \in User : u # w => ids'[u] = ids[u]
    BY <1>2, <1>4, <1>6
  <2>3. /\ \A u \in User : ids'[u] \in 0..generated'
        /\ generated' \in Nat /\ idfile'.gen \in 0..generated' /\ idfile' \in IdFile
    BY <1>1, <1>2, <1>6, <2>2
  <2>4. (Complete' <=> Complete) /\ Loader' = w /\ idfile' = idfile
    BY <1>1, <1>3, <1>6 DEF Complete, Loader
  <2>5. LoadsSound'
    BY <1>1, <1>2, <1>6, <2>1, <2>2, <2>4 DEF LoadsSound
  <2>6. IdentitySound'
    <3> SUFFICES ASSUME Unfailed' PROVE IdentitySound'
      BY DEF IdentitySound
    <3>1. wrong' = wrong /\ Unfailed /\ ~Complete
      BY <2>1, Zenon DEF Unfailed
    <3>2. phase \in {"identity", "keyless"}
      BY <1>1, <3>1 DEF IInv, IdentitySound
    <3>3. QED
      BY <1>6, <3>1, <3>2 DEF IInv, IdentitySound
  <2>7. QED
    BY <1>1, <1>6, <2>1, <2>2, <2>3, <2>5, <2>6, LoadFrame
<1>7. CASE /\ ~is_complete(Loader) /\ Fails("generate")
           /\ ids' = [ids EXCEPT ![Loader] = 0]
           /\ EndLoad /\ UNCHANGED generated
  <2>1. /\ faults' \in 0..MaxFault /\ wrong \subseteq wrong' /\ "generate" \in wrong'
        /\ wrong' \subseteq {"name", "read", "generate", "write", "copy", "thread"}
    BY <1>7, FailsSound
  <2>2. /\ ids' = [u \in User |-> ids'[u]] /\ \A u \in User : ids'[u] \in 0..generated'
    BY <1>2, <1>4, <1>7
  <2>3. /\ phase' \in {"certs", "descriptor", "serving"} /\ loading' \in {"no", "read"}
        /\ phase = "identity" => phase' = "certs" /\ loading' = "no"
        /\ phase = "serving" => phase' = "serving"
        /\ acme' = acme \/ (acme' = "begin" /\ phase' = "certs")
    BY <1>1, <1>7, EndLoadSound
  <2>4. LoadsSound' /\ IdentitySound'
    <3>1. LoadsSound'
      BY <1>1, <1>7, <2>3, EndLoadSound DEF LoadsSound
    <3>2. IdentitySound'
      BY <2>1 DEF IdentitySound, Unfailed
    <3>3. QED
      BY <3>1, <3>2
  <2>5. QED
    BY <1>1, <1>2, <1>7, <2>1, <2>2, <2>3, <2>4, LoadFrame
<1>8. QED
  BY <1>5, <1>6, <1>7 DEF load_identity

(* An identity is written beside the file, and renamed over it.            *)
LEMMA WriteIdentityInv == IInv /\ (write_identity \/ rename_identity \/ ensure_descriptor_identity) => IInv'
<1> SUFFICES ASSUME IInv, write_identity \/ rename_identity \/ ensure_descriptor_identity PROVE IInv'
  OBVIOUS
<1>1. /\ idfile \in IdFile /\ generated \in Nat /\ ids = [u \in User |-> ids[u]] /\ idfile.gen \in 0..generated
      /\ \A u \in User : ids[u] \in 0..generated
      /\ faults \in 0..MaxFault /\ wrong \subseteq {"name", "read", "generate", "write", "copy", "thread"}
      /\ phase \in {"down", "identity", "certs", "keyless", "descriptor", "serving"}
  BY DEF IInv, TypeOK, RequestsTyped
<1>2. CASE write_identity /\ loading' = "rename" /\ NoFailure /\ UNCHANGED <<phase, acme>>
  <2>1. /\ loading = "write" /\ UNCHANGED <<setvars, idfile, ids, generated, cert, key, lego, renewal, dns, crashes>>
        /\ UNCHANGED <<phase, acme, faults, wrong>> /\ loading' = "rename"
    BY <1>2 DEF write_identity, NoFailure
  <2>2. phase \notin {"down", "certs"}
    BY <2>1 DEF IInv, LoadsSound
  <2>3. LoadsSound'
    BY <2>1, <2>2 DEF IInv, LoadsSound, Complete, Loader
  <2>4. IdentitySound'
    BY <2>1 DEF IInv, IdentitySound, Complete, Unfailed
  <2>5. QED
    BY <1>1, <2>1, <2>2, <2>3, <2>4, LoadFrame
<1>3. CASE write_identity /\ Fails("write") /\ EndLoad
  <2>1. /\ loading = "write" /\ UNCHANGED <<setvars, idfile, ids, generated, cert, key, lego, renewal, dns, crashes>>
    BY <1>3 DEF write_identity
  <2>2. /\ faults' \in 0..MaxFault /\ wrong \subseteq wrong' /\ "write" \in wrong'
        /\ wrong' \subseteq {"name", "read", "generate", "write", "copy", "thread"}
    BY <1>3, FailsSound
  <2>3. /\ phase' \in {"certs", "descriptor", "serving"} /\ loading' \in {"no", "read"}
        /\ phase = "identity" => phase' = "certs" /\ loading' = "no"
        /\ phase' = "certs" => loading' = "no"
        /\ phase = "serving" => phase' = "serving" /\ phase # "certs"
        /\ phase \in {"identity", "keyless", "descriptor", "serving"}
        /\ acme' = acme \/ (acme' = "begin" /\ phase' = "certs")
    BY <1>3, <2>1, EndLoadSound
  <2>4. LoadsSound' /\ IdentitySound'
    BY <2>2, <2>3 DEF LoadsSound, IdentitySound, Unfailed
  <2>5. QED
    BY <1>1, <2>1, <2>2, <2>3, <2>4, LoadFrame
<1>4. CASE rename_identity
  <2>1. /\ loading = "rename" /\ UNCHANGED <<setvars, ids, generated, cert, key, lego, renewal, dns, crashes, faults, wrong>>
        /\ idfile' = [gen |-> ids[Loader], named |-> TRUE, rest |-> TRUE] /\ EndLoad
    BY <1>4 DEF rename_identity, ends
  <2>2. PICK w \in User : w = Loader
    BY DEF Loader, User
  <2>3. ids[w] \in Nat /\ ids[w] # 0 /\ ids[w] \in 0..generated
    BY <1>1, <2>1, <2>2 DEF IInv, LoadsSound
  <2>4. idfile' \in IdFile /\ idfile'.gen = ids[w] /\ Complete'
    BY <2>1, <2>2, <2>3 DEF IdFile, Complete
  <2>5. /\ phase' \in {"certs", "descriptor", "serving"} /\ loading' \in {"no", "read"}
        /\ phase = "identity" => phase' = "certs" /\ loading' = "no" /\ w = "relay"
        /\ phase = "keyless" => phase' = "descriptor" /\ loading' = "read" /\ w = "keyless"
        /\ phase \in {"descriptor", "serving"} => phase' = "serving" /\ loading' = "no" /\ w = "descriptor"
        /\ phase \in {"identity", "keyless", "descriptor", "serving"}
        /\ acme' = acme \/ (acme' = "begin" /\ phase' = "certs")
    BY <2>1, <2>2, EndLoadSound
  <2>6. LoadsSound'
    BY <2>5 DEF LoadsSound
  <2>7. IdentitySound'
    <3> SUFFICES ASSUME Unfailed PROVE IdentitySound'
      BY <2>1 DEF IdentitySound, Unfailed
    <3>1. ~Complete
      BY <2>1 DEF IInv, LoadsSound, Unfailed
    <3>2. phase \in {"identity", "keyless"} /\ (phase = "keyless" => "name" \in wrong)
      BY <2>5, <3>1 DEF IInv, IdentitySound
    <3>3. QED
      BY <2>1, <2>4, <2>5, <3>2 DEF IdentitySound
  <2>8. QED
    BY <1>1, <2>1, <2>3, <2>4, <2>5, <2>6, <2>7, LoadFrame
<1>5. CASE ensure_descriptor_identity
  <2>1. /\ phase = "serving" /\ loading' = "read"
        /\ UNCHANGED <<phase, setvars, idfile, ids, generated, certvars, ends>>
    BY <1>5 DEF ensure_descriptor_identity
  <2>2. UNCHANGED <<cert, key, lego, acme, renewal, dns, crashes, faults, wrong>>
    BY <2>1 DEF certvars, ends
  <2>3. LoadsSound'
    BY <2>1 DEF LoadsSound
  <2>4. IdentitySound'
    BY <2>1, <2>2 DEF IInv, IdentitySound, Complete, Unfailed
  <2>5. QED
    BY <1>1, <2>1, <2>2, <2>3, <2>4, LoadFrame
<1>6. QED
  BY <1>2, <1>3, <1>4, <1>5 DEF write_identity

(* main starts the renewal thread and goes on.                             *)
LEMMA RenewalInv == IInv /\ start_renewal => IInv'
<1> SUFFICES ASSUME IInv, start_renewal PROVE IInv'
  OBVIOUS
<1>1. /\ phase = "certs" /\ acme = "done" /\ phase' = "keyless" /\ loading' = "read" /\ acme' = "idle"
      /\ UNCHANGED <<setvars, idfile, ids, generated, cert, key, lego, dns, crashes>>
  BY DEF start_renewal
<1>2. /\ faults' \in 0..MaxFault /\ wrong' \subseteq {"name", "read", "generate", "write", "copy", "thread"}
      /\ wrong' \ {"thread"} = wrong \ {"thread"}
  <2>1. CASE NoFailure
    BY <2>1 DEF NoFailure, IInv, TypeOK
  <2>2. CASE Fails("thread")
    BY <2>2, FailsSound
  <2>3. QED
    BY <2>1, <2>2 DEF start_renewal
<1>3. renewal' \in BOOLEAN /\ dns' \in BOOLEAN
  BY Zenon DEF start_renewal, IInv, RequestsTyped
<1>4. /\ (Unfailed' <=> Unfailed) /\ ("name" \in wrong' <=> "name" \in wrong) /\ ("copy" \in wrong' <=> "copy" \in wrong)
  BY <1>2 DEF Unfailed
<1>5. LoadsSound' /\ IdentitySound'
  BY <1>1, <1>4 DEF IInv, LoadsSound, IdentitySound, Complete
<1>6. PairSound'
  BY <1>1, <1>4, PairFrame
<1>7. ServedOnly' /\ ListsSound' /\ AloneSound' /\ SavedSound'
  BY <1>1, SettingsKept
<1>8. TypeOK'
  BY <1>1, <1>2 DEF IInv, TypeOK, setvars
<1>9. RequestsTyped'
  BY <1>1, <1>3 DEF IInv, RequestsTyped, setvars, Active
<1>10. QED
  BY <1>5, <1>6, <1>7, <1>8, <1>9 DEF IInv

(* ensure_certificate, the renewal thread, and changes of the DNS: a key   *)
(* is copied only after the certificate of the same run.                   *)
LEMMA CertificateInv == IInv /\ (Certificate \/ acme_renewal_thread \/ dns_changes) => IInv'
<1> SUFFICES ASSUME IInv, Certificate \/ acme_renewal_thread \/ dns_changes PROVE IInv'
  OBVIOUS
<1> USE BoundsAssumption, NoRun DEF Certificate
<1>1. UNCHANGED <<phase, setvars, idvars, crashes>>
  BY Zenon DEF ensure_certificate, run_lego, copy_cert, copy_key, acme_renewal_thread, dns_changes, ends
<1>2. /\ faults' \in 0..MaxFault /\ wrong' \subseteq {"name", "read", "generate", "write", "copy", "thread"}
      /\ (UNCHANGED <<faults, wrong>> \/ wrong' = wrong \cup {"copy"})
  <2>1. CASE NoFailure
    BY <2>1 DEF NoFailure, IInv, TypeOK
  <2>2. CASE Fails("copy")
    BY <2>2, FailsSound
  <2>3. UNCHANGED ends \/ NoFailure \/ Fails("copy")
    BY Zenon DEF ensure_certificate, run_lego, copy_cert, copy_key, acme_renewal_thread, dns_changes
  <2>4. QED
    BY <2>1, <2>2, <2>3 DEF ends, NoFailure
<1>3. /\ lego' \in 0..MaxRun /\ cert' \in 0..lego' \cup {Torn, Manual} /\ key' \in 0..lego' \cup {Torn, Manual}
      /\ acme' \in {"idle", "begin", "rebuild", "rebuilding", "lego", "chain", "chaining", "key", "keying", "done"}
  <2>1. /\ lego \in 0..MaxRun /\ cert \in 0..lego \cup {Torn, Manual} /\ key \in 0..lego \cup {Torn, Manual}
        /\ acme \in {"idle", "begin", "rebuild", "rebuilding", "lego", "chain", "chaining", "key", "keying", "done"}
    BY DEF IInv, TypeOK
  <2>2. CASE ensure_certificate \/ acme_renewal_thread \/ dns_changes
    BY <2>1, <2>2 DEF ensure_certificate, acme_renewal_thread, dns_changes
  <2>3. CASE run_lego
    BY <2>1, <2>3 DEF run_lego, ChainAlways
  <2>4. CASE copy_cert
    BY <2>1, <2>4 DEF copy_cert, EndChain
  <2>5. CASE copy_key
    BY <2>1, <2>5 DEF copy_key
  <2>6. QED
    BY <2>2, <2>3, <2>4, <2>5
<1>4. renewal' \in BOOLEAN /\ dns' \in BOOLEAN
  <2>1. renewal' = renewal /\ (dns' = dns \/ dns' = ~dns)
    BY DEF ensure_certificate, run_lego, copy_cert, copy_key, acme_renewal_thread, dns_changes, KeepTrying
  <2>2. renewal \in BOOLEAN /\ dns \in BOOLEAN
    BY DEF IInv, RequestsTyped
  <2>3. QED
    BY <2>1, <2>2, Zenon
<1>5. PairSound'
  <2> SUFFICES ASSUME "copy" \notin wrong' PROVE PairSound'
    BY DEF PairSound
  <2>1. "copy" \notin wrong /\ ~Fails("copy") /\ phase' = phase
    BY <1>1, <1>2 DEF Fails
  <2>2. PairSound /\ lego \in Nat /\ cert \in 0..lego \cup {Torn, Manual} /\ key \in 0..lego \cup {Torn, Manual}
    BY DEF IInv, TypeOK
  <2>3. CASE ensure_certificate
    <3>1. UNCHANGED <<cert, key, lego>> /\ acme = "begin"
      BY <2>3 DEF ensure_certificate
    <3>2. CASE cert = 0 \/ key = 0
      BY <2>1, <2>2, <2>3, <3>1, <3>2 DEF PairSound, ensure_certificate
    <3>3. CASE cert # 0 /\ key # 0
      BY <2>1, <2>2, <2>3, <3>1, <3>3 DEF PairSound, ensure_certificate
    <3>4. QED
      BY <3>2, <3>3
  <2>4. CASE run_lego
    BY <2>1, <2>2, <2>4 DEF PairSound, run_lego, ChainAlways
  <2>5. CASE copy_cert
    BY <2>1, <2>2, <2>5 DEF PairSound, copy_cert, EndChain
  <2>6. CASE copy_key
    BY <2>1, <2>2, <2>6 DEF PairSound, copy_key
  <2>7. CASE acme_renewal_thread \/ dns_changes
    <3>1. UNCHANGED <<cert, key, lego>> /\ (acme' = acme \/ acme' \in {"idle", "begin"})
      BY <2>7 DEF acme_renewal_thread, dns_changes
    <3>2. acme' = acme \/ acme = "done" \/ (acme = "idle" /\ acme' = "begin")
      BY <2>7 DEF acme_renewal_thread, dns_changes
    <3>3. QED
      BY <2>1, <2>2, <3>1, <3>2 DEF PairSound
  <2>8. QED
    BY <2>3, <2>4, <2>5, <2>6, <2>7
<1>6. ServedOnly' /\ ListsSound' /\ AloneSound' /\ SavedSound'
  BY <1>1, SettingsKept
<1>7. LoadsSound' /\ IdentitySound'
  BY <1>1, <1>2, IdentityFrame
<1>8. UNCHANGED <<mem, file, req, requests, clean, overlapped, loading, idfile, ids, generated>>
  BY <1>1 DEF setvars, idvars
<1>9. TypeOK'
  BY <1>1, <1>2, <1>3, <1>8, Zenon DEF IInv, TypeOK
<1>10. RequestsTyped'
  BY <1>4, <1>8, Zenon DEF IInv, RequestsTyped, Active
<1>11. QED
  BY <1>5, <1>6, <1>7, <1>9, <1>10 DEF IInv

(* A crash keeps the files and forgets the rest.                           *)
LEMMA CrashInv == IInv /\ crash => IInv'
<1> SUFFICES ASSUME IInv, crash PROVE IInv'
  OBVIOUS
<1> USE BoundsAssumption DEF crash
<1>1. Default \in Settings /\ Clean(Default)
  BY DefaultSound
<1>2. AllIdle'
  BY DEF AllIdle, Active, Idle
<1>3. TypeOK'
  <2>1. generated \in Nat /\ \A u \in User : ids'[u] \in 0..generated
    BY DEF IInv, RequestsTyped, NoIds
  <2>2. \A h \in Handler : req'[h].pc = "idle"
    BY DEF Idle
  <2>3. TypeOK
    BY DEF IInv
  <2>4. crashes' \in 0..MaxCrash /\ wrong' \subseteq wrong
    BY <2>3 DEF TypeOK
  <2>5. QED
    BY <1>1, <2>1, <2>2, <2>3, <2>4 DEF TypeOK
<1>4. RequestsTyped'
  <2>1. \A h \in Handler : IsRequest(req'[h]) /\ req'[h].alone \in BOOLEAN
    BY Zenon DEF IsRequest, Idle
  <2>2. clean' \in BOOLEAN
    OBVIOUS
  <2>3. ids' = [u \in User |-> ids'[u]]
    BY DEF NoIds
  <2>4. QED
    BY <1>2, <2>1, <2>2, <2>3, Zenon DEF RequestsTyped, IInv, AllIdle, Active, Idle
<1>5. ServedOnly' /\ ListsSound' /\ AloneSound' /\ SavedSound'
  BY <1>1, <1>2, Zenon DEF IInv, ServedOnly, ListsSound, AloneSound, SavedSound, AllIdle, Active
<1>6. LoadsSound' /\ IdentitySound'
  BY DEF LoadsSound, IdentitySound
<1>7. PairSound'
  BY PairFrame
<1>8. QED
  BY <1>3, <1>4, <1>5, <1>6, <1>7 DEF IInv

-------------------------------------------------------------------------------
(* The admin handlers.                                                     *)

PcSet == {"idle", "check", "append", "print", "open", "write"}
FileSet == [state : {"missing", "empty", "whole"}, set : Settings]

(* The steps of a request leave the identity and the certificates alone.   *)
LEMMA RequestFrame ==
  ASSUME IInv, phase = "serving", UNCHANGED <<phase, idvars, certvars, ends>>,
         mem' \in Settings, file' \in FileSet, requests' \in 0..MaxRequest,
         overlapped' \in BOOLEAN, clean' \in BOOLEAN,
         req' = [g \in Handler |-> req'[g]],
         \A g \in Handler : IsRequest(req'[g]) /\ req'[g].pc \in PcSet /\ req'[g].alone \in BOOLEAN,
         \A g \in Handler : Active(g)' => <<req'[g].op, req'[g].arg>> \in Calls,
         \A g \in Handler : req'[g].pc = "append" => req'[g].op \in {"banned", "approved"},
         \A g \in Handler : req'[g].pc \in {"open", "write"} => req'[g].json \in Settings,
         ListsSound', AloneSound', SavedSound'
  PROVE  IInv'
<1>1. TypeOK'
  BY DEF IInv, TypeOK, idvars, certvars, ends, PcSet, FileSet
<1>2. RequestsTyped'
  BY DEF IInv, RequestsTyped, idvars, certvars, FileSet
<1>3. ServedOnly'
  BY DEF IInv, ServedOnly
<1>4. LoadsSound' /\ IdentitySound' /\ PairSound'
  BY IdentityFrame, PairFrame DEF idvars, certvars, ends
<1>5. QED
  BY <1>1, <1>2, <1>3, <1>4 DEF IInv

(* What a step that only moves a request on does to the requests.          *)
LEMMA SetPc ==
  ASSUME IInv, NEW h \in Handler, NEW v \in PcSet, req' = [req EXCEPT ![h].pc = v]
  PROVE  /\ req' = [g \in Handler |-> req'[g]]
         /\ \A g \in Handler : /\ IsRequest(req'[g]) /\ req'[g].alone = req[g].alone
                               /\ req'[g].op = req[g].op /\ req'[g].arg = req[g].arg
                               /\ req'[g].json = req[g].json
         /\ req'[h].pc = v /\ \A g \in Handler : g # h => req'[g].pc = req[g].pc
<1>1. req = [g \in Handler |-> req[g]] /\ \A g \in Handler : IsRequest(req[g])
  BY DEF IInv, RequestsTyped
<1>2. req' = [g \in Handler |-> IF g = h THEN [req[h] EXCEPT !.pc = v] ELSE req[g]]
  BY <1>1
<1>3. [req[h] EXCEPT !.pc = v] = [pc |-> v, op |-> req[h].op, arg |-> req[h].arg,
                                  json |-> req[h].json, alone |-> req[h].alone]
  BY <1>1 DEF IsRequest
<1>4. /\ req'[h] = [pc |-> v, op |-> req[h].op, arg |-> req[h].arg, json |-> req[h].json, alone |-> req[h].alone]
      /\ \A g \in Handler : g # h => req'[g] = req[g]
  BY <1>2, <1>3
<1>5. IsRequest(req'[h])
  BY <1>4 DEF IsRequest
<1>6. QED
  BY <1>1, <1>2, <1>4, <1>5

(* The fields of a new request.                                            *)
LEMMA RequestFields ==
  ASSUME NEW r, NEW op, NEW arg, NEW json, NEW alone,
         r = [pc |-> "check", op |-> op, arg |-> arg, json |-> json, alone |-> alone]
  PROVE  r.pc = "check" /\ r.op = op /\ r.arg = arg /\ r.json = json /\ r.alone = alone
OBVIOUS

(* A request may begin at any time; another one that is under way is no    *)
(* longer alone.                                                           *)
LEMMA BeginInv ==
  ASSUME IInv, NEW h \in Handler, NEW op, NEW arg, <<op, arg>> \in Calls, begin(h, op, arg)
  PROVE  IInv'
<1>1. /\ phase = "serving" /\ req[h].pc = "idle"
      /\ UNCHANGED <<phase, mem, file, idvars, certvars, ends>>
  BY DEF begin
<1>2. /\ req = [g \in Handler |-> req[g]]
      /\ \A g \in Handler : IsRequest(req[g]) /\ req[g].pc \in PcSet /\ req[g].alone \in BOOLEAN
  BY DEF IInv, TypeOK, RequestsTyped, PcSet
<1>3. /\ IsRequest(req'[h]) /\ req'[h].pc = "check" /\ req'[h].op = op /\ req'[h].arg = arg
      /\ req'[h].alone \in BOOLEAN /\ (Others(h) => req'[h].alone = FALSE) /\ (~Others(h) => req'[h].alone = TRUE)
  <2> DEFINE v == ~Others(h)
  <2>1. req'[h] = [pc |-> "check", op |-> op, arg |-> arg, json |-> None, alone |-> v]
    BY DEF begin
  <2>2. v \in BOOLEAN /\ (Others(h) => v = FALSE) /\ (~Others(h) => v = TRUE)
    OBVIOUS
  <2> HIDE DEF v
  <2>3. IsRequest(req'[h])
    BY <2>1 DEF IsRequest
  <2>4. req'[h].pc = "check" /\ req'[h].op = op /\ req'[h].arg = arg /\ req'[h].alone = v
    BY <2>1, RequestFields
  <2>5. QED
    BY <2>2, <2>3, <2>4, Zenon
<1>4. ASSUME NEW g \in Handler, g # h
      PROVE  /\ IsRequest(req'[g]) /\ req'[g].pc = req[g].pc /\ req'[g].op = req[g].op /\ req'[g].arg = req[g].arg
             /\ req'[g].json = req[g].json /\ req'[g].alone \in BOOLEAN
             /\ req[g].pc # "idle" => req'[g].alone = FALSE
  <2> DEFINE v == req[g].alone /\ req[g].pc = "idle"
  <2>1. req'[g] = [req[g] EXCEPT !.alone = v]
    BY <1>4 DEF begin
  <2>2. v \in BOOLEAN /\ (req[g].pc # "idle" => v = FALSE)
    OBVIOUS
  <2> HIDE DEF v
  <2>3. IsRequest(req[g])
    BY <1>2
  <2>4. QED
    BY <2>1, <2>2, <2>3 DEF IsRequest
<1>5. Others(h) <=> \E g \in Handler : g # h /\ Active(g)
  BY DEF Others, Active
<1>6. /\ req' = [g \in Handler |-> req'[g]]
      /\ \A g \in Handler : IsRequest(req'[g]) /\ req'[g].pc \in PcSet /\ req'[g].alone \in BOOLEAN
  <2>1. req' = [g \in Handler |-> req'[g]]
    BY DEF begin
  <2>2. QED
    BY <1>2, <1>3, <1>4, <2>1, Zenon DEF PcSet
<1>7. /\ \A g \in Handler : Active(g)' => <<req'[g].op, req'[g].arg>> \in Calls
      /\ \A g \in Handler : req'[g].pc = "append" => req'[g].op \in {"banned", "approved"}
      /\ \A g \in Handler : req'[g].pc \in {"open", "write"} => req'[g].json \in Settings
  BY <1>3, <1>4, Zenon DEF IInv, RequestsTyped, Active
<1>8. /\ overlapped' = (overlapped \/ Others(h)) /\ clean' = (clean /\ ~Others(h))
      /\ overlapped' \in BOOLEAN /\ clean' \in BOOLEAN
  BY DEF begin
<1>9. ListsSound'
  <2> SUFFICES ASSUME ~overlapped, ~Others(h) PROVE ListsSound'
    BY <1>8, Zenon DEF ListsSound
  <2>1. \A g \in Handler : g # h => req'[g].pc = "idle"
    BY <1>4, <1>5, Zenon DEF Active
  <2>2. QED
    BY <1>1, <1>3, <2>1, Zenon DEF IInv, ListsSound, Active
<1>10. AloneSound'
  <2>1. ASSUME ~Others(h) PROVE AloneSound'
    <3>1. \A g \in Handler : g # h => req'[g].pc = "idle"
      BY <1>4, <1>5, <2>1, Zenon DEF Active
    <3>2. QED
      BY <1>3, <2>1, <3>1 DEF AloneSound, Active
  <2>2. ASSUME Others(h) PROVE AloneSound'
    <3>1. ~clean' /\ \A g \in Handler : Active(g)' => ~req'[g].alone
      BY <1>3, <1>4, <1>8, <2>2, Zenon DEF Active
    <3>2. QED
      BY <3>1 DEF AloneSound
  <2>3. QED
    BY <2>1, <2>2
<1>11. SavedSound'
  BY <1>3 DEF SavedSound, AllIdle, Active
<1>12. file' \in FileSet /\ mem' \in Settings /\ requests' \in 0..MaxRequest
  BY BoundsAssumption DEF begin, IInv, TypeOK, RequestsTyped, FileSet
<1>13. QED
  BY <1>1, <1>6, <1>7, <1>8, <1>9, <1>10, <1>11, <1>12, RequestFrame

(* A request looks through a list or changes the settings in memory.       *)
LEMMA MoveInv ==
  ASSUME IInv, NEW h \in Handler, Active(h), NEW v \in {"append", "print"}, req' = [req EXCEPT ![h].pc = v],
         UNCHANGED <<phase, file, requests, clean, overlapped, idvars, certvars, ends>>,
         mem' \in Settings, ~overlapped => Clean(mem'),
         v = "append" => /\ req[h].op \in {"banned", "approved"}
                         /\ ~overlapped => ~AlreadyIn(mem'[req[h].op], req[h].arg)
  PROVE  IInv'
<1>1. v \in PcSet
  BY DEF PcSet
<1>2. /\ req' = [g \in Handler |-> req'[g]]
      /\ \A g \in Handler : /\ IsRequest(req'[g]) /\ req'[g].alone = req[g].alone
                            /\ req'[g].op = req[g].op /\ req'[g].arg = req[g].arg
                            /\ req'[g].json = req[g].json
      /\ req'[h].pc = v /\ \A g \in Handler : g # h => req'[g].pc = req[g].pc
  BY <1>1, SetPc, Zenon
<1>3. /\ \A g \in Handler : IsRequest(req'[g]) /\ req'[g].pc \in PcSet /\ req'[g].alone \in BOOLEAN
      /\ \A g \in Handler : Active(g)' => <<req'[g].op, req'[g].arg>> \in Calls
      /\ \A g \in Handler : req'[g].pc = "append" => req'[g].op \in {"banned", "approved"}
      /\ \A g \in Handler : req'[g].pc \in {"open", "write"} => req'[g].json \in Settings
  BY <1>1, <1>2 DEF IInv, TypeOK, RequestsTyped, PcSet, Active
<1>4. phase = "serving"
  BY DEF IInv, ServedOnly, AllIdle
<1>5. ListsSound'
  <2> SUFFICES ASSUME ~overlapped PROVE ListsSound'
    BY DEF ListsSound
  <2>1. \A g \in Handler : Active(g) => g = h
    BY DEF IInv, ListsSound
  <2>2. QED
    BY <1>2, <2>1 DEF IInv, ListsSound, Active
<1>6. AloneSound'
  <2>1. ASSUME NEW g \in Handler, Active(g)', req'[g].alone
        PROVE  g = h /\ \A f \in Handler : Active(f)' => f = h
    BY <1>2, <2>1 DEF IInv, AloneSound, Active
  <2>2. ASSUME NEW g \in Handler, Active(g)', clean PROVE req'[g].alone
    BY <1>2, <2>2 DEF IInv, AloneSound, Active
  <2>3. QED
    BY <1>2, <2>1, <2>2 DEF AloneSound, Active
<1>7. SavedSound'
  BY <1>2 DEF SavedSound, AllIdle, Active
<1>8. file' \in FileSet /\ requests' \in 0..MaxRequest /\ clean' \in BOOLEAN /\ overlapped' \in BOOLEAN
  BY DEF IInv, TypeOK, RequestsTyped, FileSet
<1>9. QED
  BY <1>2, <1>3, <1>4, <1>5, <1>6, <1>7, <1>8, RequestFrame

(* The call a request is made for has an argument of its kind.             *)
LEMMA CallTyped ==
  ASSUME IInv, NEW h \in Handler, Active(h)
  PROVE  /\ req[h].op \in {"banned", "unban", "approved"} => req[h].arg \in Address
         /\ req[h].op = "mode" => req[h].arg \in {"auto", "manual"}
         /\ req[h].op = "flag" => req[h].arg \in BOOLEAN
<1> PICK op, arg : op = req[h].op /\ arg = req[h].arg
  OBVIOUS
<1>1. <<op, arg>> \in Calls
  BY DEF IInv, RequestsTyped
<1>2. <<op, arg>> \in ({"banned", "unban", "approved"} \X Address) \cup ({"mode"} \X {"auto", "manual"})
                       \cup ({"flag"} \X BOOLEAN)
  BY <1>1, CallsAssumption
<1>3. QED
  BY <1>2

(* check(h), in its four cases.                                            *)
LEMMA CheckInv == ASSUME IInv, NEW h \in Handler, check(h) PROVE IInv'
<1> DEFINE op == req[h].op
           arg == req[h].arg
<1>1. Active(h) /\ UNCHANGED <<phase, file, requests, clean, overlapped, idvars, certvars, ends>>
  BY DEF check, Active
<1>2. mem \in Settings /\ (~overlapped => Clean(mem))
  BY DEF IInv, TypeOK, ListsSound
<1>3. CASE op \in {"banned", "approved"}
  <2>1. UNCHANGED mem /\ Set(h, IF AlreadyIn(mem[op], arg) THEN "print" ELSE "append")
    BY <1>3 DEF check
  <2>2. CASE AlreadyIn(mem[op], arg)
    <3>1. req' = [req EXCEPT ![h].pc = "print"]
      BY <2>1, <2>2 DEF Set
    <3>2. QED
      BY <1>1, <1>2, <2>1, <3>1, MoveInv, Zenon
  <2>3. CASE ~AlreadyIn(mem[op], arg)
    <3>1. req' = [req EXCEPT ![h].pc = "append"]
      BY <2>1, <2>3 DEF Set
    <3>2. QED
      BY <1>1, <1>2, <1>3, <2>1, <2>3, <3>1, MoveInv, Zenon
  <2>4. QED
    BY <2>2, <2>3
<1>4. CASE op \notin {"banned", "approved"}
  <2>1. req' = [req EXCEPT ![h].pc = "print"]
    BY <1>4 DEF check, Set
  <2>2. CASE op = "unban"
    <3>1. mem' = [mem EXCEPT !.banned = unban(mem.banned, arg)]
      BY <2>2 DEF check
    <3>2. mem.banned \in Seq(Address)
      BY <1>2 DEF Settings
    <3>3. /\ unban(mem.banned, arg) \in Seq(Address)
          /\ IsInjective(mem.banned) => IsInjective(unban(mem.banned, arg))
      BY <3>2, UnbanSound
    <3>4. mem' \in Settings /\ (~overlapped => Clean(mem'))
      BY <1>2, <3>1, <3>3, Zenon DEF Settings, Clean
    <3>5. QED
      BY <1>1, <2>1, <3>4, MoveInv, Zenon
  <2>3. CASE op = "mode"
    <3>1. mem' = [mem EXCEPT !.mode = arg] /\ arg \in {"auto", "manual"}
      BY <1>1, <2>3, CallTyped DEF check
    <3>2. mem' \in Settings /\ (~overlapped => Clean(mem'))
      BY <1>2, <3>1 DEF Settings, Clean
    <3>3. QED
      BY <1>1, <2>1, <3>2, MoveInv, Zenon
  <2>4. CASE op = "flag"
    <3>1. mem' = [mem EXCEPT !.flag = arg] /\ arg \in BOOLEAN
      BY <1>1, <2>4, CallTyped DEF check
    <3>2. mem' \in Settings /\ (~overlapped => Clean(mem'))
      BY <1>2, <3>1 DEF Settings, Clean
    <3>3. QED
      BY <1>1, <2>1, <3>2, MoveInv, Zenon
  <2>5. QED
    BY <1>4, <2>2, <2>3, <2>4 DEF check
<1>5. QED
  BY <1>3, <1>4

(* append(h): what is appended was not in the list when it was looked      *)
(* through, nor is it now unless requests have overlapped.                 *)
LEMMA AppendInv == ASSUME IInv, NEW h \in Handler, append(h) PROVE IInv'
<1>1. /\ Active(h) /\ UNCHANGED <<phase, file, requests, clean, overlapped, idvars, certvars, ends>>
      /\ req' = [req EXCEPT ![h].pc = "print"] /\ req[h].op \in {"banned", "approved"}
  BY DEF append, Active, Set, IInv, RequestsTyped
<1>2. mem \in Settings /\ (~overlapped => Clean(mem) /\ ~AlreadyIn(mem[req[h].op], req[h].arg))
  BY Zenon DEF IInv, TypeOK, ListsSound, append
<1>3. req[h].arg \in Address
  BY <1>1, CallTyped
<1>4. mem' \in Settings /\ (~overlapped => Clean(mem'))
  <2>1. CASE UNCHANGED mem
    BY <1>2, <2>1
  <2>2. CASE mem' = [mem EXCEPT ![req[h].op] = Append(mem[req[h].op], req[h].arg)]
    <3> PICK x \in Address : x = req[h].arg
      BY <1>3
    <3>1. mem.banned \in Seq(Address) /\ mem.approved \in Seq(Address)
      BY <1>2, Zenon DEF Settings
    <3>2. /\ Append(mem.banned, x) \in Seq(Address) /\ Append(mem.approved, x) \in Seq(Address)
          /\ IsInjective(mem.banned) /\ ~AlreadyIn(mem.banned, x) => IsInjective(Append(mem.banned, x))
          /\ IsInjective(mem.approved) /\ ~AlreadyIn(mem.approved, x) => IsInjective(Append(mem.approved, x))
      BY <3>1, AppendSound, Zenon
    <3>3. CASE req[h].op = "banned"
      <4>1. mem' = [mem EXCEPT !.banned = Append(mem.banned, x)] /\ (~overlapped => ~AlreadyIn(mem.banned, x))
        BY <1>2, <2>2, <3>3, Zenon
      <4>2. QED
        BY <1>2, <3>2, <4>1, Zenon DEF Settings, Clean
    <3>4. CASE req[h].op = "approved"
      <4>1. mem' = [mem EXCEPT !.approved = Append(mem.approved, x)] /\ (~overlapped => ~AlreadyIn(mem.approved, x))
        BY <1>2, <2>2, <3>4, Zenon
      <4>2. QED
        BY <1>2, <3>2, <4>1, Zenon DEF Settings, Clean
    <3>5. QED
      BY <1>1, <3>3, <3>4
  <2>3. QED
    BY <2>1, <2>2, Zenon DEF append
<1>5. QED
  BY <1>1, <1>4, MoveInv, Zenon

(* What a request has printed is one of its fields.                        *)
LEMMA JsonField ==
  ASSUME NEW p, NEW o, NEW a, NEW j, NEW l, NEW m
  PROVE  [[pc |-> p, op |-> o, arg |-> a, json |-> j, alone |-> l] EXCEPT !.json = m]
           = [pc |-> p, op |-> o, arg |-> a, json |-> m, alone |-> l]
OBVIOUS

(* portillia_settings_save prints what is in memory.                       *)
LEMMA PrintInv == ASSUME IInv, NEW h \in Handler, save_print(h) PROVE IInv'
<1>1. /\ Active(h) /\ UNCHANGED <<phase, mem, file, requests, clean, overlapped, idvars, certvars, ends>>
      /\ req' = [req EXCEPT ![h].pc = "open", ![h].json = mem]
  BY DEF save_print, Active, PrintSettings
<1>2. /\ req = [g \in Handler |-> req[g]]
      /\ \A g \in Handler : IsRequest(req[g]) /\ req[g].pc \in PcSet /\ req[g].alone \in BOOLEAN
  BY DEF IInv, TypeOK, RequestsTyped, PcSet
<1>3. /\ req'[h] = [pc |-> "open", op |-> req[h].op, arg |-> req[h].arg, json |-> mem, alone |-> req[h].alone]
      /\ req' = [g \in Handler |-> req'[g]] /\ \A g \in Handler : g # h => req'[g] = req[g]
  <2>1. req[h] = [pc |-> req[h].pc, op |-> req[h].op, arg |-> req[h].arg, json |-> req[h].json, alone |-> req[h].alone]
    BY <1>2 DEF IsRequest
  <2>2. req' = [g \in Handler |-> IF g = h THEN [[req[h] EXCEPT !.pc = "open"] EXCEPT !.json = mem] ELSE req[g]]
    BY <1>1, <1>2
  <2>3. [[req[h] EXCEPT !.pc = "open"] EXCEPT !.json = mem]
          = [pc |-> "open", op |-> req[h].op, arg |-> req[h].arg, json |-> mem, alone |-> req[h].alone]
    <3>1. [req[h] EXCEPT !.pc = "open"]
            = [pc |-> "open", op |-> req[h].op, arg |-> req[h].arg, json |-> req[h].json, alone |-> req[h].alone]
      BY <2>1
    <3>2. [[pc |-> "open", op |-> req[h].op, arg |-> req[h].arg, json |-> req[h].json, alone |-> req[h].alone]
             EXCEPT !.json = mem]
            = [pc |-> "open", op |-> req[h].op, arg |-> req[h].arg, json |-> mem, alone |-> req[h].alone]
      BY JsonField
    <3>3. QED
      BY <3>1, <3>2, Zenon
  <2>4. QED
    BY <2>2, <2>3
<1>4. /\ req'[h].pc = "open" /\ req'[h].op = req[h].op /\ req'[h].arg = req[h].arg /\ req'[h].json = mem
      /\ req'[h].alone = req[h].alone /\ IsRequest(req'[h])
  BY <1>3 DEF IsRequest
<1>5. mem \in Settings /\ phase = "serving"
  BY <1>1 DEF IInv, TypeOK, ServedOnly, AllIdle
<1>6. /\ \A g \in Handler : IsRequest(req'[g]) /\ req'[g].pc \in PcSet /\ req'[g].alone \in BOOLEAN
      /\ \A g \in Handler : Active(g)' => <<req'[g].op, req'[g].arg>> \in Calls
      /\ \A g \in Handler : req'[g].pc = "append" => req'[g].op \in {"banned", "approved"}
      /\ \A g \in Handler : req'[g].pc \in {"open", "write"} => req'[g].json \in Settings
  BY <1>1, <1>2, <1>3, <1>4, <1>5, Zenon DEF IInv, RequestsTyped, PcSet, Active
<1>7. \A g \in Handler : Active(g)' <=> Active(g)
  BY <1>1, <1>3, <1>4, Zenon DEF Active
<1>8. ListsSound'
  BY <1>1, <1>3, <1>4, <1>7, Zenon DEF IInv, ListsSound
<1>9. AloneSound'
  BY <1>1, <1>3, <1>4, <1>7, Zenon DEF IInv, AloneSound
<1>10. SavedSound'
  BY <1>1, <1>7 DEF SavedSound, AllIdle
<1>11. file' \in FileSet /\ requests' \in 0..MaxRequest /\ clean' \in BOOLEAN /\ overlapped' \in BOOLEAN
  BY <1>1 DEF IInv, TypeOK, RequestsTyped, FileSet
<1>12. QED
  BY <1>1, <1>3, <1>5, <1>6, <1>8, <1>9, <1>10, <1>11, RequestFrame, Zenon

(* What a step that ends a request does to the requests.                   *)
LEMMA EndRequest ==
  ASSUME IInv, NEW h \in Handler, req' = [req EXCEPT ![h] = Idle]
  PROVE  /\ req' = [g \in Handler |-> req'[g]] /\ ~Active(h)'
         /\ \A g \in Handler : g # h => req'[g] = req[g]
         /\ \A g \in Handler : IsRequest(req'[g]) /\ req'[g].pc \in PcSet /\ req'[g].alone \in BOOLEAN
         /\ \A g \in Handler : Active(g)' => <<req'[g].op, req'[g].arg>> \in Calls
         /\ \A g \in Handler : req'[g].pc = "append" => req'[g].op \in {"banned", "approved"}
         /\ \A g \in Handler : req'[g].pc \in {"open", "write"} => req'[g].json \in Settings
<1>1. req = [g \in Handler |-> req[g]]
  BY DEF IInv, RequestsTyped
<1>2. req'[h] = Idle /\ req' = [g \in Handler |-> req'[g]] /\ \A g \in Handler : g # h => req'[g] = req[g]
  BY <1>1
<1>3. IsRequest(Idle) /\ Idle.pc = "idle" /\ Idle.alone = TRUE
  BY DEF Idle, IsRequest
<1>4. QED
  BY <1>2, <1>3, Zenon DEF IInv, TypeOK, RequestsTyped, PcSet, Active

(* The file is truncated when it is opened, or the save is lost.           *)
LEMMA OpenInv == ASSUME IInv, NEW h \in Handler, save_open(h) PROVE IInv'
<1>1. /\ Active(h) /\ UNCHANGED <<phase, mem, requests, overlapped, idvars, certvars, ends>>
      /\ req[h].pc = "open" /\ mem \in Settings /\ requests' \in 0..MaxRequest /\ overlapped' \in BOOLEAN
  BY DEF save_open, Active, IInv, TypeOK, RequestsTyped
<1>2. phase = "serving"
  BY <1>1 DEF IInv, ServedOnly, AllIdle
<1>3. CASE Set(h, "write") /\ file' = Empty /\ UNCHANGED clean
  <2>1. /\ req' = [g \in Handler |-> req'[g]]
        /\ \A g \in Handler : /\ IsRequest(req'[g]) /\ req'[g].alone = req[g].alone
                              /\ req'[g].op = req[g].op /\ req'[g].arg = req[g].arg
                              /\ req'[g].json = req[g].json
        /\ req'[h].pc = "write" /\ \A g \in Handler : g # h => req'[g].pc = req[g].pc
    BY <1>3, SetPc, Zenon DEF Set, PcSet
  <2>2. Default \in Settings /\ Clean(Default)
    BY DefaultSound
  <2>3. file' \in FileSet /\ file'.set = Default /\ clean' \in BOOLEAN
    BY <1>3, <2>2 DEF Empty, FileSet, IInv, RequestsTyped
  <2>4. /\ \A g \in Handler : IsRequest(req'[g]) /\ req'[g].pc \in PcSet /\ req'[g].alone \in BOOLEAN
        /\ \A g \in Handler : Active(g)' => <<req'[g].op, req'[g].arg>> \in Calls
        /\ \A g \in Handler : req'[g].pc = "append" => req'[g].op \in {"banned", "approved"}
        /\ \A g \in Handler : req'[g].pc \in {"open", "write"} => req'[g].json \in Settings
    <3>1. \A g \in Handler : req[g].pc \in PcSet /\ req[g].alone \in BOOLEAN
      BY Zenon DEF IInv, TypeOK, RequestsTyped, PcSet
    <3>2. \A g \in Handler : req'[g].pc \in PcSet
      BY <2>1, <3>1 DEF PcSet
    <3>3. /\ \A g \in Handler : Active(g) => <<req[g].op, req[g].arg>> \in Calls
          /\ \A g \in Handler : req[g].pc = "append" => req[g].op \in {"banned", "approved"}
          /\ \A g \in Handler : req[g].pc \in {"open", "write"} => req[g].json \in Settings
      BY DEF IInv, RequestsTyped
    <3>4. QED
      BY <1>1, <2>1, <3>1, <3>2, <3>3 DEF Active
  <2>5. \A g \in Handler : Active(g)' <=> Active(g)
    BY <1>1, <2>1 DEF Active
  <2>6. ListsSound'
    BY <1>1, <2>1, <2>2, <2>3, <2>5 DEF IInv, ListsSound
  <2>7. AloneSound'
    BY <1>1, <1>3, <2>1, <2>5 DEF IInv, AloneSound
  <2>8. SavedSound'
    BY <1>1, <2>5 DEF SavedSound, AllIdle
  <2>9. QED
    BY <1>1, <1>2, <2>1, <2>3, <2>4, <2>6, <2>7, <2>8, RequestFrame, Zenon
<1>4. CASE req' = [req EXCEPT ![h] = Idle] /\ clean' = FALSE /\ UNCHANGED file
  <2>1. ~Active(h)' /\ \A g \in Handler : g # h => req'[g] = req[g]
    BY <1>4, EndRequest, Zenon
  <2>2. \A g \in Handler : Active(g)' => Active(g) /\ req'[g] = req[g]
    BY <2>1 DEF Active
  <2>3. ListsSound'
    BY <1>1, <1>4, <2>1, <2>2, Zenon DEF IInv, ListsSound, Active
  <2>4. AloneSound'
    BY <1>1, <1>4, <2>2 DEF IInv, AloneSound
  <2>5. SavedSound' /\ clean' \in BOOLEAN /\ file' \in FileSet
    BY <1>4, Zenon DEF SavedSound, IInv, RequestsTyped, FileSet
  <2>6. QED
    BY <1>1, <1>2, <1>4, <2>3, <2>4, <2>5, EndRequest, RequestFrame, Zenon
<1>5. QED
  BY <1>3, <1>4, Zenon DEF save_open

(* The write that ends a save: one that nothing overtook leaves in the     *)
(* file what is in memory.                                                 *)
LEMMA WriteInv == ASSUME IInv, NEW h \in Handler, save_write(h) PROVE IInv'
<1>1. /\ Active(h) /\ UNCHANGED <<phase, mem, requests, overlapped, idvars, certvars, ends>>
      /\ req[h].pc = "write" /\ mem \in Settings /\ requests' \in 0..MaxRequest /\ overlapped' \in BOOLEAN
  BY Zenon DEF save_write, Active, IInv, TypeOK, RequestsTyped
<1>2. phase = "serving"
  BY <1>1 DEF IInv, ServedOnly, AllIdle
<1>3. /\ req' = [req EXCEPT ![h] = Idle]
      /\ \/ file' = [state |-> "whole", set |-> req[h].json] /\ clean' = (clean \/ req[h].alone)
         \/ file' = Empty /\ clean' = FALSE
  BY DEF save_write
<1>4. ~Active(h)' /\ \A g \in Handler : g # h => req'[g] = req[g]
  BY <1>3, EndRequest, Zenon
<1>5. \A g \in Handler : Active(g)' => g # h /\ Active(g) /\ req'[g] = req[g]
  BY <1>4 DEF Active
<1>6. /\ file' \in FileSet /\ file'.set \in {req[h].json, Default}
      /\ file' # Empty => file'.set = req[h].json /\ file'.state = "whole"
  <2>1. req[h].json \in Settings /\ Default \in Settings
    BY <1>1, DefaultSound DEF IInv, RequestsTyped
  <2>2. QED
    BY <1>3, <2>1 DEF FileSet, Empty
<1>7. clean' \in BOOLEAN /\ (clean' => req[h].alone)
  BY <1>1, <1>3, Zenon DEF IInv, AloneSound
<1>8. clean' => file'.set = req[h].json /\ file'.state = "whole"
  BY <1>3
<1>9. ListsSound'
  <2> SUFFICES ASSUME ~overlapped PROVE ListsSound'
    BY <1>1, Zenon DEF ListsSound
  <2>1. Clean(mem) /\ Clean(req[h].json) /\ \A g \in Handler : ~Active(g)'
    BY <1>1, <1>5, Zenon DEF IInv, ListsSound
  <2>2. QED
    BY <1>1, <1>6, <2>1, DefaultSound DEF ListsSound, Active
<1>10. ASSUME req[h].alone PROVE AllIdle' /\ req[h].json = mem
  BY <1>1, <1>5, <1>10, Zenon DEF IInv, AloneSound, AllIdle
<1>11. AloneSound'
  <2>1. CASE req[h].alone
    BY <1>10, <2>1 DEF AloneSound, AllIdle
  <2>2. CASE ~req[h].alone
    BY <1>1, <1>5, <1>7, <2>2, Zenon DEF IInv, AloneSound
  <2>3. QED
    BY <2>1, <2>2
<1>12. SavedSound'
  <2> SUFFICES ASSUME clean' PROVE Lists(portillia_settings_load)' = Lists(mem)'
    BY DEF SavedSound
  <2>1. file'.set = mem /\ file'.state = "whole" /\ mem' = mem
    BY <1>1, <1>7, <1>10, <1>8
  <2>2. portillia_settings_load' = [mem EXCEPT !.flag = FALSE]
    BY <2>1 DEF portillia_settings_load
  <2>3. QED
    BY <1>1, <2>1, <2>2 DEF Lists, Settings
<1>13. QED
  BY <1>1, <1>2, <1>3, <1>6, <1>7, <1>9, <1>11, <1>12, EndRequest, RequestFrame, Zenon

(* Every step of the relay preserves the invariant.                        *)
LEMMA NextInv == IInv /\ [Next]_vars => IInv'
<1> SUFFICES ASSUME IInv, [Next]_vars PROVE IInv'
  OBVIOUS
<1>1. CASE Start \/ Certificate \/ acme_renewal_thread \/ dns_changes \/ crash
  BY <1>1, SettingsInv, LoadInv, WriteIdentityInv, RenewalInv, CertificateInv, CrashInv DEF Start
<1>2. ASSUME NEW h \in Handler, Request(h) PROVE IInv'
  BY <1>2, CheckInv, AppendInv, PrintInv, OpenInv, WriteInv DEF Request
<1>3. ASSUME NEW h \in Handler, NEW c \in Calls, begin(h, c[1], c[2]) PROVE IInv'
  <2>1. <<c[1], c[2]>> \in Calls
    <3>1. c \in ({"banned", "unban", "approved"} \X Address) \cup ({"mode"} \X {"auto", "manual"})
                 \cup ({"flag"} \X BOOLEAN)
      BY CallsAssumption
    <3>2. c = <<c[1], c[2]>>
      BY <3>1
    <3>3. QED
      BY <3>2
  <2>2. QED
    BY <1>3, <2>1, BeginInv
<1>4. CASE UNCHANGED vars
  <2>1. UNCHANGED <<phase, setvars, idvars, certvars, ends>>
    BY <1>4 DEF vars
  <2>2. ServedOnly' /\ ListsSound' /\ AloneSound' /\ SavedSound'
    BY <2>1, SettingsKept
  <2>3. TypeOK' /\ RequestsTyped' /\ LoadsSound' /\ IdentitySound' /\ PairSound'
    <3>1. TypeOK' /\ RequestsTyped'
      <4>1. /\ phase' = phase /\ mem' = mem /\ file' = file /\ req' = req /\ requests' = requests /\ clean' = clean
            /\ overlapped' = overlapped /\ loading' = loading /\ idfile' = idfile /\ ids' = ids
            /\ generated' = generated /\ cert' = cert /\ key' = key /\ lego' = lego /\ acme' = acme
            /\ renewal' = renewal /\ dns' = dns /\ crashes' = crashes /\ faults' = faults /\ wrong' = wrong
        BY <2>1 DEF setvars, idvars, certvars, ends
      <4>2. TypeOK'
        <5>1. TypeOK
          BY DEF IInv
        <5>2. /\ lego' \in 0..MaxRun /\ cert' \in 0..lego' \cup {Torn, Manual} /\ key' \in 0..lego' \cup {Torn, Manual}
              /\ acme' \in {"idle", "begin", "rebuild", "rebuilding", "lego", "chain", "chaining", "key", "keying", "done"}
          BY <4>1, <5>1 DEF TypeOK
        <5>3. QED
          BY <4>1, <5>1, <5>2, Zenon DEF TypeOK
      <4>3. RequestsTyped'
        BY <4>1, Zenon DEF IInv, RequestsTyped, Active
      <4>4. QED
        BY <4>2, <4>3
    <3>2. LoadsSound' /\ IdentitySound' /\ PairSound'
      BY <2>1, IdentityFrame, PairFrame DEF certvars, ends
    <3>3. QED
      BY <3>1, <3>2
  <2>4. QED
    BY <2>2, <2>3 DEF IInv
<1>5. QED
  BY <1>1, <1>2, <1>3, <1>4 DEF Next

(* In every behaviour of the relay the invariant holds.                    *)
THEOREM Invariance == Spec => []IInv
  BY InitInv, NextInv, PTL DEF Spec

(* However often the relay crashes, and however many requests, failures    *)
(* and lego runs there are: the state is well-typed, the lists of          *)
(* settings.json are without repetitions unless admin requests overlapped, *)
(* a serving relay has the one identity that is on disk unless a call of   *)
(* load_or_create failed, and if no copy failed a certificate and key that *)
(* are both there and whole belong together (or are an operator's, beside  *)
(* a leaf of lego's), and the chain is whole once the set-up is over.      *)
THEOREM FilesSafe == Spec => []FilesInv
<1>1. IInv => FilesInv
  <2> SUFFICES ASSUME IInv PROVE FilesInv
    OBVIOUS
  <2>1. TypeOK /\ ListsAreSets
    BY Zenon DEF IInv, ListsSound, ListsAreSets, Clean
  <2>2. OneIdentity
    BY DEF IInv, IdentitySound, OneIdentity, Unfailed, User
  <2>3. PairMatches
    BY DEF IInv, PairSound, PairMatches
  <2>4. QED
    BY <2>1, <2>2, <2>3 DEF FilesInv
<1>2. QED
  BY <1>1, Invariance, PTL

(* After a save that was not overtaken, cut off or refused, what           *)
(* portillia_settings_load would read is what the admins have set.         *)
THEOREM SettingsPersist == Spec => []Persisted
<1>1. IInv => Persisted
  BY DEF IInv, SavedSound, Persisted, AllIdle, Active
<1>2. QED
  BY <1>1, Invariance, PTL

(* No step of the relay, a crash or a restart included, replaces a         *)
(* complete identity that is on disk, unless reading it has failed.        *)
THEOREM IdentityStays == Spec => IdentityKept
<1>1. IInv /\ [Next]_vars => [Complete /\ "read" \notin wrong => idfile' = idfile]_vars
  <2> SUFFICES ASSUME IInv, Next, Complete, "read" \notin wrong PROVE idfile' = idfile
    OBVIOUS
  <2>1. loading # "rename"
    BY DEF IInv, LoadsSound
  <2>2. CASE Start
    BY <2>1, <2>2, Zenon DEF Start, start_settings, load_identity, write_identity, rename_identity,
                             ensure_descriptor_identity, start_renewal
  <2>3. CASE crash
    BY <2>3 DEF crash
  <2>4. CASE ~Start /\ ~crash
    BY <2>4, Zenon DEF Next, Certificate, ensure_certificate, run_lego, copy_cert, copy_key, acme_renewal_thread,
                       dns_changes, Request, check, append, save_print, save_open, save_write, begin, idvars
  <2>5. QED
    BY <2>2, <2>3, <2>4
<1>2. QED
  BY <1>1, Invariance, PTL DEF Spec, IdentityKept
===============================================================================
