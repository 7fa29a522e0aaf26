------------------------- MODULE ProjectTagsProofs -------------------------
(* Proofs about ProjectTags, for any buffers, directories, filetypes and   *)
(* number of messages.                                                     *)
EXTENDS ProjectTags, FiniteSetTheorems, SequenceTheorems, TLAPS

-----------------------------------------------------------------------------
(* Where a thread is: without a directory, or with one that the buffer has *)
(* already; before the buffer is open, while it is, and after.             *)
Resting == {"idle", "gone"}
Opening == {"open", "find", "create", "count_in", "store_in"}
Joined == {"filetype", "ftlock", "ftfill", "lines"}
Using == {"tags", "update", "ctags", "running", "search", "searching", "clear", "unlist"}
Leaving == {"count_out", "store_out"}
Around == {"count_in", "store_in", "count_out", "store_out"}

ThreadSound(t) ==
  /\ th[t].num = None <=> th[t].pc \in Resting
  /\ th[t].pc \notin Resting \cup {"open"} => ft[th[t].num] \in Types
  /\ th[t].pc \in Around => th[t].dir # 0
  /\ th[t].pc = "store_out" => th[t].refs # 0
  /\ th[t].pc = "ftfill" => ft[th[t].num] \in ftinit
  /\ t \in Bufs => th[t].pc \in {"idle", "clear", "unlist"} \cup Leaving /\ th[t].num \in {None, t}

(* Threads wait for each other if they are about the same buffer.          *)
OnePerBuffer == \A t, u \in Threads : th[t].num # None /\ th[t].num = th[u].num => t = u

Placed(t) == LET b == th[t].num IN
  /\ th[t].pc \in Opening => b \notin open /\ topdir[b] = 0
  /\ th[t].pc \in Joined \cup Leaving => b \notin open
  /\ th[t].pc \in Using => b \in open
  /\ th[t].pc \in Joined \cup Using \cup Leaving => topdir[b] # 0 /\ th[t].dir = topdir[b]

(* Buffers nobody is about have a directory exactly while they are open.   *)
Untouched(b) == /\ (\A t \in Threads : th[t].num # b) => (b \in open <=> topdir[b] # 0)
                /\ topdir[b] # 0 => ft[b] \in Types

(* A directory that is not freed is in the list; its base is its path, or  *)
(* the file of one buffer.                                                 *)
DirSound(d) ==
  IF Alive(d) THEN /\ tdirs[d].listed /\ tdirs[d].refs # 0
                   /\ tdirs[d].path \in Dirs /\ tdirs[d].ftid \in Types
                   /\ IF tdirs[d].path \in NoRecurse
                      THEN tdirs[d].base \in NoRecurse \X Bufs
                      ELSE tdirs[d].base = tdirs[d].path
  ELSE ~ tdirs[d].listed

Sound == /\ \A t \in Threads : ThreadSound(t) /\ Placed(t)
         /\ OnePerBuffer
         /\ \A b \in Bufs : Untouched(b)

(* Every command that waits has been sent.                                 *)
WasSent == \A k \in Kinds : waiting[k] <= sent

TypeInv == /\ TypeOK
           /\ WasSent
           /\ Sound
           /\ \A d \in 1 .. Len(tdirs) : DirSound(d)

-----------------------------------------------------------------------------
(* A buffer's directory is one for its files and filetype.                 *)
Suits(d, b) == tdirs[d].base = Base(b) /\ tdirs[d].ftid = ft[b]

(* Without races, a count that a thread has read is still true when it     *)
(* writes it back.                                                         *)
Users(d) == {b \in Bufs : topdir[b] = d}
CountSound ==
  /\ \A b \in Bufs : topdir[b] # 0 => Alive(topdir[b]) /\ Suits(topdir[b], b)
  /\ \A d \in 1 .. Len(tdirs) : Alive(d) => tdirs[d].refs = Cardinality(Users(d))
  /\ \A t \in Threads :
       /\ th[t].pc \in {"count_in", "store_in"} => Alive(th[t].dir) /\ Suits(th[t].dir, th[t].num)
       /\ th[t].pc \in {"store_in", "store_out"} => th[t].refs = tdirs[th[t].dir].refs
  /\ \A t, u \in Threads : th[t].pc \in Around /\ th[u].pc \in Around /\ th[t].dir = th[u].dir => t = u
CountInv == raced \/ CountSound

(* neovim_init alone, and then one command at a time.                      *)
Alone == Early \/ /\ th[Main].pc \notin {"idle", "clear", "unlist"} \cup Leaving
                  /\ th[Main].pc # "gone" => /\ th[Cmd].pc = "idle"
                                             /\ \A k \in Kinds : waiting[k] = 0
                                             /\ \A b \in Bufs : th[b].pc = "idle"

(* No two directories are for the same files.                              *)
KeysInv == Early \/ raced \/
             /\ \A t \in Threads : th[t].pc = "create" => check_open_topdirs(th[t].num) = {}
             /\ \A d, e \in 1 .. Len(tdirs) : Alive(d) /\ Alive(e) /\ Key(d) = Key(e) => d = e

(* Filetypes are filled once, and before a buffer of theirs is open.       *)
FiletypesInv ==
  Early \/ /\ \A t \in Threads : /\ th[t].pc = "ftlock" => ft[th[t].num] \notin ftinit
                                 /\ th[t].pc = "ftfill" => ft[th[t].num] \notin ftfilled
                                 /\ th[t].pc = "lines" => ft[th[t].num] \in ftfilled
           /\ \A f \in ftinit \ ftfilled : \E t \in Threads : th[t].pc = "ftfill" /\ ft[th[t].num] = f
           /\ \A b \in open : ft[b] \in ftfilled

(* Tags made with the language forced are about to be made again.          *)
TagsInv ==
  Early \/ /\ \A t \in Threads : /\ ~ th[t].freed /\ (th[t].pc = "searching" => ~ th[t].forced)
                                 /\ th[t].pc = "running" => enabled
           /\ \A d \in 1 .. Len(tdirs) : tdirs[d].tags.forced =>
                enabled /\ \E t \in {Main, Cmd} : /\ th[t].pc \in {"ctags", "running"}
                                                  /\ th[t].run = "second" /\ th[t].dir = d

UseInv == Early \/ raced \/ undefined = None
-----------------------------------------------------------------------------
(* The types of the variables.                                             *)
ThRecs(n) == [pc : Pcs, num : Bufs \cup {None}, dir : 0 .. n, refs : Nat, normal : BOOLEAN,
              run : Runs, ver : Versions, forced : BOOLEAN, freed : BOOLEAN]

LEMMA ConstantTypes ==
  /\ Main \in Threads /\ Cmd \in Threads /\ Main # Cmd /\ Main \notin Bufs /\ Cmd \notin Bufs
  /\ Bufs \subseteq Threads /\ None \notin Bufs /\ None \notin Versions /\ None \notin Bases
  /\ None \notin Types /\ None \notin Dirs
  /\ 0 \in Versions /\ 1 \in Versions /\ \A v \in Versions : v \in Nat
  BY BufsAssumption, NoneAssumption, NoRecurseAssumption, BoundsAssumption
     DEF Main, Cmd, Threads, Versions, Bases

LEMMA ThreadTypes ==
  ASSUME TypeOK
  PROVE  /\ th \in [Threads -> ThRecs(Len(tdirs))]
         /\ Len(tdirs) \in Nat
         /\ \A t \in Threads : /\ th[t] \in ThRecs(Len(tdirs))
                               /\ th[t].pc \in Pcs /\ th[t].num \in Bufs \cup {None}
                               /\ th[t].dir \in 0 .. Len(tdirs) /\ th[t].refs \in Nat
                               /\ th[t].run \in Runs /\ th[t].ver \in Versions
<1>1. th \in [Threads -> ThRecs(Len(tdirs))]
  BY DEF TypeOK, ThRecs
<1>2. Len(tdirs) \in Nat
  BY LenProperties DEF TypeOK
<1>3. QED
  BY <1>1, <1>2 DEF ThRecs

LEMMA DirTypes ==
  ASSUME TypeOK, NEW d \in 1 .. Len(tdirs)
  PROVE  /\ tdirs[d] \in DirRecs
         /\ tdirs[d].base \in Bases \cup {None} /\ tdirs[d].path \in Dirs \cup {None}
         /\ tdirs[d].ftid \in Types \cup {None} /\ tdirs[d].refs \in Nat
         /\ tdirs[d].listed \in BOOLEAN /\ tdirs[d].tags \in TagRecs
         /\ tdirs[d].tags.ver \in Versions /\ tdirs[d].tags.forced \in BOOLEAN
<1>1. tdirs[d] \in DirRecs
  BY ElementOfSeq DEF TypeOK
<1>2. QED
  BY <1>1 DEF DirRecs, TagRecs

LEMMA BaseType ==
  ASSUME TypeOK, NEW b \in Bufs
  PROVE  /\ file[b] \in Dirs /\ Base(b) \in Bases
         /\ Base(b) \in Dirs <=> file[b] \notin NoRecurse
         /\ file[b] \in NoRecurse => Base(b) = <<file[b], b>> /\ Base(b) \in NoRecurse \X Bufs
         /\ file[b] \notin NoRecurse => Base(b) = file[b]
<1>1. file[b] \in Dirs
  BY DEF TypeOK
<1>2. file[b] \in NoRecurse => <<file[b], b>> \in NoRecurse \X Bufs /\ <<file[b], b>> \in Dirs \X Bufs
  BY NoRecurseAssumption
<1>3. QED
  BY <1>1, <1>2, DirsAssumption DEF Base, Recurse, Bases

(* Thread t becomes r.                                                     *)
LEMMA Becomes ==
  ASSUME TypeOK, NEW t \in Threads, NEW r \in ThRecs(Len(tdirs)'),
         Len(tdirs)' \in Nat, Len(tdirs) <= Len(tdirs)', th' = [th EXCEPT ![t] = r]
  PROVE  /\ th' \in [Threads -> ThRecs(Len(tdirs)')]
         /\ th'[t] = r
         /\ \A u \in Threads \ {t} : th'[u] = th[u]
<1>1. /\ th \in [Threads -> ThRecs(Len(tdirs))] /\ Len(tdirs) \in Nat
      /\ \A u \in Threads : th[u] \in ThRecs(Len(tdirs))
  BY ThreadTypes
<1>2. \A x \in ThRecs(Len(tdirs)) : x \in ThRecs(Len(tdirs)')
  BY <1>1 DEF ThRecs
<1>3. QED
  BY <1>1, <1>2

(* What a step of thread t about buffer b leaves sound.                    *)
LEMMA StepSound ==
  ASSUME TypeInv, NEW t \in Threads, NEW b \in Bufs, th[t].num = b,
         \A u \in Threads \ {t} : /\ th'[u].pc = th[u].pc /\ th'[u].num = th[u].num
                                  /\ th'[u].dir = th[u].dir /\ th'[u].refs = th[u].refs,
         \A c \in Bufs \ {b} : /\ ft'[c] = ft[c] /\ topdir'[c] = topdir[c]
                               /\ c \in open' <=> c \in open,
         th'[t].num \in {b, None}, ftinit \subseteq ftinit',
         ThreadSound(t)', Placed(t)', Untouched(b)'
  PROVE  Sound'
<1>1. None \notin Bufs
  BY ConstantTypes
<1>2. \A u \in Threads \ {t} : th[u].num \in (Bufs \ {b}) \cup {None}
  BY <1>1, ThreadTypes DEF TypeInv, Sound, OnePerBuffer
<1>3. ASSUME NEW u \in Threads \ {t}
      PROVE  ThreadSound(u)' /\ Placed(u)'
  <2>1. ThreadSound(u) /\ Placed(u)
    BY DEF TypeInv, Sound
  <2>2. CASE th[u].num = None
    <3>1. th[u].pc \in Resting
      BY <2>1, <2>2 DEF ThreadSound
    <3>2. QED
      BY <2>1, <2>2, <3>1 DEF ThreadSound, Placed, Resting, Opening, Joined, Using, Leaving, Around
  <2>3. CASE th[u].num \in Bufs \ {b}
    BY <2>1, <2>3 DEF ThreadSound, Placed
  <2>4. QED
    BY <1>2, <2>2, <2>3
<1>4. OnePerBuffer'
  BY <1>1, <1>2 DEF OnePerBuffer, TypeInv, Sound
<1>5. ASSUME NEW c \in Bufs \ {b}
      PROVE  Untouched(c)'
  <2>1. (\A u \in Threads : th'[u].num # c) => \A u \in Threads : th[u].num # c
    OBVIOUS
  <2>2. QED
    BY <2>1 DEF Untouched, TypeInv, Sound
<1>6. QED
  BY <1>3, <1>4, <1>5 DEF Sound


(* ... if it only moves on, and its buffer stays as it is.                 *)
LEMMA MoveSound ==
  ASSUME TypeInv, NEW t \in Threads, NEW b \in Bufs, th[t].num = b,
         NEW r \in ThRecs(Len(tdirs)'), r.num = b, th' = [th EXCEPT ![t] = r],
         Len(tdirs)' = Len(tdirs), UNCHANGED <<open, ft, topdir>>, ftinit \subseteq ftinit',
         ThreadSound(t)', Placed(t)'
  PROVE  Sound' /\ th' \in [Threads -> ThRecs(Len(tdirs)')]
<1>1. /\ th' \in [Threads -> ThRecs(Len(tdirs)')] /\ th'[t] = r
      /\ \A u \in Threads \ {t} : th'[u] = th[u]
  BY Becomes, ThreadTypes DEF TypeInv
<1>2. Untouched(b)'
  BY <1>1 DEF Untouched, TypeInv, Sound
<1>3. QED
  BY <1>1, <1>2, StepSound

(* What is known of a thread that is at work.                              *)
LEMMA AtWork ==
  ASSUME TypeInv, NEW t \in Threads, th[t].pc \notin Resting
  PROVE  /\ th[t].num \in Bufs /\ th[t].pc \in Pcs
         /\ th[t] \in ThRecs(Len(tdirs)) /\ Len(tdirs) \in Nat
         /\ ThreadSound(t) /\ Placed(t) /\ Untouched(th[t].num)
         /\ topdir[th[t].num] \in 0 .. Len(tdirs) /\ ft[th[t].num] \in Types \cup {None}
<1>1. th[t].num \in Bufs
  BY ThreadTypes DEF TypeInv, Sound, ThreadSound
<1>2. QED
  BY <1>1, ThreadTypes DEF TypeInv, Sound, TypeOK

(* A step that touches no thread and no buffer.                            *)
LEMMA SoundSame ==
  ASSUME TypeInv, UNCHANGED <<open, ft, topdir, th>>, ftinit \subseteq ftinit'
  PROVE  Sound'
  BY DEF TypeInv, Sound, ThreadSound, Placed, OnePerBuffer, Untouched

LEMMA DirsSame ==
  ASSUME TypeInv, UNCHANGED tdirs
  PROVE  \A d \in 1 .. Len(tdirs)' : DirSound(d)'
  BY DEF TypeInv, DirSound, Alive

LEMMA ToNeovim ==
  ASSUME TypeOK, NEW b \in Bufs, NEW v \in Versions, ft[b] \in Types, Send(b, v)
  PROVE  toNvim' \in Seq([num : Bufs, type : Types, ver : Versions])
<1>1. [num |-> b, type |-> ft[b], ver |-> v] \in [num : Bufs, type : Types, ver : Versions]
  OBVIOUS
<1>2. QED
  BY <1>1, AppendProperties DEF TypeOK, Send


-----------------------------------------------------------------------------
(* Type correctness, step by step: first neovim and the user.              *)
LEMMA AnnounceTypes ==
  ASSUME TypeInv, NEW k \in Kinds, Announce(k)
  PROVE  /\ sent' \in 0 .. MaxMessages /\ waiting' \in [Kinds -> 0 .. MaxMessages]
         /\ WasSent'
<1>1. /\ sent \in Nat /\ sent < MaxMessages /\ waiting \in [Kinds -> 0 .. MaxMessages]
      /\ \A j \in Kinds : waiting[j] <= sent
  BY BoundsAssumption DEF TypeInv, TypeOK, WasSent, Announce
<1>2. sent' = sent + 1 /\ waiting' = [waiting EXCEPT ![k] = waiting[k] + 1]
  BY DEF Announce
<1>3. \A j \in Kinds : waiting'[j] = IF j = k THEN waiting[j] + 1 ELSE waiting[j]
  BY <1>1, <1>2
<1>4. QED
  BY <1>1, <1>2, <1>3, BoundsAssumption DEF WasSent

LEMMA NvimFrame ==
  ASSUME TypeInv, TypeOK', WasSent', UNCHANGED <<bdata, tdirs, th, filetypes>>
  PROVE  TypeInv'
  BY SoundSame, DirsSame DEF TypeInv, bdata, filetypes

LEMMA TypeEnter ==
  ASSUME TypeInv, NEW n \in Bufs, EnterBuffer(n)
  PROVE  TypeInv'
<1>1. /\ sent' \in 0 .. MaxMessages /\ waiting' \in [Kinds -> 0 .. MaxMessages]
      /\ WasSent'
  <2>1. CASE Announce("changed")
    BY <2>1, AnnounceTypes DEF Kinds
  <2>2. CASE sent < MaxMessages /\ sent' = sent + 1 /\ UNCHANGED waiting
    BY <2>2, BoundsAssumption DEF TypeInv, TypeOK, WasSent
  <2>3. QED
    BY <2>1, <2>2 DEF EnterBuffer
<1>2. excuses' \subseteq {"bounced", "cleared", "overtaken", "unannounced", "mistaken"}
  BY DEF EnterBuffer, TypeInv, TypeOK
<1>3. TypeOK'
  BY <1>1, <1>2 DEF EnterBuffer, TypeInv, TypeOK, bdata, filetypes
<1>4. QED
  BY <1>1, <1>3, NvimFrame DEF EnterBuffer

LEMMA TypeAnnounced ==
  ASSUME TypeInv, AddBuffer \/ WriteFile \/ ForceUpdate \/ \E f \in Types : SetFiletype(f)
  PROVE  TypeInv'
<1>1. \E k \in Kinds : Announce(k)
  BY DEF AddBuffer, WriteFile, ForceUpdate, SetFiletype, Kinds
<1>2. /\ sent' \in 0 .. MaxMessages /\ waiting' \in [Kinds -> 0 .. MaxMessages]
      /\ WasSent'
  BY <1>1, AnnounceTypes
<1>3. UNCHANGED <<bdata, tdirs, th, filetypes>>
  BY DEF AddBuffer, WriteFile, ForceUpdate, SetFiletype
<1>4. CASE AddBuffer
  <2>1. TypeOK'
    BY <1>2, <1>4 DEF AddBuffer, TypeInv, TypeOK, bdata, filetypes, history
  <2>2. QED
    BY <1>2, <1>3, <2>1, NvimFrame
<1>5. CASE WriteFile
  <2>1. version' \in Versions
    BY <1>5, BoundsAssumption DEF WriteFile, TypeInv, TypeOK, Versions
  <2>2. TypeOK'
    BY <1>2, <1>5, <2>1 DEF WriteFile, TypeInv, TypeOK, bdata, filetypes, history
  <2>3. QED
    BY <1>2, <1>3, <2>2, NvimFrame
<1>6. CASE ForceUpdate
  <2>1. TypeOK'
    BY <1>2, <1>6 DEF ForceUpdate, TypeInv, TypeOK, bdata, filetypes, history
  <2>2. QED
    BY <1>2, <1>3, <2>1, NvimFrame
<1>7. CASE \E f \in Types : SetFiletype(f)
  <2>1. PICK f \in Types : SetFiletype(f)
    BY <1>7
  <2>2. type' \in [Bufs -> Types]
    BY <2>1 DEF SetFiletype, TypeInv, TypeOK
  <2>3. TypeOK'
    BY <1>2, <2>1, <2>2 DEF SetFiletype, TypeInv, TypeOK, bdata, filetypes, history
  <2>4. QED
    BY <1>2, <1>3, <2>3, NvimFrame
<1>8. QED
  BY <1>4, <1>5, <1>6, <1>7

(* A command taken out of what is under way.                               *)
LEMMA Without ==
  ASSUME NEW S, NEW s \in Seq(S), NEW i \in 1 .. Len(s)
  PROVE  SubSeq(s, 1, i - 1) \o SubSeq(s, i + 1, Len(s)) \in Seq(S)
<1>1. Len(s) \in Nat /\ \A j \in 1 .. Len(s) : s[j] \in S
  BY LenProperties, ElementOfSeq
<1>2. SubSeq(s, 1, i - 1) \in Seq(S)
  BY <1>1, SubSeqProperties
<1>3. SubSeq(s, i + 1, Len(s)) \in Seq(S)
  BY <1>1, SubSeqProperties
<1>4. QED
  BY <1>2, <1>3, ConcatProperties

LEMMA TypeExecute ==
  ASSUME TypeInv, NEW i \in 1 .. Len(toNvim), Execute(i)
  PROVE  TypeInv'
<1> DEFINE M == [num : Bufs, type : Types, ver : Versions]
<1>1. toNvim \in Seq(M)
  BY DEF TypeInv, TypeOK
<1>2. toNvim' \in Seq(M)
  BY <1>1, Without DEF Execute
<1>3. toNvim[i] \in M
  BY <1>1, ElementOfSeq
<1>4. /\ toNvim[i].type \in Types
      /\ <<toNvim[i].num, toNvim[i].ver>> \in (Bufs \X Versions) \cup {None}
  BY <1>3
<1>5. shown' \in [Bufs -> [Types -> (Bufs \X Versions) \cup {None}]]
  BY <1>4 DEF Execute, TypeInv, TypeOK
<1>6. excuses' \subseteq {"bounced", "cleared", "overtaken", "unannounced", "mistaken"}
  BY DEF Execute, TypeInv, TypeOK
<1> HIDE DEF M
<1>7. TypeOK' /\ WasSent'
  BY <1>2, <1>5, <1>6 DEF Execute, TypeInv, TypeOK, WasSent, bdata, filetypes, M
<1>8. QED
  BY <1>7, NvimFrame DEF Execute


-----------------------------------------------------------------------------
(* A thread that starts.                                                   *)
LEMMA StartSound ==
  ASSUME TypeInv, NEW t \in Threads, th[t].num = None, NEW b \in Bufs, ~ Busy(b),
         NEW r \in ThRecs(Len(tdirs)'), r.num = b, th' = [th EXCEPT ![t] = r],
         UNCHANGED <<open, ft, topdir, tdirs, ftinit>>,
         ThreadSound(t)', Placed(t)'
  PROVE  Sound' /\ th' \in [Threads -> ThRecs(Len(tdirs)')]
<1>1. /\ th' \in [Threads -> ThRecs(Len(tdirs)')] /\ th'[t] = r
      /\ \A u \in Threads \ {t} : th'[u] = th[u]
  BY Becomes, ThreadTypes DEF TypeInv
<1>2. None \notin Bufs /\ \A u \in Threads : th[u].num \in Bufs \cup {None}
  BY ConstantTypes, ThreadTypes DEF TypeInv
<1>3. \A u \in Threads : th[u].num # b
  BY <1>2 DEF Busy, TypeInv, Sound, ThreadSound, Resting
<1>4. \A u \in Threads \ {t} : ThreadSound(u)' /\ Placed(u)'
  BY <1>1 DEF TypeInv, Sound, ThreadSound, Placed
<1>5. OnePerBuffer'
  BY <1>1, <1>2, <1>3 DEF TypeInv, Sound, OnePerBuffer
<1>6. ASSUME NEW c \in Bufs
      PROVE  Untouched(c)'
  <2>1. (\A u \in Threads : th'[u].num # c) => \A u \in Threads : th[u].num # c
    BY <1>1, <1>2
  <2>2. QED
    BY <2>1 DEF TypeInv, Sound, Untouched
<1>7. QED
  BY <1>1, <1>4, <1>5, <1>6 DEF Sound

(* The buffer of a thread that starts is as it was left.                   *)
LEMMA StartsAt ==
  ASSUME TypeInv, NEW b \in Bufs, ~ Busy(b)
  PROVE  /\ b \in open <=> topdir[b] # 0
         /\ topdir[b] # 0 => ft[b] \in Types
         /\ topdir[b] \in 0 .. Len(tdirs)
<1>1. \A u \in Threads : th[u].num # b
  BY ConstantTypes DEF Busy, TypeInv, Sound, ThreadSound, Resting
<1>2. QED
  BY <1>1 DEF TypeInv, Sound, Untouched, TypeOK

LEMMA BeginSound ==
  ASSUME TypeInv, NEW p, NEW n \in BOOLEAN, At(Cmd, "idle"), ~ Busy(current), Begin(p, n),
         \/ p = "open" /\ current \notin open
         \/ p \in {"update", "clear"} /\ current \in open,
         UNCHANGED <<open, ft, topdir, tdirs, ftinit>>
  PROVE  Sound' /\ th' \in [Threads -> ThRecs(Len(tdirs)')]
<1> DEFINE r == [Idle EXCEPT !.pc = p, !.num = current, !.normal = n,
                             !.dir = IF current \in open THEN topdir[current] ELSE 0]
<1>1. th' = [th EXCEPT ![Cmd] = r]
  BY DEF Begin
<1>2. current \in Bufs /\ Len(tdirs) \in Nat
  BY ThreadTypes DEF TypeInv, TypeOK
<1>3. topdir[current] \in 0 .. Len(tdirs)
  BY <1>2, StartsAt
<1>4. /\ r.pc = p /\ r.num = current /\ r.refs = 0
      /\ r.dir = IF current \in open THEN topdir[current] ELSE 0
  BY DEF Idle
<1>5. r \in ThRecs(Len(tdirs)') /\ Len(tdirs)' = Len(tdirs)
  <2>1. p \in Pcs
    BY DEF Pcs
  <2>2. (IF current \in open THEN topdir[current] ELSE 0) \in 0 .. Len(tdirs)
    BY <1>2, <1>3
  <2>3. Idle \in [pc : Pcs, num : Bufs \cup {None}, dir : {0}, refs : Nat, normal : BOOLEAN,
                 run : Runs, ver : Versions, forced : BOOLEAN, freed : BOOLEAN]
    BY ConstantTypes DEF Idle, Pcs, Runs
  <2>4. r \in ThRecs(Len(tdirs))
    BY <1>2, <2>1, <2>2, <2>3 DEF ThRecs
  <2>5. QED
    BY <2>4
<1> HIDE DEF r
<1>6. Cmd \in Threads /\ Cmd \notin Bufs /\ None \notin Bufs
  BY ConstantTypes
<1>7. th[Cmd].num = None
  BY <1>6 DEF At, TypeInv, Sound, ThreadSound, Resting
<1>8. th'[Cmd] = r
  BY <1>1, <1>2, <1>5, <1>6, ThreadTypes DEF TypeInv
<1>9. ThreadSound(Cmd)'
  BY <1>2, <1>4, <1>6, <1>8, StartsAt DEF ThreadSound, Resting, Around
<1>10. Placed(Cmd)'
  BY <1>2, <1>4, <1>8, StartsAt DEF Placed, Opening, Joined, Using, Leaving
<1>11. QED
  BY <1>1, <1>2, <1>4, <1>5, <1>6, <1>7, <1>9, <1>10, StartSound

LEMMA TypeTake ==
  ASSUME TypeInv, NEW k \in Kinds, Take(k)
  PROVE  TypeInv'
<1>1. /\ waiting' = [waiting EXCEPT ![k] = waiting[k] - 1] /\ waiting[k] > 0
      /\ At(Cmd, "idle") /\ ~ Busy(current) /\ previous' = current
      /\ UNCHANGED <<nvim, bdata, tdirs, cache, enabled, filetypes, toNvim, undefined, raced>>
  BY DEF Take
<1>2. /\ \/ event_buffer_changed \/ event_syntax_changed \/ event_want_update \/ event_force_update
  BY Zenon DEF Take, Kinds
<1>3. UNCHANGED <<open, ft, topdir, tdirs, sent, ftinit>>
  BY <1>1 DEF bdata, nvim, filetypes
<1>4. \/ UNCHANGED th
      \/ \E p, n : /\ n \in BOOLEAN /\ Begin(p, n)
                   /\ \/ p = "open" /\ current \notin open
                      \/ p \in {"update", "clear"} /\ current \in open
  BY <1>2 DEF event_buffer_changed, event_syntax_changed, event_want_update, event_force_update
<1>5. Sound' /\ th' \in [Threads -> ThRecs(Len(tdirs)')]
  <2>1. CASE UNCHANGED th
    BY <1>3, <2>1, SoundSame, ThreadTypes DEF TypeInv
  <2>2. CASE ~ UNCHANGED th
    BY <1>1, <1>3, <1>4, <2>2, BeginSound
  <2>3. QED
    BY <2>1, <2>2
<1>6. waiting' \in [Kinds -> 0 .. MaxMessages] /\ WasSent'
  <2>1. /\ waiting \in [Kinds -> 0 .. MaxMessages] /\ \A j \in Kinds : waiting[j] <= sent
        /\ sent \in 0 .. MaxMessages
    BY DEF TypeInv, TypeOK, WasSent
  <2>2. \A j \in Kinds : waiting'[j] = IF j = k THEN waiting[j] - 1 ELSE waiting[j]
    BY <1>1, <2>1
  <2>3. QED
    BY <1>1, <1>3, <2>1, <2>2, BoundsAssumption DEF WasSent
<1>7. excuses' \subseteq {"bounced", "cleared", "overtaken", "unannounced", "mistaken"}
  BY <1>2 DEF event_buffer_changed, event_syntax_changed, event_want_update, event_force_update, TypeInv, TypeOK
<1>8. TypeOK'
  BY <1>1, <1>5, <1>6, <1>7 DEF TypeInv, TypeOK, nvim, bdata, filetypes, ThRecs
<1>9. QED
  BY <1>3, <1>5, <1>6, <1>8, DirsSame DEF TypeInv

LEMMA TypeDelete ==
  ASSUME TypeInv, NEW n \in Bufs, DeleteBuffer(n)
  PROVE  TypeInv'
<1> DEFINE r == [Idle EXCEPT !.pc = "clear", !.num = n, !.dir = topdir[n]]
<1>1. /\ th' = [th EXCEPT ![n] = r] /\ n \in open /\ ~ Busy(n)
      /\ UNCHANGED <<open, ft, topdir, tdirs, ftinit>>
  BY DEF DeleteBuffer, bdata, filetypes
<1>2. /\ topdir[n] # 0 /\ ft[n] \in Types /\ topdir[n] \in 0 .. Len(tdirs)
  BY <1>1, StartsAt
<1>3. r.pc = "clear" /\ r.num = n /\ r.dir = topdir[n] /\ r.refs = 0
  BY DEF Idle
<1>4. Len(tdirs) \in Nat
  BY ThreadTypes DEF TypeInv
<1>5. r \in ThRecs(Len(tdirs)') /\ Len(tdirs)' = Len(tdirs)
  BY <1>1, <1>2, <1>4, ConstantTypes DEF Idle, ThRecs, Pcs, Runs
<1> HIDE DEF r
<1>6. n \in Threads /\ None \notin Bufs
  BY ConstantTypes
<1>7. th[n].num = None
  <2>1. th[n].num \in {None, n} /\ (th[n].num = None <=> th[n].pc \in Resting)
    BY <1>6 DEF TypeInv, Sound, ThreadSound
  <2>2. QED
    BY <1>1, <1>6, <2>1 DEF Busy, Resting
<1>8. th'[n] = r
  BY <1>1, <1>6, ThreadTypes DEF TypeInv
<1>9. ThreadSound(n)' /\ Placed(n)'
  BY <1>1, <1>2, <1>3, <1>6, <1>8 DEF ThreadSound, Placed, Resting, Around, Opening, Joined, Using, Leaving
<1>10. Sound' /\ th' \in [Threads -> ThRecs(Len(tdirs)')]
  BY <1>1, <1>3, <1>5, <1>6, <1>7, <1>9, StartSound
<1>11. sent' \in 0 .. MaxMessages /\ WasSent'
  BY BoundsAssumption DEF DeleteBuffer, TypeInv, TypeOK, WasSent
<1>12. TypeOK'
  BY <1>10, <1>11 DEF DeleteBuffer, TypeInv, TypeOK, bdata, filetypes, history, ThRecs
<1>13. QED
  BY <1>1, <1>10, <1>11, <1>12, DirsSame DEF TypeInv


-----------------------------------------------------------------------------
(* Opening a buffer.                                                       *)
FiletypesOK == /\ ftfilled \subseteq ftinit /\ ftinit \subseteq Types
               /\ ftdata_mutex \in {None, Main, Cmd}
HistoryOK == undefined \in {None, "topdir", "filetype", "tags"} /\ raced \in BOOLEAN

LEMMA Moved ==
  ASSUME TypeInv, UNCHANGED <<nvim, waiting, previous, bdata, tdirs, cache, enabled, toNvim, excuses>>,
         Sound', th' \in [Threads -> ThRecs(Len(tdirs)')], FiletypesOK', HistoryOK'
  PROVE  TypeInv'
<1>1. TypeOK' /\ WasSent'
  BY DEF TypeInv, TypeOK, WasSent, nvim, bdata, FiletypesOK, HistoryOK, ThRecs
<1>2. QED
  BY <1>1, DirsSame DEF TypeInv

LEMMA FiletypesSame ==
  ASSUME TypeInv, UNCHANGED filetypes
  PROVE  FiletypesOK'
  BY DEF TypeInv, TypeOK, FiletypesOK, filetypes

LEMMA HistorySame ==
  ASSUME TypeInv, UNCHANGED <<undefined, raced>> \/ (UNCHANGED raced /\ \E w \in {"topdir", "filetype", "tags"} : Broken(w))
  PROVE  HistoryOK'
  BY DEF TypeInv, TypeOK, HistoryOK, Broken

(* A thread goes on without opening or closing anything.                   *)
LEMMA Goes ==
  ASSUME TypeInv, NEW t \in Threads, th[t].pc \notin Resting \cup {"open"},
         NEW r \in ThRecs(Len(tdirs)), r.num = th[t].num, r.pc \notin Resting \cup {"open"},
         th' = [th EXCEPT ![t] = r], Len(tdirs)' = Len(tdirs), UNCHANGED <<open, ft, topdir>>, ftinit \subseteq ftinit',
         r.pc \in Around => r.dir # 0,
         r.pc = "store_out" => r.refs # 0,
         r.pc = "ftfill" => ft[th[t].num] \in ftinit',
         t \in Bufs => r.pc \in {"clear", "unlist"} \cup Leaving,
         \/ th[t].pc \in Opening /\ r.pc \in Opening
         \/ r.dir = th[t].dir /\ \E S \in {Joined, Using, Leaving} : th[t].pc \in S /\ r.pc \in S
  PROVE  Sound' /\ th' \in [Threads -> ThRecs(Len(tdirs)')]
<1>1. PICK b \in Bufs : b = th[t].num
  BY AtWork
<1>2. ThreadSound(t) /\ Placed(t) /\ None \notin Bufs
  BY AtWork, ConstantTypes
<1>3. th'[t] = r
  BY ThreadTypes DEF TypeInv
<1>4. ThreadSound(t)'
  BY <1>1, <1>2, <1>3 DEF ThreadSound
<1>5. Placed(t)'
  BY <1>1, <1>2, <1>3 DEF Placed, Opening, Joined, Using, Leaving
<1>6. QED
  BY <1>1, <1>4, <1>5, MoveSound

LEMMA GoesTo ==
  ASSUME TypeInv, NEW t \in Threads, th[t].pc \notin Resting \cup {"open"},
         NEW p \in Pcs \ (Resting \cup {"open", "store_out"}), Goto(t, p),
         Len(tdirs)' = Len(tdirs), UNCHANGED <<open, ft, topdir>>, ftinit \subseteq ftinit',
         p \in Around => th[t].dir # 0,
         p = "ftfill" => ft[th[t].num] \in ftinit',
         t \in Bufs => p \in {"clear", "unlist"} \cup Leaving,
         \E S \in {Opening, Joined, Using, Leaving} : th[t].pc \in S /\ p \in S
  PROVE  Sound' /\ th' \in [Threads -> ThRecs(Len(tdirs)')]
<1> DEFINE r == [th[t] EXCEPT !.pc = p]
<1>1. th \in [Threads -> ThRecs(Len(tdirs))] /\ th[t] \in ThRecs(Len(tdirs))
  BY ThreadTypes DEF TypeInv
<1>2. th' = [th EXCEPT ![t] = r]
  BY <1>1 DEF Goto
<1>3. r \in ThRecs(Len(tdirs)) /\ r.num = th[t].num /\ r.pc = p /\ r.dir = th[t].dir
  BY <1>1 DEF ThRecs
<1> HIDE DEF r
<1>4. QED
  BY <1>2, <1>3, Goes

LEMMA TypeFind ==
  ASSUME TypeInv, NEW t \in {Main, Cmd}, init_topdir(t)
  PROVE  TypeInv'
<1>1. /\ th[t].pc = "find" /\ t \in Threads /\ t \notin Bufs
      /\ UNCHANGED <<nvim, waiting, previous, bdata, tdirs, cache, enabled, filetypes, toNvim, undefined, excuses>>
  BY ConstantTypes DEF init_topdir, At
<1>2. /\ th \in [Threads -> ThRecs(Len(tdirs))] /\ th[t] \in ThRecs(Len(tdirs)) /\ Len(tdirs) \in Nat
  BY <1>1, ThreadTypes DEF TypeInv
<1>3. Sound' /\ th' \in [Threads -> ThRecs(Len(tdirs)')]
  <2>1. CASE check_open_topdirs(th[t].num) = {}
    <3>1. Goto(t, "create")
      BY <2>1 DEF init_topdir
    <3>2. QED
      BY <1>1, <3>1, GoesTo DEF bdata, filetypes, Resting, Around, Opening, Pcs
  <2>2. CASE check_open_topdirs(th[t].num) # {}
    <3>1. PICK d \in check_open_topdirs(th[t].num) : th' = [th EXCEPT ![t].pc = "count_in", ![t].dir = d]
      BY <2>2 DEF init_topdir
    <3> DEFINE r == [th[t] EXCEPT !.pc = "count_in", !.dir = d]
    <3>2. th' = [th EXCEPT ![t] = r]
      BY <1>1, <1>2, <3>1
    <3>3. d \in 1 .. Len(tdirs)
      BY DEF check_open_topdirs
    <3>4. r \in ThRecs(Len(tdirs)) /\ r.num = th[t].num /\ r.pc = "count_in" /\ r.dir # 0
      <4>1. "count_in" \in Pcs /\ d \in 0 .. Len(tdirs) /\ d # 0
        BY <1>2, <3>3 DEF Pcs
      <4>2. QED
        BY <1>2, <4>1 DEF ThRecs
    <3> HIDE DEF r
    <3>5. QED
      BY <1>1, <3>2, <3>4, Goes DEF bdata, filetypes, Resting, Around, Opening
  <2>3. QED
    BY <2>1, <2>2
<1>4. HistoryOK'
  <2>1. raced' \in BOOLEAN
    BY DEF init_topdir, TypeInv, TypeOK
  <2>2. QED
    BY <1>1, <2>1 DEF HistoryOK, TypeInv, TypeOK
<1>5. QED
  BY <1>1, <1>3, <1>4, FiletypesSame, Moved

LEMMA TypeCountIn ==
  ASSUME TypeInv, NEW t \in {Main, Cmd}, CountIn(t)
  PROVE  TypeInv'
<1>1. /\ th[t].pc = "count_in" /\ t \in Threads /\ t \notin Bufs
      /\ UNCHANGED <<nvim, waiting, previous, bdata, tdirs, cache, enabled, filetypes, toNvim, raced, excuses>>
  BY ConstantTypes DEF CountIn, At
<1>2. /\ th \in [Threads -> ThRecs(Len(tdirs))] /\ th[t] \in ThRecs(Len(tdirs)) /\ Len(tdirs) \in Nat
      /\ th[t].dir # 0 /\ th[t].dir \in 0 .. Len(tdirs)
  BY <1>1, ThreadTypes DEF TypeInv, Sound, ThreadSound, Around
<1>3. Sound' /\ th' \in [Threads -> ThRecs(Len(tdirs)')]
  <2>1. CASE Alive(th[t].dir)
    <3> DEFINE r == [th[t] EXCEPT !.pc = "store_in", !.refs = tdirs[th[t].dir].refs]
    <3>1. th' = [th EXCEPT ![t] = r]
      BY <1>1, <1>2, <2>1 DEF CountIn
    <3>2. tdirs[th[t].dir].refs \in Nat
      BY <1>2, DirTypes DEF TypeInv
    <3>3. r \in ThRecs(Len(tdirs)) /\ r.num = th[t].num /\ r.pc = "store_in" /\ r.dir # 0
      BY <1>2, <3>2 DEF ThRecs, Pcs
    <3> HIDE DEF r
    <3>4. QED
      BY <1>1, <3>1, <3>3, Goes DEF bdata, filetypes, Resting, Around, Opening
  <2>2. CASE ~ Alive(th[t].dir)
    <3>1. UNCHANGED th
      BY <2>2 DEF CountIn
    <3>2. QED
      BY <1>1, <1>2, <3>1, SoundSame DEF bdata, filetypes
  <2>3. QED
    BY <2>1, <2>2
<1>4. HistoryOK'
  BY HistorySame DEF CountIn
<1>5. QED
  BY <1>1, <1>3, <1>4, FiletypesSame, Moved


LEMMA TypeFiletype ==
  ASSUME TypeInv, NEW t \in {Main, Cmd}, init_filetype(t) \/ LockFiletypes(t) \/ FillFiletype(t)
  PROVE  TypeInv'
<1>1. /\ th[t].pc \in {"filetype", "ftlock", "ftfill"} /\ t \in Threads /\ t \notin Bufs
      /\ \E p \in {"ftlock", "ftfill", "lines"} : Goto(t, p)
      /\ UNCHANGED <<nvim, waiting, previous, bdata, tdirs, cache, enabled, toNvim, raced, excuses>>
  BY ConstantTypes DEF init_filetype, LockFiletypes, FillFiletype, At, history
<1>2. ft[th[t].num] \in Types
  BY <1>1 DEF TypeInv, Sound, ThreadSound, Resting
<1>3. Sound' /\ th' \in [Threads -> ThRecs(Len(tdirs)')]
  <2>1. ftinit \subseteq ftinit'
    BY DEF init_filetype, LockFiletypes, FillFiletype, filetypes
  <2>2. PICK p \in {"ftlock", "ftfill", "lines"} : Goto(t, p) /\ (p = "ftfill" => ft[th[t].num] \in ftinit')
    BY DEF init_filetype, LockFiletypes, FillFiletype
  <2>3. p \in Pcs /\ p \in Joined /\ th[t].pc \in Joined
    BY <1>1 DEF Pcs, Joined
  <2>4. QED
    BY <1>1, <2>1, <2>2, <2>3, GoesTo DEF bdata, Resting, Around
<1>4. HistoryOK'
  BY HistorySame DEF init_filetype, LockFiletypes, FillFiletype, history
<1>5. FiletypesOK'
  <2>1. CASE init_filetype(t)
    BY <2>1, FiletypesSame DEF init_filetype
  <2>2. CASE LockFiletypes(t)
    BY <1>2, <2>2 DEF LockFiletypes, FiletypesOK, TypeInv, TypeOK
  <2>3. CASE FillFiletype(t)
    <3>1. ft[th[t].num] \in ftinit
      BY <1>1, <2>3 DEF FillFiletype, At, TypeInv, Sound, ThreadSound
    <3>2. QED
      BY <2>3, <3>1 DEF FillFiletype, FiletypesOK, TypeInv, TypeOK
  <2>4. QED
    BY <2>1, <2>2, <2>3
<1>6. QED
  BY <1>1, <1>3, <1>4, <1>5, Moved


(* A directory is changed.                                                 *)
LEMMA DirChanged ==
  ASSUME TypeInv, NEW d \in 1 .. Len(tdirs), NEW x \in DirRecs, tdirs' = [tdirs EXCEPT ![d] = x],
         \/ x.base = None /\ ~ x.listed
         \/ /\ Alive(d) /\ x.refs # 0
            /\ x.base = tdirs[d].base /\ x.path = tdirs[d].path
            /\ x.ftid = tdirs[d].ftid /\ x.listed = tdirs[d].listed
  PROVE  /\ tdirs' \in Seq(DirRecs) /\ Len(tdirs)' = Len(tdirs)
         /\ tdirs'[d] = x /\ \A e \in (1 .. Len(tdirs)) \ {d} : tdirs'[e] = tdirs[e]
         /\ \A e \in 1 .. Len(tdirs)' : DirSound(e)'
<1>1. tdirs \in Seq(DirRecs)
  BY DEF TypeInv, TypeOK
<1>2. /\ tdirs' \in Seq(DirRecs) /\ Len(tdirs)' = Len(tdirs)
      /\ tdirs'[d] = x /\ \A e \in (1 .. Len(tdirs)) \ {d} : tdirs'[e] = tdirs[e]
  BY <1>1, ExceptSeq
<1>3. DirSound(d)'
  BY <1>2 DEF DirSound, Alive, TypeInv
<1>4. \A e \in (1 .. Len(tdirs)) \ {d} : DirSound(e)'
  BY <1>2 DEF DirSound, Alive, TypeInv
<1>5. QED
  BY <1>2, <1>3, <1>4

LEMMA TypeOpen ==
  ASSUME TypeInv, NEW t \in {Main, Cmd}, Open(t)
  PROVE  TypeInv'
<1>1. /\ th[t].pc = "open" /\ t \in Threads /\ t \notin Bufs /\ None \notin Bufs
      /\ UNCHANGED <<nvim, waiting, previous, open, calls, topdir, tdirs, cache, enabled, filetypes, toNvim, history>>
  BY ConstantTypes DEF Open, At
<1>2. PICK b \in Bufs : b = th[t].num
  BY <1>1, AtWork DEF Resting
<1>3. Placed(t) /\ Untouched(b) /\ th[t] \in ThRecs(Len(tdirs)) /\ th \in [Threads -> ThRecs(Len(tdirs))]
  BY <1>1, <1>2, AtWork, ThreadTypes DEF Resting, TypeInv
<1> DEFINE r == [th[t] EXCEPT !.pc = "find"]
<1>4. th' = [th EXCEPT ![t] = r]
  BY <1>1, <1>3 DEF Open, Goto
<1>5. r \in ThRecs(Len(tdirs)) /\ r.pc = "find" /\ r.num = b
  BY <1>2, <1>3 DEF ThRecs, Pcs
<1>6. /\ th' \in [Threads -> ThRecs(Len(tdirs))] /\ th'[t] = r
      /\ \A u \in Threads \ {t} : th'[u] = th[u]
  BY <1>1, <1>3, <1>4, <1>5
<1>7. ft' = [ft EXCEPT ![b] = type[b]] /\ type[b] \in Types /\ ft \in [Bufs -> Types \cup {None}]
  BY <1>2 DEF Open, TypeInv, TypeOK
<1>8. ft' \in [Bufs -> Types \cup {None}] /\ ft'[b] \in Types /\ \A c \in Bufs \ {b} : ft'[c] = ft[c]
  BY <1>7
<1> HIDE DEF r
<1>9. ThreadSound(t)' /\ Placed(t)'
  BY <1>1, <1>2, <1>3, <1>5, <1>6, <1>8 DEF ThreadSound, Placed, Resting, Around, Opening, Joined, Using, Leaving
<1>10. Untouched(b)'
  BY <1>1, <1>5, <1>6, <1>8 DEF Untouched
<1>11. Sound'
  BY <1>1, <1>2, <1>5, <1>6, <1>8, <1>9, <1>10, StepSound DEF filetypes
<1>12. TypeOK' /\ WasSent'
  BY <1>1, <1>6, <1>8 DEF TypeInv, TypeOK, WasSent, nvim, filetypes, history, ThRecs
<1>13. QED
  BY <1>1, <1>11, <1>12, DirsSame DEF TypeInv

LEMMA TypeLines ==
  ASSUME TypeInv, NEW t \in {Main, Cmd}, get_initial_lines(t)
  PROVE  TypeInv'
<1>1. /\ th[t].pc = "lines" /\ t \in Threads /\ t \notin Bufs /\ None \notin Bufs
      /\ UNCHANGED <<nvim, waiting, previous, ft, calls, topdir, tdirs, cache, enabled, filetypes, toNvim, history>>
  BY ConstantTypes DEF get_initial_lines, At
<1>2. PICK b \in Bufs : b = th[t].num
  BY <1>1, AtWork DEF Resting
<1>3. /\ ThreadSound(t) /\ Placed(t) /\ Untouched(b)
      /\ th[t] \in ThRecs(Len(tdirs)) /\ th \in [Threads -> ThRecs(Len(tdirs))]
  BY <1>1, <1>2, AtWork, ThreadTypes DEF Resting, TypeInv
<1> DEFINE r == [th[t] EXCEPT !.pc = "tags"]
<1>4. th' = [th EXCEPT ![t] = r]
  BY <1>1, <1>3 DEF get_initial_lines, Goto
<1>5. r \in ThRecs(Len(tdirs)) /\ r.pc = "tags" /\ r.num = b /\ r.dir = th[t].dir
  BY <1>2, <1>3 DEF ThRecs, Pcs
<1>6. /\ th' \in [Threads -> ThRecs(Len(tdirs))] /\ th'[t] = r
      /\ \A u \in Threads \ {t} : th'[u] = th[u]
  BY <1>1, <1>3, <1>4, <1>5
<1>7. open' = open \cup {b}
  BY <1>2 DEF get_initial_lines
<1> HIDE DEF r
<1>8. ThreadSound(t)' /\ Placed(t)'
  BY <1>1, <1>2, <1>3, <1>5, <1>6, <1>7 DEF ThreadSound, Placed, Resting, Around, Opening, Joined, Using, Leaving
<1>9. Untouched(b)'
  BY <1>1, <1>3, <1>5, <1>6 DEF Untouched
<1>10. Sound'
  BY <1>1, <1>2, <1>5, <1>6, <1>7, <1>8, <1>9, StepSound DEF filetypes
<1>11. TypeOK' /\ WasSent'
  BY <1>1, <1>6, <1>7 DEF TypeInv, TypeOK, WasSent, nvim, filetypes, history, ThRecs
<1>12. QED
  BY <1>1, <1>10, <1>11, DirsSame DEF TypeInv


LEMMA TypeStoreIn ==
  ASSUME TypeInv, NEW t \in {Main, Cmd}, StoreIn(t)
  PROVE  TypeInv'
<1>1. /\ th[t].pc = "store_in" /\ t \in Threads /\ t \notin Bufs /\ None \notin Bufs
      /\ UNCHANGED <<nvim, waiting, previous, open, ft, calls, cache, enabled, filetypes, toNvim, raced, excuses>>
  BY ConstantTypes DEF StoreIn, At
<1>2. PICK b \in Bufs : b = th[t].num
  BY <1>1, AtWork DEF Resting
<1>3. /\ ThreadSound(t) /\ Placed(t) /\ Untouched(b) /\ Len(tdirs) \in Nat
      /\ th[t] \in ThRecs(Len(tdirs)) /\ th \in [Threads -> ThRecs(Len(tdirs))]
  BY <1>1, <1>2, AtWork, ThreadTypes DEF Resting, TypeInv
<1>4. PICK d \in 1 .. Len(tdirs) : d = th[t].dir
  BY <1>1, <1>3 DEF ThreadSound, Around, ThRecs
<1>5. CASE Alive(d)
  <2> DEFINE x == [tdirs[d] EXCEPT !.refs = th[t].refs + 1]
             r == [th[t] EXCEPT !.pc = "filetype", !.refs = 0]
  <2>1. tdirs' = [tdirs EXCEPT ![d].refs = th[t].refs + 1] /\ topdir' = [topdir EXCEPT ![b] = d]
    BY <1>2, <1>4, <1>5 DEF StoreIn
  <2>2. tdirs' = [tdirs EXCEPT ![d] = x]
    BY <2>1
  <2>3. tdirs[d] \in DirRecs /\ th[t].refs \in Nat /\ th[t].refs + 1 # 0
    BY <1>3, DirTypes DEF TypeInv, ThRecs
  <2>4. /\ x \in DirRecs /\ x.refs # 0
        /\ x.base = tdirs[d].base /\ x.path = tdirs[d].path
        /\ x.ftid = tdirs[d].ftid /\ x.listed = tdirs[d].listed
    BY <2>3 DEF DirRecs
  <2> HIDE DEF x
  <2>5. /\ tdirs' \in Seq(DirRecs) /\ Len(tdirs)' = Len(tdirs)
        /\ \A e \in 1 .. Len(tdirs)' : DirSound(e)'
    BY <1>5, <2>2, <2>4, DirChanged
  <2>6. topdir' \in [Bufs -> 0 .. Len(tdirs)'] /\ topdir'[b] = d /\ \A c \in Bufs \ {b} : topdir'[c] = topdir[c]
    <3>1. topdir \in [Bufs -> 0 .. Len(tdirs)]
      BY DEF TypeInv, TypeOK
    <3>2. QED
      BY <1>3, <2>1, <2>5, <3>1
  <2>7. th' = [th EXCEPT ![t] = r]
    BY <1>1, <1>3, <1>4, <1>5 DEF StoreIn
  <2>8. r \in ThRecs(Len(tdirs)) /\ r.pc = "filetype" /\ r.num = b /\ r.dir = d
    BY <1>2, <1>3, <1>4 DEF ThRecs, Pcs
  <2> HIDE DEF r
  <2>9. /\ th' \in [Threads -> ThRecs(Len(tdirs)')] /\ th'[t] = r
        /\ \A u \in Threads \ {t} : th'[u] = th[u]
    BY <1>1, <1>3, <2>5, <2>7, <2>8
  <2>10. ThreadSound(t)' /\ Placed(t)'
    BY <1>1, <1>2, <1>3, <2>6, <2>8, <2>9 DEF ThreadSound, Placed, Resting, Around, Opening, Joined, Using, Leaving
  <2>11. Untouched(b)'
    BY <1>1, <1>2, <1>3, <2>8, <2>9 DEF Untouched, ThreadSound, Resting
  <2>12. Sound'
    BY <1>1, <1>2, <2>6, <2>8, <2>9, <2>10, <2>11, StepSound DEF filetypes
  <2>13. HistoryOK' /\ FiletypesOK'
    BY <1>1, <1>4, <1>5, HistorySame, FiletypesSame DEF StoreIn
  <2>14. TypeOK' /\ WasSent'
    BY <1>1, <2>5, <2>6, <2>9, <2>13 DEF TypeInv, TypeOK, WasSent, nvim, HistoryOK, FiletypesOK, ThRecs
  <2>15. QED
    BY <2>5, <2>12, <2>14 DEF TypeInv
<1>6. CASE ~ Alive(d)
  <2>1. UNCHANGED <<tdirs, topdir, th>> /\ Broken("topdir")
    BY <1>4, <1>6 DEF StoreIn
  <2>2. HistoryOK' /\ FiletypesOK'
    BY <1>1, <2>1, HistorySame, FiletypesSame
  <2>3. QED
    BY <1>1, <1>3, <2>1, <2>2, SoundSame, Moved DEF filetypes, bdata
<1>7. QED
  BY <1>5, <1>6

LEMMA TypeCreate ==
  ASSUME TypeInv, NEW t \in {Main, Cmd}, CreateDir(t)
  PROVE  /\ TypeInv'
         /\ \A d \in 1 .. Len(tdirs) : tdirs'[d] = tdirs[d]
         /\ Len(tdirs)' = Len(tdirs) + 1
         /\ tdirs'[Len(tdirs) + 1] = [base |-> Base(th[t].num), path |-> file[th[t].num], ftid |-> ft[th[t].num],
                                      refs |-> 1, listed |-> TRUE, tags |-> NoTags]
<1>1. /\ th[t].pc = "create" /\ t \in Threads /\ t \notin Bufs /\ None \notin Bufs
      /\ UNCHANGED <<nvim, waiting, previous, open, ft, calls, cache, enabled, filetypes, toNvim, history>>
  BY ConstantTypes DEF CreateDir, At
<1>2. PICK b \in Bufs : b = th[t].num
  BY <1>1, AtWork DEF Resting
<1>3. /\ ThreadSound(t) /\ Placed(t) /\ Untouched(b) /\ Len(tdirs) \in Nat
      /\ th[t] \in ThRecs(Len(tdirs)) /\ th \in [Threads -> ThRecs(Len(tdirs))]
  BY <1>1, <1>2, AtWork, ThreadTypes DEF Resting, TypeInv
<1>4. ft[b] \in Types
  BY <1>1, <1>2, <1>3 DEF ThreadSound, Resting
<1>5. PICK d \in Nat : d = Len(tdirs) + 1
  BY <1>3
<1> DEFINE x == [base |-> Base(b), path |-> file[b], ftid |-> ft[b], refs |-> 1, listed |-> TRUE, tags |-> NoTags]
           r == [th[t] EXCEPT !.pc = "filetype", !.dir = d]
<1>6. /\ Base(b) \in Bases /\ file[b] \in Dirs /\ Base(b) # None
      /\ file[b] \in NoRecurse => Base(b) \in NoRecurse \X Bufs
      /\ file[b] \notin NoRecurse => Base(b) = file[b]
  BY BaseType, ConstantTypes DEF TypeInv
<1>7. NoTags \in TagRecs
  BY ConstantTypes DEF NoTags, TagRecs
<1>8. x \in DirRecs
  BY <1>4, <1>6, <1>7 DEF DirRecs
<1>9. tdirs' = Append(tdirs, x) /\ topdir' = [topdir EXCEPT ![b] = d]
  BY <1>2, <1>5 DEF CreateDir
<1>10. /\ x.base = Base(b) /\ x.path = file[b] /\ x.ftid = ft[b] /\ x.refs = 1 /\ x.listed
  OBVIOUS
<1>11. th' = [th EXCEPT ![t] = r]
  BY <1>1, <1>3, <1>5 DEF CreateDir
<1> HIDE DEF x
<1>12. /\ tdirs' \in Seq(DirRecs) /\ Len(tdirs)' = d /\ tdirs'[d] = x
       /\ \A e \in 1 .. Len(tdirs) : tdirs'[e] = tdirs[e]
  <2>1. tdirs \in Seq(DirRecs)
    BY DEF TypeInv, TypeOK
  <2>2. QED
    BY <1>5, <1>8, <1>9, <2>1, AppendProperties
<1>13. \A e \in 1 .. Len(tdirs)' : DirSound(e)'
  <2>1. DirSound(d)'
    BY <1>4, <1>6, <1>10, <1>12 DEF DirSound, Alive
  <2>2. \A e \in 1 .. Len(tdirs) : DirSound(e)'
    BY <1>12 DEF TypeInv, DirSound, Alive
  <2>3. QED
    BY <1>3, <1>5, <1>12, <2>1, <2>2
<1>14. topdir' \in [Bufs -> 0 .. Len(tdirs)'] /\ topdir'[b] = d /\ \A c \in Bufs \ {b} : topdir'[c] = topdir[c]
  <2>1. topdir \in [Bufs -> 0 .. Len(tdirs)]
    BY DEF TypeInv, TypeOK
  <2>2. QED
    BY <1>3, <1>5, <1>9, <1>12, <2>1
<1>15. r \in ThRecs(Len(tdirs)') /\ r.pc = "filetype" /\ r.num = b /\ r.dir = d
  <2>1. d \in 0 .. d /\ 0 .. Len(tdirs) \subseteq 0 .. d /\ "filetype" \in Pcs
    BY <1>3, <1>5 DEF Pcs
  <2>2. QED
    BY <1>2, <1>3, <1>12, <2>1 DEF ThRecs
<1> HIDE DEF r
<1>16. /\ th' \in [Threads -> ThRecs(Len(tdirs)')] /\ th'[t] = r
       /\ \A u \in Threads \ {t} : th'[u] = th[u]
  <2>1. Len(tdirs)' \in Nat /\ Len(tdirs) <= Len(tdirs)' /\ TypeOK
    BY <1>3, <1>5, <1>12 DEF TypeInv
  <2>2. QED
    BY <1>1, <1>11, <1>15, <2>1, Becomes
<1>17. ThreadSound(t)' /\ Placed(t)'
  BY <1>1, <1>2, <1>3, <1>5, <1>14, <1>15, <1>16
     DEF ThreadSound, Placed, Resting, Around, Opening, Joined, Using, Leaving
<1>18. Untouched(b)'
  BY <1>1, <1>2, <1>4, <1>15, <1>16 DEF Untouched
<1>19. Sound'
  BY <1>1, <1>2, <1>14, <1>15, <1>16, <1>17, <1>18, StepSound DEF filetypes
<1>20. TypeOK' /\ WasSent'
  BY <1>1, <1>12, <1>14, <1>16 DEF TypeInv, TypeOK, WasSent, nvim, filetypes, history, ThRecs
<1>21. QED
  BY <1>2, <1>5, <1>12, <1>13, <1>19, <1>20 DEF TypeInv, x


LEMMA TagsType ==
  ASSUME NEW v \in Versions, NEW f \in BOOLEAN
  PROVE  /\ Tags(v, f) \in TagRecs /\ Tags(v, f).ver = v /\ Tags(v, f).forced = f
         /\ NoTags \in TagRecs /\ NoTags.forced = FALSE
  BY ConstantTypes DEF Tags, NoTags, TagRecs

LEMMA KeyType ==
  ASSUME TypeInv, NEW d \in 1 .. Len(tdirs), Alive(d)
  PROVE  Key(d) \in Bases \X Types
<1>1. tdirs[d].base \in Bases /\ tdirs[d].ftid \in Types
  BY DirTypes DEF TypeInv, DirSound, Alive
<1>2. QED
  BY <1>1 DEF Key

(* The tags of a directory are replaced.                                   *)
NewTags(d, g) == tdirs' = [tdirs EXCEPT ![d].tags = g]

LEMMA TagsReplaced ==
  ASSUME TypeInv, NEW d \in 1 .. Len(tdirs), Alive(d), NEW g \in TagRecs, NewTags(d, g)
  PROVE  /\ tdirs' \in Seq(DirRecs) /\ Len(tdirs)' = Len(tdirs)
         /\ \A e \in 1 .. Len(tdirs) : /\ tdirs'[e].base = tdirs[e].base /\ tdirs'[e].path = tdirs[e].path
                                       /\ tdirs'[e].ftid = tdirs[e].ftid /\ tdirs'[e].refs = tdirs[e].refs
                                       /\ tdirs'[e].listed = tdirs[e].listed
                                       /\ tdirs'[e].tags = IF e = d THEN g ELSE tdirs[e].tags
         /\ \A e \in 1 .. Len(tdirs)' : DirSound(e)'
<1> DEFINE x == [tdirs[d] EXCEPT !.tags = g]
<1>1. tdirs' = [tdirs EXCEPT ![d] = x]
  BY DEF NewTags
<1>2. tdirs[d] \in DirRecs /\ DirSound(d)
  BY DirTypes DEF TypeInv
<1>3. /\ x \in DirRecs /\ x.refs = tdirs[d].refs /\ x.tags = g
      /\ x.base = tdirs[d].base /\ x.path = tdirs[d].path
      /\ x.ftid = tdirs[d].ftid /\ x.listed = tdirs[d].listed
  BY <1>2 DEF DirRecs
<1>4. x.refs # 0
  BY <1>2, <1>3 DEF DirSound
<1> HIDE DEF x
<1>5. /\ tdirs' \in Seq(DirRecs) /\ Len(tdirs)' = Len(tdirs)
      /\ tdirs'[d] = x /\ \A e \in (1 .. Len(tdirs)) \ {d} : tdirs'[e] = tdirs[e]
      /\ \A e \in 1 .. Len(tdirs)' : DirSound(e)'
  BY <1>1, <1>3, <1>4, DirChanged
<1>6. QED
  BY <1>3, <1>5

LEMMA TypeInitialTags ==
  ASSUME TypeInv, NEW t \in {Main, Cmd}, get_initial_taglist(t)
  PROVE  TypeInv'
<1>1. /\ th[t].pc = "tags" /\ t \in Threads /\ t \notin Bufs
      /\ UNCHANGED <<nvim, waiting, previous, bdata, cache, enabled, filetypes, toNvim, raced, excuses>>
  BY ConstantTypes DEF get_initial_taglist, At
<1>2. /\ ThreadSound(t) /\ Placed(t) /\ Len(tdirs) \in Nat /\ th[t].num \in Bufs
      /\ th[t] \in ThRecs(Len(tdirs)) /\ th \in [Threads -> ThRecs(Len(tdirs))]
  BY <1>1, AtWork, ThreadTypes DEF Resting, TypeInv
<1>3. PICK d \in 1 .. Len(tdirs) : d = th[t].dir
  BY <1>1, <1>2 DEF Placed, Using, ThRecs
<1>4. HistoryOK' /\ FiletypesOK'
  BY <1>1, HistorySame, FiletypesSame DEF get_initial_taglist
<1>5. /\ tdirs' \in Seq(DirRecs) /\ Len(tdirs)' = Len(tdirs)
      /\ \A e \in 1 .. Len(tdirs)' : DirSound(e)'
  <2>1. CASE UNCHANGED tdirs
    BY <2>1, DirsSame DEF TypeInv, TypeOK
  <2>2. CASE ~ UNCHANGED tdirs
    <3>1. Alive(d) /\ \E v \in Versions \cup {cache[Key(d)]} : tdirs' = [tdirs EXCEPT ![d].tags = Tags(v, FALSE)]
                   /\ (v \notin Versions => cache[Key(d)] # None)
      BY <1>3, <2>2, ConstantTypes DEF get_initial_taglist
    <3>2. cache[Key(d)] \in Versions \cup {None}
      BY <3>1, KeyType DEF TypeInv, TypeOK
    <3>3. PICK v \in Versions : tdirs' = [tdirs EXCEPT ![d].tags = Tags(v, FALSE)]
      BY <3>1, <3>2
    <3>4. QED
      BY <3>1, <3>3, TagsType, TagsReplaced DEF NewTags
  <2>3. QED
    BY <2>1, <2>2
<1>6. Sound' /\ th' \in [Threads -> ThRecs(Len(tdirs)')]
  <2>1. CASE UNCHANGED th
    BY <1>1, <1>2, <1>5, <2>1, SoundSame DEF bdata, filetypes
  <2>2. CASE ~ UNCHANGED th
    <3>1. PICK p \in {"ctags", "update"}, q \in Runs : th' = [th EXCEPT ![t].pc = p, ![t].run = q]
      <4>1. CASE Goto(t, "update")
        <5>1. th' = [th EXCEPT ![t].pc = "update", ![t].run = th[t].run] /\ th[t].run \in Runs
          BY <1>1, <1>2, <4>1 DEF Goto, ThRecs
        <5>2. QED
          BY <5>1
      <4>2. CASE ~ Goto(t, "update")
        <5>1. PICK q \in {"replace", "cache"} : th' = [th EXCEPT ![t].pc = "ctags", ![t].run = q]
          BY <2>2, <4>2 DEF get_initial_taglist
        <5>2. q \in Runs
          BY DEF Runs
        <5>3. QED
          BY <5>1, <5>2
      <4>3. QED
        BY <4>1, <4>2
    <3> DEFINE r == [th[t] EXCEPT !.pc = p, !.run = q]
    <3>2. th' = [th EXCEPT ![t] = r]
      BY <1>1, <1>2, <3>1
    <3>3. p \in Pcs
      BY DEF Pcs
    <3>4. r \in ThRecs(Len(tdirs)) /\ r.num = th[t].num /\ r.pc = p /\ r.dir = th[t].dir
      BY <1>2, <3>3 DEF ThRecs
    <3> HIDE DEF r
    <3>5. QED
      BY <1>1, <1>5, <3>2, <3>4, Goes DEF bdata, filetypes, Resting, Around, Using
  <2>3. QED
    BY <2>1, <2>2
<1>7. TypeOK' /\ WasSent'
  BY <1>1, <1>4, <1>5, <1>6 DEF TypeInv, TypeOK, WasSent, nvim, bdata, HistoryOK, FiletypesOK, ThRecs
<1>8. QED
  BY <1>5, <1>6, <1>7 DEF TypeInv


-----------------------------------------------------------------------------
(* Updating the highlights.                                                *)
LEMMA ProceedsTo ==
  ASSUME TypeOK, NEW t \in Threads
  PROVE  \E r \in ThRecs(Len(tdirs)) :
           /\ Proceed(t) = [th EXCEPT ![t] = r]
           /\ r.num = th[t].num /\ r.dir = th[t].dir /\ r.freed = th[t].freed /\ r.forced = th[t].forced
           /\ r.pc = AfterRun(th[t].run).pc /\ r.run = AfterRun(th[t].run).run
           /\ r.pc \in {"update", "search", "ctags"}
<1> DEFINE n == AfterRun(th[t].run)
           r == [th[t] EXCEPT !.pc = n.pc, !.run = n.run, !.ver = 0]
<1>1. /\ th[t] \in ThRecs(Len(tdirs)) /\ th[t].run \in Runs
      /\ th \in [Threads -> ThRecs(Len(tdirs))] /\ 0 \in Versions
  BY ThreadTypes, ConstantTypes
<1>2. n.pc \in {"update", "search", "ctags"} /\ n.run \in Runs /\ n.pc \in Pcs
  BY <1>1 DEF AfterRun, Runs, Pcs
<1>3. Proceed(t) = [th EXCEPT ![t].pc = n.pc, ![t].run = n.run, ![t].ver = 0]
  BY DEF Proceed
<1> HIDE DEF n
<1>4. Proceed(t) = [th EXCEPT ![t] = r]
  BY <1>1, <1>3
<1>5. /\ r \in ThRecs(Len(tdirs)) /\ r.num = th[t].num /\ r.dir = th[t].dir /\ r.freed = th[t].freed
      /\ r.forced = th[t].forced /\ r.pc = n.pc /\ r.run = n.run
  BY <1>1, <1>2 DEF ThRecs
<1> HIDE DEF r
<1>6. QED
  BY <1>2, <1>4, <1>5 DEF n

LEMMA EndSound ==
  ASSUME TypeInv, NEW t \in {Main, Cmd}, th[t].pc \in Using, Ends(t),
         Len(tdirs)' = Len(tdirs), UNCHANGED <<open, ft, topdir>>, ftinit \subseteq ftinit'
  PROVE  /\ Sound' /\ th' \in [Threads -> ThRecs(Len(tdirs)')]
         /\ th' = [th EXCEPT ![t] = th'[t]]
         /\ th'[t].pc \in {"idle", "gone"} /\ th'[t].num = None
         /\ (th'[t].pc = "gone" <=> t = Main) /\ ~ th'[t].freed
<1> DEFINE r == [Idle EXCEPT !.pc = IF t = Main THEN "gone" ELSE "idle"]
<1>1. t \in Threads /\ t \notin Bufs /\ None \notin Bufs
  BY ConstantTypes
<1>2. PICK b \in Bufs : b = th[t].num
  BY <1>1, AtWork DEF Using, Resting
<1>3. /\ Placed(t) /\ Untouched(b) /\ Len(tdirs) \in Nat
      /\ th \in [Threads -> ThRecs(Len(tdirs))]
  BY <1>1, <1>2, AtWork, ThreadTypes DEF Using, Resting, TypeInv
<1>4. th' = [th EXCEPT ![t] = r]
  BY DEF Ends
<1>5. (IF t = Main THEN "gone" ELSE "idle") \in Pcs
  BY DEF Pcs
<1>6. Idle \in [pc : {"idle"}, num : Bufs \cup {None}, dir : {0}, refs : Nat, normal : BOOLEAN,
                run : Runs, ver : Versions, forced : BOOLEAN, freed : BOOLEAN]
  BY ConstantTypes DEF Idle, Runs
<1>7. r \in ThRecs(Len(tdirs))
  BY <1>3, <1>5, <1>6 DEF ThRecs
<1>8. /\ r.num = None /\ r.pc = (IF t = Main THEN "gone" ELSE "idle") /\ ~ r.freed
  BY DEF Idle
<1> HIDE DEF r
<1>9. /\ th' \in [Threads -> ThRecs(Len(tdirs)')] /\ th'[t] = r
      /\ \A u \in Threads \ {t} : th'[u] = th[u]
  BY <1>1, <1>3, <1>4, <1>7
<1>10. ThreadSound(t)' /\ Placed(t)'
  BY <1>1, <1>8, <1>9 DEF ThreadSound, Placed, Resting, Around, Opening, Joined, Using, Leaving
<1>11. Untouched(b)'
  BY <1>2, <1>3 DEF Untouched, Placed
<1>12. Sound'
  BY <1>1, <1>2, <1>8, <1>9, <1>10, <1>11, StepSound
<1>13. QED
  BY <1>4, <1>8, <1>9, <1>12

LEMMA Updated ==
  ASSUME TypeInv, UNCHANGED <<nvim, waiting, previous, open, ft, topdir, enabled, filetypes, raced, excuses>>,
         UNCHANGED undefined \/ \E w \in {"topdir", "filetype", "tags"} : Broken(w),
         calls' \in [Bufs -> Versions \cup {None}],
         tdirs' \in Seq(DirRecs), Len(tdirs)' = Len(tdirs), \A d \in 1 .. Len(tdirs)' : DirSound(d)',
         cache' \in [Bases \X Types -> Versions \cup {None}],
         toNvim' \in Seq([num : Bufs, type : Types, ver : Versions]),
         Sound', th' \in [Threads -> ThRecs(Len(tdirs)')]
  PROVE  TypeInv'
<1>1. HistoryOK' /\ FiletypesOK'
  BY HistorySame, FiletypesSame
<1>2. TypeOK' /\ WasSent'
  BY <1>1 DEF TypeInv, TypeOK, WasSent, nvim, HistoryOK, FiletypesOK, ThRecs
<1>3. QED
  BY <1>2 DEF TypeInv

LEMMA KeptTypes ==
  ASSUME TypeInv
  PROVE  /\ UNCHANGED calls => calls' \in [Bufs -> Versions \cup {None}]
         /\ UNCHANGED tdirs => /\ tdirs' \in Seq(DirRecs) /\ Len(tdirs)' = Len(tdirs)
                               /\ \A d \in 1 .. Len(tdirs)' : DirSound(d)'
         /\ UNCHANGED cache => cache' \in [Bases \X Types -> Versions \cup {None}]
         /\ UNCHANGED toNvim => toNvim' \in Seq([num : Bufs, type : Types, ver : Versions])
  BY DirsSame DEF TypeInv, TypeOK

(* A thread that updates, and its directory.                               *)
LEMMA AtUpdate ==
  ASSUME TypeInv, NEW t \in {Main, Cmd}, th[t].pc \in Using
  PROVE  /\ t \in Threads /\ t \notin Bufs
         /\ th \in [Threads -> ThRecs(Len(tdirs))] /\ th[t] \in ThRecs(Len(tdirs)) /\ Len(tdirs) \in Nat
         /\ th[t].num \in Bufs /\ ft[th[t].num] \in Types /\ th[t].dir \in 1 .. Len(tdirs)
         /\ th[t].pc \notin Resting \cup {"open"}
<1>1. t \in Threads /\ t \notin Bufs /\ th[t].pc \notin Resting \cup {"open"}
  BY ConstantTypes DEF Using, Resting
<1>2. /\ th \in [Threads -> ThRecs(Len(tdirs))] /\ th[t] \in ThRecs(Len(tdirs)) /\ Len(tdirs) \in Nat
      /\ th[t].dir \in 0 .. Len(tdirs)
  BY <1>1, ThreadTypes DEF TypeInv
<1>3. th[t].num \in Bufs /\ ThreadSound(t) /\ Placed(t)
  BY <1>1, AtWork
<1>4. QED
  BY <1>1, <1>2, <1>3 DEF ThreadSound, Placed

LEMMA TypeRun ==
  ASSUME TypeInv, NEW t \in {Main, Cmd}, run_ctags_pipe(t)
  PROVE  TypeInv'
<1>1. /\ th[t].pc = "ctags"
      /\ UNCHANGED <<nvim, waiting, previous, open, ft, topdir, tdirs, cache, enabled, filetypes, toNvim, history>>
  BY DEF run_ctags_pipe, At
<1>2. th[t].pc \in Using
  BY <1>1 DEF Using
<1>3. calls' \in [Bufs -> Versions \cup {None}]
  BY <1>2, AtUpdate DEF run_ctags_pipe, TypeInv, TypeOK
<1>4. \E r \in ThRecs(Len(tdirs)) :
        /\ th' = [th EXCEPT ![t] = r] /\ r.num = th[t].num /\ r.dir = th[t].dir
        /\ r.pc \in {"update", "search", "ctags", "running"}
  <2>1. CASE enabled
    <3> DEFINE r == [th[t] EXCEPT !.pc = "running", !.ver = version]
    <3>1. th' = [th EXCEPT ![t] = r]
      BY <1>2, <2>1, AtUpdate DEF run_ctags_pipe
    <3>2. "running" \in Pcs /\ version \in Versions
      BY DEF Pcs, TypeInv, TypeOK
    <3>3. r \in ThRecs(Len(tdirs)) /\ r.num = th[t].num /\ r.dir = th[t].dir /\ r.pc = "running"
      BY <1>2, <3>2, AtUpdate DEF ThRecs
    <3> HIDE DEF r
    <3>4. QED
      BY <3>1, <3>3
  <2>2. CASE ~ enabled
    <3>1. th' = Proceed(t)
      BY <2>2 DEF run_ctags_pipe
    <3>2. QED
      BY <1>2, <3>1, AtUpdate, ProceedsTo DEF TypeInv
  <2>3. QED
    BY <2>1, <2>2
<1>5. Sound' /\ th' \in [Threads -> ThRecs(Len(tdirs)')]
  BY <1>1, <1>2, <1>4, AtUpdate, Goes DEF filetypes, Resting, Around, Using
<1>6. QED
  BY <1>1, <1>3, <1>5, Updated, KeptTypes DEF history


(* What a run of ctags does to the directory and the threads.              *)
LEMMA RunDone ==
  ASSUME TypeInv, NEW t \in {Main, Cmd}, update_taglist(t), Alive(th[t].dir)
  PROVE  \E v \in Versions, r \in ThRecs(Len(tdirs)) :
           /\ tdirs' = [tdirs EXCEPT ![th[t].dir].tags = Tags(v, th[t].run = "forced")]
           /\ cache' = cache \/ cache' = [cache EXCEPT ![Key(th[t].dir)] = v]
           /\ th' \in [Threads -> ThRecs(Len(tdirs))]
           /\ th'[t] = r /\ r.num = th[t].num /\ r.dir = th[t].dir /\ r.freed = th[t].freed
           /\ r.pc = AfterRun(th[t].run).pc /\ r.run = AfterRun(th[t].run).run
           /\ r.pc \in {"update", "search", "ctags"}
           /\ \A u \in Threads \ {t} : /\ th'[u] = th[u] \/ th'[u] = [th[u] EXCEPT !.freed = TRUE]
                                       /\ th[u].pc # "searching" => th'[u] = th[u]
<1>1. th[t].pc = "running" /\ th[t].pc \in Using
  BY DEF update_taglist, At, Using
<1>2. /\ t \in Threads /\ th[t] \in ThRecs(Len(tdirs)) /\ th \in [Threads -> ThRecs(Len(tdirs))]
      /\ th[t].ver \in Versions /\ 0 \in Versions
  BY <1>1, AtUpdate, ThreadTypes, ConstantTypes DEF TypeInv
<1>3. PICK r \in ThRecs(Len(tdirs)) :
           /\ Proceed(t) = [th EXCEPT ![t] = r]
           /\ r.num = th[t].num /\ r.dir = th[t].dir /\ r.freed = th[t].freed
           /\ r.pc = AfterRun(th[t].run).pc /\ r.run = AfterRun(th[t].run).run
           /\ r.pc \in {"update", "search", "ctags"}
  BY <1>2, ProceedsTo DEF TypeInv
<1>4. PICK v \in {th[t].ver, 0} :
        /\ tdirs' = [tdirs EXCEPT ![th[t].dir].tags = Tags(v, th[t].run = "forced")]
        /\ cache' = IF th[t].run = "cache" THEN [cache EXCEPT ![Key(th[t].dir)] = v] ELSE cache
        /\ th' = [u \in Threads |-> IF th[t].run # "cache" /\ Loses(th[t].dir, u)
                                    THEN [th[u] EXCEPT !.freed = TRUE] ELSE Proceed(t)[u]]
  BY DEF update_taglist
<1>5. v \in Versions
  BY <1>2
<1>6. th'[t] = r
  BY <1>1, <1>2, <1>3, <1>4 DEF Loses
<1>7. \A u \in Threads \ {t} : /\ th'[u] = th[u] \/ th'[u] = [th[u] EXCEPT !.freed = TRUE]
                               /\ th[u].pc # "searching" => th'[u] = th[u]
  BY <1>2, <1>3, <1>4 DEF Loses
<1>8. \A u \in Threads : [th[u] EXCEPT !.freed = TRUE] \in ThRecs(Len(tdirs))
  BY <1>2 DEF ThRecs
<1>9. \A u \in Threads : th'[u] \in ThRecs(Len(tdirs))
  BY <1>2, <1>3, <1>6, <1>7, <1>8
<1>10. th' \in [Threads -> ThRecs(Len(tdirs))]
  BY <1>4, <1>9
<1>11. QED
  BY <1>3, <1>4, <1>5, <1>6, <1>7, <1>10

LEMMA TypeTaglist ==
  ASSUME TypeInv, NEW t \in {Main, Cmd}, update_taglist(t)
  PROVE  TypeInv'
<1>1. /\ th[t].pc = "running"
      /\ UNCHANGED <<nvim, waiting, previous, bdata, enabled, filetypes, toNvim, raced, excuses>>
  BY DEF update_taglist, At
<1>2. th[t].pc \in Using
  BY <1>1 DEF Using
<1>3. CASE Alive(th[t].dir)
  <2>1. PICK v \in Versions, r \in ThRecs(Len(tdirs)) :
           /\ tdirs' = [tdirs EXCEPT ![th[t].dir].tags = Tags(v, th[t].run = "forced")]
           /\ cache' = cache \/ cache' = [cache EXCEPT ![Key(th[t].dir)] = v]
           /\ th' \in [Threads -> ThRecs(Len(tdirs))]
           /\ th'[t] = r /\ r.num = th[t].num /\ r.dir = th[t].dir
           /\ r.pc \in {"update", "search", "ctags"}
           /\ \A u \in Threads \ {t} : th'[u] = th[u] \/ th'[u] = [th[u] EXCEPT !.freed = TRUE]
    BY <1>3, RunDone
  <2>2. (th[t].run = "forced") \in BOOLEAN
    OBVIOUS
  <2>3. /\ tdirs' \in Seq(DirRecs) /\ Len(tdirs)' = Len(tdirs)
        /\ \A d \in 1 .. Len(tdirs)' : DirSound(d)'
    BY <1>2, <1>3, <2>1, <2>2, AtUpdate, TagsType, TagsReplaced DEF NewTags
  <2>4. cache' \in [Bases \X Types -> Versions \cup {None}]
    <3>1. cache \in [Bases \X Types -> Versions \cup {None}]
      BY DEF TypeInv, TypeOK
    <3>2. QED
      BY <2>1, <3>1
  <2>5. \A u \in Threads \ {t} : /\ th'[u].pc = th[u].pc /\ th'[u].num = th[u].num
                                 /\ th'[u].dir = th[u].dir /\ th'[u].refs = th[u].refs
    <3>1. \A u \in Threads : th[u] \in ThRecs(Len(tdirs))
      BY ThreadTypes DEF TypeInv
    <3>2. QED
      BY <2>1, <3>1 DEF ThRecs
  <2>6. PICK b \in Bufs : b = th[t].num
    BY <1>2, AtUpdate
  <2>7. t \in Threads /\ t \notin Bufs /\ None \notin Bufs /\ ThreadSound(t) /\ Placed(t) /\ Untouched(b)
    BY <1>2, <2>6, AtUpdate, AtWork, ConstantTypes
  <2>8. ThreadSound(t)' /\ Placed(t)'
    BY <1>1, <2>1, <2>6, <2>7
       DEF bdata, filetypes, ThreadSound, Placed, Resting, Around, Opening, Joined, Using, Leaving
  <2>9. Untouched(b)'
    BY <1>1, <2>1, <2>6, <2>7 DEF bdata, Untouched
  <2>10. Sound'
    BY <1>1, <2>1, <2>5, <2>6, <2>7, <2>8, <2>9, StepSound DEF bdata, filetypes
  <2>11. UNCHANGED undefined
    BY <1>3 DEF update_taglist
  <2>12. QED
    BY <1>1, <2>1, <2>3, <2>4, <2>10, <2>11, Updated, KeptTypes DEF bdata
<1>4. CASE ~ Alive(th[t].dir)
  <2>1. UNCHANGED <<tdirs, cache, th>> /\ Broken("topdir")
    BY <1>4 DEF update_taglist
  <2>2. QED
    BY <1>1, <1>2, <2>1, SoundSame, AtUpdate, Updated, KeptTypes DEF bdata, filetypes
<1>5. QED
  BY <1>3, <1>4

LEMMA TypeUpdate ==
  ASSUME TypeInv, NEW t \in {Main, Cmd}, update_highlight(t)
  PROVE  TypeInv'
<1> DEFINE b == th[t].num
<1>1. /\ th[t].pc = "update"
      /\ UNCHANGED <<nvim, waiting, previous, bdata, tdirs, cache, enabled, filetypes, history>>
  BY DEF update_highlight, At
<1>2. th[t].pc \in Using
  BY <1>1 DEF Using
<1>3. CASE calls[b] # None /\ th[t].normal
  <2>1. Send(b, calls[b]) /\ Ends(t)
    BY <1>3 DEF update_highlight
  <2>2. calls[b] \in Versions
    BY <1>2, <1>3, AtUpdate DEF TypeInv, TypeOK
  <2>3. toNvim' \in Seq([num : Bufs, type : Types, ver : Versions])
    BY <1>2, <2>1, <2>2, AtUpdate, ToNeovim DEF TypeInv
  <2>4. QED
    BY <1>1, <1>2, <2>1, <2>3, EndSound, Updated, KeptTypes DEF bdata, filetypes, history
<1>4. CASE ~ (calls[b] # None /\ th[t].normal)
  <2> DEFINE r == [th[t] EXCEPT !.pc = "ctags", !.run = "first"]
  <2>1. th' = [th EXCEPT ![t] = r] /\ UNCHANGED toNvim
    BY <1>2, <1>4, AtUpdate DEF update_highlight
  <2>2. r \in ThRecs(Len(tdirs)) /\ r.num = b /\ r.dir = th[t].dir /\ r.pc = "ctags"
    <3>1. th[t] \in ThRecs(Len(tdirs))
      BY <1>2, AtUpdate
    <3>2. "ctags" \in Pcs /\ "first" \in Runs
      BY DEF Pcs, Runs
    <3>3. QED
      BY <3>1, <3>2 DEF ThRecs
  <2> HIDE DEF r
  <2>3. Sound' /\ th' \in [Threads -> ThRecs(Len(tdirs)')]
    BY <1>1, <1>2, <2>1, <2>2, AtUpdate, Goes DEF bdata, filetypes, Resting, Around, Using
  <2>4. QED
    BY <1>1, <2>1, <2>3, Updated, KeptTypes DEF bdata, history
<1>5. QED
  BY <1>3, <1>4

LEMMA TypeSearch ==
  ASSUME TypeInv, NEW t \in {Main, Cmd}, Search(t)
  PROVE  TypeInv'
<1>1. /\ th[t].pc = "search"
      /\ UNCHANGED <<nvim, waiting, previous, bdata, tdirs, cache, enabled, filetypes, toNvim, raced, excuses>>
  BY DEF Search, At
<1>2. th[t].pc \in Using
  BY <1>1 DEF Using
<1>3. CASE Alive(th[t].dir)
  <2> DEFINE g == tdirs[th[t].dir].tags
             r == [th[t] EXCEPT !.pc = "searching", !.ver = g.ver, !.forced = g.forced]
  <2>1. th' = [th EXCEPT ![t] = r] /\ UNCHANGED undefined
    BY <1>2, <1>3, AtUpdate DEF Search
  <2>2. g.ver \in Versions /\ g.forced \in BOOLEAN
    BY <1>2, AtUpdate, DirTypes DEF TypeInv
  <2> HIDE DEF g
  <2>3. r \in ThRecs(Len(tdirs)) /\ r.num = th[t].num /\ r.dir = th[t].dir /\ r.pc = "searching"
    <3>1. th[t] \in ThRecs(Len(tdirs))
      BY <1>2, AtUpdate
    <3>2. "searching" \in Pcs
      BY DEF Pcs
    <3>3. QED
      BY <2>2, <3>1, <3>2 DEF ThRecs
  <2> HIDE DEF r
  <2>4. Sound' /\ th' \in [Threads -> ThRecs(Len(tdirs)')]
    BY <1>1, <1>2, <2>1, <2>3, AtUpdate, Goes DEF bdata, filetypes, Resting, Around, Using
  <2>5. QED
    BY <1>1, <2>1, <2>4, Updated, KeptTypes DEF bdata
<1>4. CASE ~ Alive(th[t].dir)
  <2>1. UNCHANGED th /\ Broken("topdir")
    BY <1>4 DEF Search
  <2>2. QED
    BY <1>1, <1>2, <2>1, SoundSame, AtUpdate, Updated, KeptTypes DEF bdata, filetypes
<1>5. QED
  BY <1>3, <1>4

LEMMA TypeFound ==
  ASSUME TypeInv, NEW t \in {Main, Cmd}, Found(t)
  PROVE  TypeInv'
<1>1. /\ th[t].pc = "searching"
      /\ UNCHANGED <<nvim, waiting, previous, open, ft, topdir, tdirs, cache, enabled, filetypes, raced, excuses>>
  BY DEF Found, At
<1>2. th[t].pc \in Using
  BY <1>1 DEF Using
<1>3. CASE Broken("tags") /\ UNCHANGED <<calls, toNvim, th>>
  BY <1>1, <1>2, <1>3, SoundSame, AtUpdate, Updated, KeptTypes DEF filetypes
<1>4. CASE /\ calls' = [calls EXCEPT ![th[t].num] = th[t].ver]
           /\ Send(th[t].num, th[t].ver) /\ Ends(t) /\ UNCHANGED undefined
  <2>1. th[t].ver \in Versions /\ th[t].num \in Bufs /\ ft[th[t].num] \in Types
    BY <1>2, AtUpdate, ThreadTypes DEF TypeInv
  <2>2. toNvim' \in Seq([num : Bufs, type : Types, ver : Versions])
    BY <1>4, <2>1, ToNeovim DEF TypeInv
  <2>3. calls' \in [Bufs -> Versions \cup {None}]
    BY <1>4, <2>1 DEF TypeInv, TypeOK
  <2>4. QED
    BY <1>1, <1>2, <1>4, <2>2, <2>3, EndSound, Updated, KeptTypes DEF filetypes
<1>5. QED
  BY <1>3, <1>4 DEF Found

LEMMA TypeNothing ==
  ASSUME TypeInv, NEW t \in {Main, Cmd}, NothingFound(t)
  PROVE  TypeInv'
<1>1. /\ th[t].pc = "searching"
      /\ UNCHANGED <<nvim, waiting, previous, bdata, tdirs, cache, enabled, filetypes, toNvim, raced, excuses>>
  BY DEF NothingFound, At
<1>2. th[t].pc \in Using
  BY <1>1 DEF Using
<1>3. CASE Broken("tags") /\ UNCHANGED th
  BY <1>1, <1>2, <1>3, SoundSame, AtUpdate, Updated, KeptTypes DEF bdata, filetypes
<1>4. CASE Ends(t) /\ UNCHANGED undefined
  BY <1>1, <1>2, <1>4, EndSound, Updated, KeptTypes DEF bdata, filetypes
<1>5. CASE /\ th' = [th EXCEPT ![t].pc = "ctags", ![t].run = "forced", ![t].ver = 0]
           /\ UNCHANGED undefined
  <2> DEFINE r == [th[t] EXCEPT !.pc = "ctags", !.run = "forced", !.ver = 0]
  <2>1. th' = [th EXCEPT ![t] = r]
    BY <1>2, <1>5, AtUpdate
  <2>2. r \in ThRecs(Len(tdirs)) /\ r.num = th[t].num /\ r.dir = th[t].dir /\ r.pc = "ctags"
    <3>1. th[t] \in ThRecs(Len(tdirs))
      BY <1>2, AtUpdate
    <3>2. "ctags" \in Pcs /\ "forced" \in Runs /\ 0 \in Versions
      BY ConstantTypes DEF Pcs, Runs
    <3>3. QED
      BY <3>1, <3>2 DEF ThRecs
  <2> HIDE DEF r
  <2>3. Sound' /\ th' \in [Threads -> ThRecs(Len(tdirs)')]
    BY <1>1, <1>2, <2>1, <2>2, AtUpdate, Goes DEF bdata, filetypes, Resting, Around, Using
  <2>4. QED
    BY <1>1, <1>5, <2>3, Updated, KeptTypes DEF bdata
<1>6. QED
  BY <1>3, <1>4, <1>5 DEF NothingFound


-----------------------------------------------------------------------------
(* Destroying a buffer.                                                    *)
LEMMA AtDestroy ==
  ASSUME TypeInv, NEW t \in Threads, th[t].pc \in {"clear", "unlist", "count_out", "store_out"}
  PROVE  /\ th \in [Threads -> ThRecs(Len(tdirs))] /\ th[t] \in ThRecs(Len(tdirs)) /\ Len(tdirs) \in Nat
         /\ th[t].num \in Bufs /\ ft[th[t].num] \in Types /\ th[t].dir \in 1 .. Len(tdirs)
         /\ ThreadSound(t) /\ Placed(t) /\ Untouched(th[t].num)
         /\ th[t].pc \notin Resting \cup {"open"}
<1>1. th[t].pc \notin Resting \cup {"open"} /\ th[t].pc \in Using \cup Leaving
  BY DEF Using, Leaving, Resting
<1>2. /\ th \in [Threads -> ThRecs(Len(tdirs))] /\ th[t] \in ThRecs(Len(tdirs)) /\ Len(tdirs) \in Nat
      /\ th[t].dir \in 0 .. Len(tdirs)
  BY ThreadTypes DEF TypeInv
<1>3. th[t].num \in Bufs /\ ThreadSound(t) /\ Placed(t) /\ Untouched(th[t].num)
  BY <1>1, AtWork
<1>4. QED
  BY <1>1, <1>2, <1>3 DEF ThreadSound, Placed

LEMMA TypeClear ==
  ASSUME TypeInv, NEW t \in Threads, clear_highlight(t)
  PROVE  TypeInv'
<1>1. /\ th[t].pc = "clear" /\ Goto(t, "unlist")
      /\ UNCHANGED <<current, file, type, version, sent, new_bufs, seen_bufs, waiting, previous, bdata, tdirs,
                     cache, enabled, filetypes, toNvim, undefined, raced>>
  BY DEF clear_highlight, At
<1>2. Sound' /\ th' \in [Threads -> ThRecs(Len(tdirs)')]
  BY <1>1, GoesTo DEF bdata, filetypes, Resting, Around, Using, Pcs
<1>3. shown' \in [Bufs -> [Types -> (Bufs \X Versions) \cup {None}]]
  <2>1. ft[th[t].num] \in Types /\ current \in Bufs
    BY <1>1, AtDestroy DEF TypeInv, TypeOK
  <2>2. QED
    BY <2>1 DEF clear_highlight, TypeInv, TypeOK
<1>4. excuses' \subseteq {"bounced", "cleared", "overtaken", "unannounced", "mistaken"}
  BY DEF clear_highlight, ClearedElsewhere, TypeInv, TypeOK
<1>5. TypeOK' /\ WasSent'
  BY <1>1, <1>2, <1>3, <1>4 DEF TypeInv, TypeOK, WasSent, bdata, filetypes, ThRecs
<1>6. QED
  BY <1>1, <1>2, <1>5, DirsSame DEF TypeInv

LEMMA TypeUnlist ==
  ASSUME TypeInv, NEW t \in Threads, Unlist(t)
  PROVE  TypeInv'
<1>1. /\ th[t].pc = "unlist"
      /\ UNCHANGED <<nvim, waiting, previous, ft, calls, topdir, tdirs, cache, enabled, filetypes, toNvim,
                     undefined, excuses>>
  BY DEF Unlist, At
<1>2. PICK b \in Bufs : b = th[t].num
  BY <1>1, AtDestroy
<1>3. open' = open \ {b}
  BY <1>2 DEF Unlist
<1> DEFINE r == [th[t] EXCEPT !.pc = "count_out"]
<1>4. th' = [th EXCEPT ![t] = r]
  BY <1>1, AtDestroy DEF Unlist, Goto
<1>5. r \in ThRecs(Len(tdirs)) /\ r.pc = "count_out" /\ r.num = b /\ r.dir = th[t].dir
  BY <1>1, <1>2, AtDestroy DEF ThRecs, Pcs
<1> HIDE DEF r
<1>6. /\ th' \in [Threads -> ThRecs(Len(tdirs))] /\ th'[t] = r
      /\ \A u \in Threads \ {t} : th'[u] = th[u]
  BY <1>1, <1>4, <1>5, AtDestroy
<1>7. ThreadSound(t) /\ Placed(t) /\ Untouched(b) /\ None \notin Bufs
  BY <1>1, <1>2, AtDestroy, ConstantTypes
<1>8. ThreadSound(t)' /\ Placed(t)'
  BY <1>1, <1>2, <1>3, <1>5, <1>6, <1>7 DEF ThreadSound, Placed, Resting, Around, Opening, Joined, Using, Leaving
<1>9. Untouched(b)'
  BY <1>1, <1>5, <1>6, <1>7 DEF Untouched
<1>10. Sound'
  BY <1>1, <1>2, <1>3, <1>5, <1>6, <1>8, <1>9, StepSound DEF filetypes
<1>11. raced' \in BOOLEAN
  BY DEF Unlist, TypeInv, TypeOK
<1>12. TypeOK' /\ WasSent'
  BY <1>1, <1>3, <1>6, <1>11 DEF TypeInv, TypeOK, WasSent, nvim, filetypes, ThRecs
<1>13. QED
  BY <1>1, <1>10, <1>12, DirsSame DEF TypeInv

LEMMA TypeCountOut ==
  ASSUME TypeInv, NEW t \in Threads, CountOut(t)
  PROVE  TypeInv'
<1>1. /\ th[t].pc = "count_out"
      /\ UNCHANGED <<nvim, waiting, previous, bdata, tdirs, cache, enabled, filetypes, toNvim, raced, excuses>>
  BY DEF CountOut, At
<1>2. CASE Alive(th[t].dir)
  <2> DEFINE r == [th[t] EXCEPT !.pc = "store_out", !.refs = tdirs[th[t].dir].refs]
  <2>1. th' = [th EXCEPT ![t] = r]
    BY <1>1, <1>2, AtDestroy DEF CountOut
  <2>2. tdirs[th[t].dir].refs \in Nat /\ tdirs[th[t].dir].refs # 0
    BY <1>1, <1>2, AtDestroy, DirTypes DEF TypeInv, DirSound
  <2>3. r \in ThRecs(Len(tdirs)) /\ r.num = th[t].num /\ r.dir = th[t].dir /\ r.pc = "store_out" /\ r.refs # 0
    <3>1. th[t] \in ThRecs(Len(tdirs))
      BY <1>1, AtDestroy
    <3>2. "store_out" \in Pcs
      BY DEF Pcs
    <3>3. QED
      BY <2>2, <3>1, <3>2 DEF ThRecs
  <2> HIDE DEF r
  <2>4. Sound' /\ th' \in [Threads -> ThRecs(Len(tdirs)')]
    <3>1. /\ th[t].dir # 0 /\ th[t].pc \in Leaving /\ r.pc \in Leaving
          /\ r.pc \notin Resting \cup {"open"} /\ th[t].pc \notin Resting \cup {"open"}
      BY <1>1, <2>3, AtDestroy DEF Leaving, Resting
    <3>2. QED
      BY <1>1, <2>1, <2>3, <3>1, Goes DEF bdata, filetypes
  <2>5. UNCHANGED undefined
    BY <1>2 DEF CountOut
  <2>6. QED
    BY <1>1, <2>4, <2>5, FiletypesSame, HistorySame, Moved
<1>3. CASE ~ Alive(th[t].dir)
  <2>1. UNCHANGED th /\ Broken("topdir")
    BY <1>3 DEF CountOut
  <2>2. QED
    BY <1>1, <2>1, SoundSame, AtDestroy, FiletypesSame, HistorySame, Moved DEF bdata, filetypes
<1>4. QED
  BY <1>2, <1>3

(* What is left of a directory that has been counted out.                  *)
LEMMA Counted ==
  ASSUME TypeInv, NEW t \in Threads, StoreOut(t), Alive(th[t].dir)
  PROVE  \E x \in DirRecs :
           /\ tdirs' = [tdirs EXCEPT ![th[t].dir] = x]
           /\ \/ x = Gone /\ th[t].refs = 1
              \/ /\ x.refs = th[t].refs - 1 /\ th[t].refs # 1 /\ x.refs # 0
                 /\ x.base = tdirs[th[t].dir].base /\ x.path = tdirs[th[t].dir].path
                 /\ x.ftid = tdirs[th[t].dir].ftid /\ x.listed = tdirs[th[t].dir].listed
                 /\ x.tags = tdirs[th[t].dir].tags
<1>1. th[t].pc = "store_out"
  BY DEF StoreOut, At
<1>2. PICK d \in 1 .. Len(tdirs) : d = th[t].dir
  BY <1>1, AtDestroy
<1>3. PICK n \in Nat : n = th[t].refs - 1 /\ th[t].refs \in Nat
  BY <1>1, AtDestroy DEF ThreadSound, ThRecs
<1>4. tdirs' = [tdirs EXCEPT ![d] = IF n = 0 THEN Gone ELSE [tdirs[d] EXCEPT !.refs = n]]
  BY <1>2, <1>3 DEF StoreOut, destroy_topdir, Released
<1>5. CASE n = 0
  <2>1. Gone \in DirRecs
    BY ConstantTypes DEF Gone, DirRecs, NoTags, TagRecs
  <2>2. tdirs' = [tdirs EXCEPT ![th[t].dir] = Gone] /\ th[t].refs = 1
    <3>1. tdirs' = [tdirs EXCEPT ![d] = Gone]
      BY <1>4, <1>5
    <3>2. QED
      BY <1>2, <1>3, <1>5, <3>1
  <2>3. QED
    BY <2>1, <2>2
<1>6. CASE n # 0
  <2> DEFINE x == [tdirs[d] EXCEPT !.refs = n]
  <2>1. tdirs' = [tdirs EXCEPT ![d] = x]
    BY <1>4, <1>6
  <2>2. /\ x \in DirRecs /\ x.refs = n /\ x.base = tdirs[d].base /\ x.path = tdirs[d].path
        /\ x.ftid = tdirs[d].ftid /\ x.listed = tdirs[d].listed /\ x.tags = tdirs[d].tags
    BY DirTypes DEF TypeInv, DirRecs
  <2> HIDE DEF x
  <2>3. tdirs' = [tdirs EXCEPT ![th[t].dir] = x] /\ n = th[t].refs - 1 /\ th[t].refs # 1 /\ n # 0
    BY <1>2, <1>3, <1>6, <2>1
  <2>4. QED
    BY <1>2, <2>2, <2>3
<1>7. QED
  BY <1>5, <1>6

LEMMA TypeStoreOut ==
  ASSUME TypeInv, NEW t \in Threads, StoreOut(t)
  PROVE  TypeInv'
<1>1. /\ th[t].pc = "store_out"
      /\ UNCHANGED <<nvim, waiting, previous, open, ft, cache, enabled, filetypes, toNvim, raced, excuses>>
  BY DEF StoreOut, At
<1>2. PICK b \in Bufs : b = th[t].num
  BY <1>1, AtDestroy
<1>3. CASE Alive(th[t].dir)
  <2>1. PICK x \in DirRecs :
           /\ tdirs' = [tdirs EXCEPT ![th[t].dir] = x]
           /\ \/ x = Gone
              \/ /\ x.refs # 0
                 /\ x.base = tdirs[th[t].dir].base /\ x.path = tdirs[th[t].dir].path
                 /\ x.ftid = tdirs[th[t].dir].ftid /\ x.listed = tdirs[th[t].dir].listed
    BY <1>3, Counted
  <2>2. Gone.base = None /\ Gone.listed = FALSE
    BY DEF Gone
  <2>3. /\ tdirs' \in Seq(DirRecs) /\ Len(tdirs)' = Len(tdirs)
        /\ \A e \in 1 .. Len(tdirs)' : DirSound(e)'
    BY <1>1, <1>3, <2>1, <2>2, AtDestroy, DirChanged
  <2>4. topdir' = [topdir EXCEPT ![b] = 0] /\ calls' = [calls EXCEPT ![b] = None] /\ UNCHANGED undefined
    BY <1>2, <1>3 DEF StoreOut
  <2>5. calls' \in [Bufs -> Versions \cup {None}]
    BY <2>4 DEF TypeInv, TypeOK
  <2>6. topdir' \in [Bufs -> 0 .. Len(tdirs)'] /\ topdir'[b] = 0 /\ \A c \in Bufs \ {b} : topdir'[c] = topdir[c]
    <3>1. topdir \in [Bufs -> 0 .. Len(tdirs)] /\ Len(tdirs) \in Nat
      BY <1>1, AtDestroy DEF TypeInv, TypeOK
    <3>2. QED
      BY <2>3, <2>4, <3>1
  <2>7. PICK r \in ThRecs(Len(tdirs)) : /\ th' = [th EXCEPT ![t] = r]
                                        /\ \/ t = Cmd /\ r.pc = "open" /\ r.num = b
                                           \/ t # Cmd /\ r.pc = "idle" /\ r.num = None
                                        /\ r.refs = 0 /\ ~ r.freed
    <3>1. Idle \in ThRecs(Len(tdirs)) /\ Idle.pc = "idle" /\ Idle.num = None /\ Idle.refs = 0 /\ ~ Idle.freed
      BY <1>1, AtDestroy, ConstantTypes DEF Idle, ThRecs, Pcs, Runs
    <3> DEFINE s == [Idle EXCEPT !.pc = "open", !.num = b]
    <3>2. s \in ThRecs(Len(tdirs)) /\ s.pc = "open" /\ s.num = b /\ s.refs = 0 /\ ~ s.freed
      BY <3>1 DEF ThRecs, Pcs
    <3>3. th' = [th EXCEPT ![t] = IF t = Cmd THEN s ELSE Idle]
      BY <1>2, <1>3 DEF StoreOut
    <3> HIDE DEF s
    <3>4. QED
      BY <3>1, <3>2, <3>3
  <2>8. /\ th' \in [Threads -> ThRecs(Len(tdirs)')] /\ th'[t] = r
        /\ \A u \in Threads \ {t} : th'[u] = th[u]
    BY <1>1, <2>3, <2>7, AtDestroy
  <2>9. /\ ThreadSound(t) /\ Placed(t) /\ Untouched(b) /\ None \notin Bufs /\ Cmd \notin Bufs
    BY <1>1, <1>2, AtDestroy, ConstantTypes
  <2>10. b \notin open
    BY <1>1, <1>2, <2>9 DEF Placed, Leaving
  <2>11. ThreadSound(t)' /\ Placed(t)'
    BY <1>1, <1>2, <2>6, <2>7, <2>8, <2>9, <2>10
       DEF ThreadSound, Placed, Resting, Around, Opening, Joined, Using, Leaving
  <2>12. Untouched(b)'
    BY <1>1, <2>6, <2>10 DEF Untouched
  <2>13. Sound'
    BY <1>1, <1>2, <2>6, <2>7, <2>8, <2>11, <2>12, StepSound DEF filetypes
  <2>14. HistoryOK' /\ FiletypesOK'
    BY <1>1, <2>4, HistorySame, FiletypesSame
  <2>15. TypeOK' /\ WasSent'
    BY <1>1, <2>3, <2>5, <2>6, <2>8, <2>14 DEF TypeInv, TypeOK, WasSent, nvim, HistoryOK, FiletypesOK, ThRecs
  <2>16. QED
    BY <2>3, <2>13, <2>15 DEF TypeInv
<1>4. CASE ~ Alive(th[t].dir)
  <2>1. UNCHANGED <<tdirs, topdir, calls, th>> /\ Broken("topdir")
    BY <1>4 DEF StoreOut
  <2>2. HistoryOK' /\ FiletypesOK'
    BY <1>1, <2>1, HistorySame, FiletypesSame
  <2>3. QED
    BY <1>1, <2>1, <2>2, AtDestroy, SoundSame, Moved DEF filetypes, bdata
<1>5. QED
  BY <1>3, <1>4

LEMMA TypeInit == Init => TypeInv
<1> SUFFICES ASSUME Init PROVE TypeInv
  OBVIOUS
<1>2. current \in Bufs
  BY BufsAssumption DEF Init
<1>3. Len(tdirs) = 0 /\ tdirs \in Seq(DirRecs)
  BY EmptySeq DEF Init
<1>4. 0 \in Versions /\ 1 \in Versions
  BY ConstantTypes
<1> DEFINE m == [Idle EXCEPT !.pc = "open", !.num = current]
<1>5. Idle \in ThRecs(0) /\ Idle.pc = "idle" /\ Idle.num = None
  BY <1>4 DEF Idle, ThRecs, Pcs, Runs
<1>6. m \in ThRecs(0) /\ m.pc = "open" /\ m.num = current
  BY <1>2, <1>5 DEF ThRecs, Pcs
<1>7. th = [t \in Threads |-> IF t = Main THEN m ELSE Idle]
  BY DEF Init
<1> HIDE DEF m
<1>8. th \in [Threads -> ThRecs(0)]
  BY <1>5, <1>6, <1>7
<1>9. shown \in [Bufs -> [Types -> (Bufs \X Versions) \cup {None}]]
  BY DEF Init
<1>10. waiting \in [Kinds -> 0 .. MaxMessages] /\ WasSent
  <2>1. waiting = [k \in Kinds |-> 0] /\ sent = 0
    BY DEF Init
  <2>2. QED
    BY <2>1, BoundsAssumption DEF WasSent
<1>11. TypeOK
  <2>1. /\ current \in Bufs /\ file \in [Bufs -> Dirs] /\ type \in [Bufs -> Types]
        /\ version \in Versions /\ sent \in 0 .. MaxMessages
        /\ new_bufs \subseteq Bufs /\ seen_bufs \subseteq Bufs /\ previous \in Bufs \cup {None}
        /\ open \subseteq Bufs /\ ft \in [Bufs -> Types \cup {None}] /\ calls \in [Bufs -> Versions \cup {None}]
    <3>1. current \in Bufs /\ file \in [Bufs -> Dirs] /\ type \in [Bufs -> Types]
      BY <1>2 DEF Init
    <3>2. version \in Versions /\ sent \in 0 .. MaxMessages
      <4>1. version = 1 /\ sent = 0
        BY DEF Init
      <4>2. QED
        BY <1>4, <4>1, BoundsAssumption
    <3>3. new_bufs = {current} /\ seen_bufs = {current} /\ previous = None /\ open = {}
      BY DEF Init
    <3>4. ft \in [Bufs -> Types \cup {None}] /\ calls \in [Bufs -> Versions \cup {None}]
      BY DEF Init
    <3>5. QED
      BY <3>1, <3>2, <3>3, <3>4
  <2>2. /\ topdir \in [Bufs -> 0 .. Len(tdirs)]
        /\ cache \in [Bases \X Types -> Versions \cup {None}] /\ enabled \in BOOLEAN
        /\ ftfilled \subseteq ftinit /\ ftinit \subseteq Types /\ ftdata_mutex \in {None, Main, Cmd}
    <3>1. topdir = [b \in Bufs |-> 0] /\ cache = [k \in Bases \X Types |-> None] /\ enabled \in BOOLEAN
      BY DEF Init
    <3>2. ftinit = {} /\ ftfilled = {} /\ ftdata_mutex = None
      BY DEF Init
    <3>3. topdir \in [Bufs -> 0 .. Len(tdirs)]
      BY <1>3, <3>1
    <3>4. cache \in [Bases \X Types -> Versions \cup {None}]
      BY <3>1
    <3>5. QED
      BY <3>1, <3>2, <3>3, <3>4
  <2>3. /\ toNvim \in Seq([num : Bufs, type : Types, ver : Versions])
        /\ undefined \in {None, "topdir", "filetype", "tags"} /\ raced \in BOOLEAN
        /\ excuses \subseteq {"bounced", "cleared", "overtaken", "unannounced", "mistaken"}
    BY EmptySeq DEF Init
  <2>4. th \in [Threads -> [pc : Pcs, num : Bufs \cup {None}, dir : 0 .. Len(tdirs), refs : Nat,
                           normal : BOOLEAN, run : Runs, ver : Versions, forced : BOOLEAN, freed : BOOLEAN]]
    BY <1>3, <1>8 DEF ThRecs
  <2>5. waiting \in [Kinds -> 0 .. MaxMessages] /\ tdirs \in Seq(DirRecs)
    BY <1>3, <1>10
  <2>6. QED
    BY <1>9, <2>1, <2>2, <2>3, <2>4, <2>5, Zenon DEF TypeOK
<1>12. \A t \in Threads : ThreadSound(t) /\ Placed(t)
  <2>1. SUFFICES ASSUME NEW t \in Threads
                 PROVE  ThreadSound(t) /\ Placed(t)
    OBVIOUS
  <2>2. \/ th[t].pc = "idle" /\ th[t].num = None
        \/ th[t].pc = "open" /\ th[t].num = current /\ t = Main
    BY <1>5, <1>6, <1>7
  <2>3. ThreadSound(t)
    BY <1>2, <2>2, ConstantTypes DEF ThreadSound, Resting, Around
  <2>4. Placed(t)
    <3>1. open = {} /\ \A b \in Bufs : topdir[b] = 0
      BY DEF Init
    <3>2. QED
      BY <1>2, <2>2, <3>1 DEF Placed, Opening, Joined, Using, Leaving
  <2>5. QED
    BY <2>3, <2>4
<1>13. OnePerBuffer
  BY <1>5, <1>7 DEF OnePerBuffer
<1>14. \A b \in Bufs : Untouched(b)
  BY DEF Init, Untouched
<1>15. \A d \in 1 .. Len(tdirs) : DirSound(d)
  BY <1>3
<1>16. QED
  BY <1>10, <1>11, <1>12, <1>13, <1>14, <1>15 DEF TypeInv, Sound

LEMMA TypeStep == TypeInv /\ [Next]_vars => TypeInv'
<1> SUFFICES ASSUME TypeInv, [Next]_vars PROVE TypeInv'
  OBVIOUS
<1>2. CASE UNCHANGED vars
  <2>1. UNCHANGED <<nvim, waiting, previous, bdata, tdirs, cache, enabled, filetypes, th, toNvim, history>>
    BY <1>2 DEF vars
  <2>2. HistoryOK' /\ FiletypesOK'
    BY <2>1, HistorySame, FiletypesSame DEF history
  <2>3. Sound' /\ th' \in [Threads -> ThRecs(Len(tdirs)')]
    BY <2>1, SoundSame, ThreadTypes DEF bdata, filetypes, TypeInv
  <2>4. QED
    BY <2>1, <2>2, <2>3, Moved DEF history
<1>3. CASE User
  BY <1>3, TypeEnter, TypeDelete, TypeAnnounced DEF User
<1>4. CASE \E i \in 1 .. Len(toNvim) : Execute(i)
  BY <1>4, TypeExecute
<1>5. CASE \E k \in Kinds : Take(k)
  BY <1>5, TypeTake
<1>6. ASSUME NEW t \in {Main, Cmd}, Opens(t)
      PROVE  TypeInv'
  BY <1>6, TypeOpen, TypeFind, TypeCountIn, TypeStoreIn, TypeCreate, TypeFiletype, TypeLines, TypeInitialTags
     DEF Opens
<1>7. ASSUME NEW t \in {Main, Cmd}, Updates(t)
      PROVE  TypeInv'
  BY <1>7, TypeRun, TypeTaglist, TypeUpdate, TypeSearch, TypeFound, TypeNothing DEF Updates
<1>8. ASSUME NEW t \in Threads, Destroys(t)
      PROVE  TypeInv'
  BY <1>8, TypeClear, TypeUnlist, TypeCountOut, TypeStoreOut DEF Destroys
<1>9. QED
  BY <1>2, <1>3, <1>4, <1>5, <1>6, <1>7, <1>8 DEF Next

LEMMA TypeAlways == Spec => []TypeInv
  BY TypeInit, TypeStep, PTL DEF Spec

(* Every variable holds what the code can put there: no count of a         *)
(* directory is negative, though they are changed without a lock, and a    *)
(* filetype is marked before it is filled.                                 *)
THEOREM TypeCorrect == Spec => []TypeOK
<1>1. TypeInv => TypeOK
  BY DEF TypeInv
<1>2. QED
  BY <1>1, TypeAlways, PTL


-----------------------------------------------------------------------------
(* The counts of project directories.                                      *)
LEMMA CountFrame ==
  ASSUME TypeInv, CountSound, UNCHANGED <<file, topdir>>, Len(tdirs)' = Len(tdirs),
         \A d \in 1 .. Len(tdirs) : /\ tdirs'[d].base = tdirs[d].base
                                    /\ tdirs'[d].ftid = tdirs[d].ftid
                                    /\ tdirs'[d].refs = tdirs[d].refs,
         \A b \in Bufs : topdir[b] # 0 => ft'[b] = ft[b],
         \A t \in Threads : th'[t].pc \in Around =>
           /\ th[t].pc = th'[t].pc /\ th'[t].dir = th[t].dir
           /\ th'[t].num = th[t].num /\ th'[t].refs = th[t].refs
           /\ ft'[th[t].num] = ft[th[t].num]
  PROVE  CountSound'
<1>1. /\ \A b \in Bufs : topdir[b] \in 0 .. Len(tdirs)
      /\ \A t \in Threads : th[t].dir \in 0 .. Len(tdirs)
      /\ Len(tdirs) \in Nat
  BY ThreadTypes DEF TypeInv, TypeOK
<1>2. \A t \in Threads : th[t].pc \in Around => th[t].dir \in 1 .. Len(tdirs)
  BY <1>1 DEF TypeInv, Sound, ThreadSound
<1>3. \A b \in Bufs : topdir'[b] # 0 => Alive(topdir[b])' /\ Suits(topdir[b], b)'
  <2>1. ASSUME NEW b \in Bufs, topdir'[b] # 0
        PROVE  /\ tdirs'[topdir'[b]].base # None
               /\ tdirs'[topdir'[b]].base = (IF file'[b] \notin NoRecurse THEN file'[b] ELSE <<file'[b], b>>)
               /\ tdirs'[topdir'[b]].ftid = ft'[b]
    BY <1>1, <2>1 DEF CountSound, Alive, Suits, Base, Recurse
  <2>2. QED
    BY <2>1 DEF Alive, Suits, Base, Recurse
<1>4. \A d \in 1 .. Len(tdirs)' : Alive(d)' => tdirs'[d].refs = Cardinality(Users(d)')
  BY DEF CountSound, Alive, Users
<1>5. \A t \in Threads :
        /\ th'[t].pc \in {"count_in", "store_in"} => Alive(th[t].dir)' /\ Suits(th[t].dir, th[t].num)'
        /\ th'[t].pc \in {"store_in", "store_out"} => th'[t].refs = tdirs'[th'[t].dir].refs
  <2>1. ASSUME NEW t \in Threads, th'[t].pc \in {"count_in", "store_in"}
        PROVE  Alive(th[t].dir)' /\ Suits(th[t].dir, th[t].num)'
    <3>1. th[t].pc \in Around /\ th'[t].pc \in Around
      BY <2>1 DEF Around
    <3>2. /\ Alive(th[t].dir) /\ Suits(th[t].dir, th[t].num) /\ th[t].dir \in 1 .. Len(tdirs)
          /\ th'[t].dir = th[t].dir /\ th'[t].num = th[t].num
          /\ ft'[th[t].num] = ft[th[t].num]
      BY <1>2, <2>1, <3>1 DEF CountSound
    <3>3. QED
      BY <3>2 DEF Alive, Suits, Base, Recurse
  <2>2. ASSUME NEW t \in Threads, th'[t].pc \in {"store_in", "store_out"}
        PROVE  th'[t].refs = tdirs'[th'[t].dir].refs
    BY <1>2, <2>2 DEF CountSound, Around
  <2>3. QED
    BY <2>1, <2>2
<1>6. \A t, u \in Threads : th'[t].pc \in Around /\ th'[u].pc \in Around /\ th'[t].dir = th'[u].dir => t = u
  BY DEF CountSound
<1>7. QED
  BY <1>3, <1>4, <1>5, <1>6 DEF CountSound

(* A thread that moves about, but to no count.                             *)
LEMMA CountMove ==
  ASSUME TypeInv, CountSound, NEW t \in Threads, UNCHANGED <<file, topdir, ft>>, Len(tdirs)' = Len(tdirs),
         \A d \in 1 .. Len(tdirs) : /\ tdirs'[d].base = tdirs[d].base
                                    /\ tdirs'[d].ftid = tdirs[d].ftid
                                    /\ tdirs'[d].refs = tdirs[d].refs,
         \A u \in Threads \ {t} : th'[u] = th[u],
         th'[t].pc \notin Around
  PROVE  CountSound'
  BY CountFrame

(* No step switches ctags on or off, or takes back what has gone wrong.    *)
LEMMA HistoryGrows ==
  ASSUME TypeInv, [Next]_vars
  PROVE  UNCHANGED enabled /\ excuses \subseteq excuses' /\ (raced => raced')
<1>1. CASE User
  <2>1. UNCHANGED enabled /\ excuses \subseteq excuses' /\ raced' = raced
    BY <1>1 DEF User, EnterBuffer, DeleteBuffer, AddBuffer, WriteFile, ForceUpdate, SetFiletype, history
  <2>2. QED
    BY <2>1
<1>2. ASSUME NEW i \in 1 .. Len(toNvim), Execute(i)
      PROVE  UNCHANGED enabled /\ excuses \subseteq excuses' /\ raced' = raced
  BY <1>2 DEF Execute
<1>3. ASSUME NEW k \in Kinds, Take(k)
      PROVE  UNCHANGED enabled /\ excuses \subseteq excuses' /\ raced' = raced
  BY <1>3 DEF Take, event_buffer_changed, event_syntax_changed, event_want_update, event_force_update, Kinds
<1>4. ASSUME NEW t \in {Main, Cmd}, Opens(t)
      PROVE  UNCHANGED <<enabled, excuses>> /\ (raced => raced')
  <2>1. CASE init_topdir(t)
    <3>1. UNCHANGED <<enabled, excuses>>
      BY <2>1 DEF init_topdir
    <3>2. raced => raced'
      BY <2>1, Zenon DEF init_topdir
    <3>3. QED
      BY <3>1, <3>2
  <2>2. CASE ~ init_topdir(t)
    <3>1. UNCHANGED <<enabled, excuses, raced>>
      BY <1>4, <2>2
         DEF Opens, Open, CountIn, StoreIn, CreateDir, init_filetype, LockFiletypes, FillFiletype,
             get_initial_lines, get_initial_taglist, history
    <3>2. QED
      BY <3>1
  <2>3. QED
    BY <2>1, <2>2
<1>5. ASSUME NEW t \in {Main, Cmd}, Updates(t)
      PROVE  UNCHANGED <<enabled, excuses, raced>>
  BY <1>5 DEF Updates, run_ctags_pipe, update_taglist, update_highlight, Search, Found, NothingFound, history
<1>6. ASSUME NEW t \in Threads, Destroys(t)
      PROVE  UNCHANGED enabled /\ excuses \subseteq excuses' /\ (raced => raced')
  <2>1. UNCHANGED enabled /\ excuses \subseteq excuses'
    BY <1>6 DEF Destroys, clear_highlight, Unlist, CountOut, StoreOut
  <2>2. CASE Unlist(t)
    BY <2>1, <2>2, Zenon DEF Unlist
  <2>3. CASE ~ Unlist(t)
    <3>1. UNCHANGED raced
      BY <1>6, <2>3 DEF Destroys, clear_highlight, CountOut, StoreOut
    <3>2. QED
      BY <2>1, <3>1
  <2>4. QED
    BY <2>2, <2>3
<1>7. CASE UNCHANGED vars
  <2>1. UNCHANGED <<enabled, excuses, raced>>
    BY <1>7 DEF vars, history
  <2>2. QED
    BY <2>1
<1>8. QED
  BY <1>1, <1>2, <1>3, <1>4, <1>5, <1>6, <1>7 DEF Next

(* A step of thread t that is about no count changes no other thread, and  *)
(* takes t to no count.                                                    *)
Apart(t) == /\ \A u \in Threads \ {t} : th'[u] = th[u]
            /\ th'[t].pc \notin Around

(* A thread that opens or updates goes on with that until it is done.       *)
Onward(t) ==
  /\ th'[t].pc \notin {"clear", "unlist"} \cup Leaving
  /\ th'[t].pc = "idle" => t = Cmd
  /\ th'[t].pc = "create" => th[t].pc = "find"
  /\ th'[t].pc \in {"ftlock", "ftfill", "lines"} => th[t].pc \in {"filetype", "ftlock", "ftfill"}
  /\ th'[t].pc \in {"running", "searching"} => th'[t] = th[t] \/ th[t].pc \in {"ctags", "search"}
  /\ th'[t].freed => th[t].freed

LEMMA ApartGoto ==
  ASSUME TypeInv, NEW t \in Threads, NEW p \in Pcs \ Around, Goto(t, p)
  PROVE  Apart(t) /\ th'[t].pc = p /\ th'[t].num = th[t].num /\ th'[t].dir = th[t].dir
<1>1. th \in [Threads -> ThRecs(Len(tdirs))] /\ th[t] \in ThRecs(Len(tdirs))
  BY ThreadTypes DEF TypeInv
<1>2. QED
  BY <1>1 DEF Goto, Apart, ThRecs

LEMMA ApartSame ==
  ASSUME TypeInv, NEW t \in Threads, UNCHANGED th, th[t].pc \notin Around
  PROVE  Apart(t)
  BY DEF Apart

LEMMA ApartEnds ==
  ASSUME TypeInv, NEW t \in {Main, Cmd}, Ends(t)
  PROVE  Apart(t) /\ Onward(t)
<1>1. th \in [Threads -> ThRecs(Len(tdirs))] /\ t \in Threads
  BY ThreadTypes, ConstantTypes DEF TypeInv
<1>2. QED
  BY <1>1 DEF Ends, Apart, Idle, Around, Onward, Leaving

LEMMA ApartOpens ==
  ASSUME TypeInv, NEW t \in {Main, Cmd},
         \/ init_filetype(t) \/ LockFiletypes(t) \/ FillFiletype(t) \/ get_initial_lines(t) \/ get_initial_taglist(t)
  PROVE  Apart(t) /\ Onward(t)
<1>1. t \in Threads /\ th \in [Threads -> ThRecs(Len(tdirs))] /\ th[t] \in ThRecs(Len(tdirs))
  BY ThreadTypes, ConstantTypes DEF TypeInv
<1>2. CASE \E p \in {"ftlock", "ftfill", "lines", "tags", "update"} :
             Goto(t, p) /\ (p \in {"tags", "update"} \/ th[t].pc \in {"filetype", "ftlock", "ftfill"})
  <2>1. PICK p \in {"ftlock", "ftfill", "lines", "tags", "update"} :
               Goto(t, p) /\ (p \in {"tags", "update"} \/ th[t].pc \in {"filetype", "ftlock", "ftfill"})
    BY <1>2
  <2>2. th'[t].pc = p /\ th'[t].freed = th[t].freed
    BY <1>1, <2>1 DEF Goto, ThRecs
  <2>3. QED
    BY <1>1, <2>1, <2>2, ApartGoto DEF Pcs, Around, Onward, Leaving
<1>3. CASE get_initial_taglist(t) /\ UNCHANGED th
  BY <1>1, <1>3, ApartSame DEF get_initial_taglist, At, Around, Onward, Leaving
<1>4. CASE \E q \in Runs : th' = [th EXCEPT ![t].pc = "ctags", ![t].run = q]
  BY <1>1, <1>4 DEF Apart, Around, ThRecs, Onward, Leaving
<1>5. QED
  BY <1>2, <1>3, <1>4
     DEF init_filetype, LockFiletypes, FillFiletype, get_initial_lines, get_initial_taglist, Runs, At

LEMMA ApartUpdates ==
  ASSUME TypeInv, NEW t \in {Main, Cmd},
         run_ctags_pipe(t) \/ update_highlight(t) \/ Search(t) \/ Found(t) \/ NothingFound(t)
  PROVE  Apart(t) /\ Onward(t)
<1>1. t \in Threads /\ th \in [Threads -> ThRecs(Len(tdirs))] /\ th[t] \in ThRecs(Len(tdirs))
  BY ThreadTypes, ConstantTypes DEF TypeInv
<1>2. th[t].pc \in {"ctags", "update", "search", "searching"}
  BY DEF run_ctags_pipe, update_highlight, Search, Found, NothingFound, At
<1>3. CASE UNCHANGED th
  BY <1>1, <1>2, <1>3, ApartSame DEF Around, Onward, Leaving
<1>4. CASE Ends(t)
  BY <1>1, <1>4, ApartEnds
<1>5. CASE \E r \in ThRecs(Len(tdirs)) : /\ th' = [th EXCEPT ![t] = r] /\ r.freed = th[t].freed
                                         /\ r.pc \in {"update", "search", "ctags"}
  BY <1>1, <1>5 DEF Apart, Around, Onward, Leaving
<1>6. CASE th' = Proceed(t)
  BY <1>1, <1>5, <1>6, ProceedsTo DEF TypeInv
<1>7. CASE \E q \in Runs : th' = [th EXCEPT ![t].pc = "ctags", ![t].run = q]
  BY <1>1, <1>7 DEF Apart, Around, ThRecs, Onward, Leaving
<1>8. CASE th' = [th EXCEPT ![t].pc = "ctags", ![t].run = "forced", ![t].ver = 0]
  BY <1>1, <1>8 DEF Apart, Around, ThRecs, Onward, Leaving
<1>9. CASE th' = [th EXCEPT ![t].pc = "running", ![t].ver = version] /\ th[t].pc = "ctags"
  BY <1>1, <1>9 DEF Apart, Around, ThRecs, Onward, Leaving
<1>10. CASE th' = [th EXCEPT ![t].pc = "searching", ![t].ver = tdirs[th[t].dir].tags.ver,
                             ![t].forced = tdirs[th[t].dir].tags.forced]
            /\ th[t].pc = "search"
  BY <1>1, <1>10 DEF Apart, Around, ThRecs, Onward, Leaving
<1>11. CASE run_ctags_pipe(t)
  BY <1>6, <1>9, <1>11 DEF run_ctags_pipe, At
<1>12. CASE update_highlight(t)
  BY <1>4, <1>7, <1>12 DEF update_highlight, Runs
<1>13. CASE Search(t)
  BY <1>3, <1>10, <1>13 DEF Search, At
<1>14. CASE Found(t)
  BY <1>3, <1>4, <1>14 DEF Found
<1>15. CASE NothingFound(t)
  BY <1>3, <1>4, <1>8, <1>15 DEF NothingFound
<1>16. QED
  BY <1>11, <1>12, <1>13, <1>14, <1>15


LEMMA CountNvim ==
  ASSUME TypeInv, CountSound,
         \/ \E n \in Bufs : EnterBuffer(n) \/ DeleteBuffer(n)
         \/ AddBuffer \/ WriteFile \/ ForceUpdate
         \/ \E f \in Types : SetFiletype(f)
         \/ \E i \in 1 .. Len(toNvim) : Execute(i)
         \/ \E k \in Kinds : Take(k)
  PROVE  CountSound'
<1>1. UNCHANGED <<file, topdir, ft, tdirs>>
  BY DEF EnterBuffer, DeleteBuffer, AddBuffer, WriteFile, ForceUpdate, SetFiletype, Execute, Take, bdata, nvim
<1>2. th \in [Threads -> ThRecs(Len(tdirs))] /\ Cmd \in Threads /\ Bufs \subseteq Threads
  BY ThreadTypes, ConstantTypes DEF TypeInv
<1>3. CASE UNCHANGED th
  BY <1>1, <1>3, CountFrame
<1>4. CASE \E n \in Bufs : DeleteBuffer(n)
  <2>1. PICK n \in Bufs : th' = [th EXCEPT ![n] = [Idle EXCEPT !.pc = "clear", !.num = n, !.dir = topdir[n]]]
    BY <1>4 DEF DeleteBuffer
  <2>2. n \in Threads /\ (\A u \in Threads \ {n} : th'[u] = th[u]) /\ th'[n].pc = "clear"
    BY <1>2, <2>1 DEF Idle
  <2>3. QED
    BY <1>1, <2>2, CountMove DEF Around
<1>5. CASE \E k \in Kinds : Take(k)
  <2>1. \/ UNCHANGED th
        \/ \E p, n : Begin(p, n) /\ p \in {"open", "update", "clear"}
    <3>1. event_buffer_changed \/ event_syntax_changed \/ event_want_update \/ event_force_update
      BY <1>5, Zenon DEF Take, Kinds
    <3>2. QED
      BY <3>1 DEF event_buffer_changed, event_syntax_changed, event_want_update, event_force_update
  <2>2. CASE \E p, n : Begin(p, n) /\ p \in {"open", "update", "clear"}
    <3>1. PICK p, n : Begin(p, n) /\ p \in {"open", "update", "clear"}
      BY <2>2
    <3>2. (\A u \in Threads \ {Cmd} : th'[u] = th[u]) /\ th'[Cmd].pc = p
      BY <1>2, <3>1 DEF Begin, Idle
    <3>3. QED
      BY <1>1, <1>2, <3>1, <3>2, CountMove DEF Around
  <2>3. QED
    BY <1>3, <2>1, <2>2
<1>6. QED
  BY <1>3, <1>4, <1>5 DEF EnterBuffer, AddBuffer, WriteFile, ForceUpdate, SetFiletype, Execute

LEMMA CountOpen ==
  ASSUME TypeInv, CountSound, NEW t \in {Main, Cmd}, Open(t)
  PROVE  CountSound'
<1>1. /\ th[t].pc = "open" /\ t \in Threads /\ Goto(t, "find")
      /\ UNCHANGED <<file, topdir, tdirs>>
  BY ConstantTypes DEF Open, At, nvim
<1>2. Apart(t)
  BY <1>1, ApartGoto DEF Pcs, Around
<1>3. PICK b \in Bufs : b = th[t].num
  BY <1>1, AtWork DEF Resting
<1>4. topdir[b] = 0
  BY <1>1, <1>3 DEF TypeInv, Sound, Placed, Opening
<1>5. \A c \in Bufs \ {b} : ft'[c] = ft[c]
  BY <1>3 DEF Open, TypeInv, TypeOK
<1>6. \A u \in Threads \ {t} : th[u].pc \in Around => th[u].num \in Bufs \ {b}
  <2>1. \A u \in Threads : th[u].num \in Bufs \cup {None}
    BY ThreadTypes DEF TypeInv
  <2>2. QED
    BY <1>1, <1>3, <2>1 DEF TypeInv, Sound, OnePerBuffer, ThreadSound, Resting, Around
<1>7. QED
  BY <1>1, <1>2, <1>4, <1>5, <1>6, CountFrame DEF Apart

(* The directory check_open_topdirs finds is the buffer's own.             *)
LEMMA FoundDir ==
  ASSUME TypeInv, NEW b \in Bufs, NEW d \in check_open_topdirs(b)
  PROVE  d \in 1 .. Len(tdirs) /\ Alive(d) /\ Suits(d, b)
<1>1. d \in 1 .. Len(tdirs) /\ tdirs[d].listed /\ tdirs[d].ftid = ft[b] /\ tdirs[d].path = Base(b)
  BY DEF check_open_topdirs
<1>2. Alive(d) /\ DirSound(d)
  BY <1>1 DEF TypeInv, DirSound
<1>3. Base(b) \in Dirs
  BY <1>1, <1>2 DEF DirSound
<1>4. file[b] \notin NoRecurse /\ Base(b) = file[b]
  BY <1>3, BaseType DEF TypeInv
<1>5. QED
  BY <1>1, <1>2, <1>4 DEF DirSound, Suits

(* Thread t is the only one about directory d, and counts a buffer in or   *)
(* out, or comes to do so.                                                 *)
LEMMA CountAt ==
  ASSUME TypeInv, CountSound, NEW t \in Threads, NEW d \in 1 .. Len(tdirs)', UNCHANGED <<file, ft>>,
         Len(tdirs) <= Len(tdirs)', Len(tdirs)' \in Nat,
         \A e \in 1 .. Len(tdirs)' : e # d => e \in 1 .. Len(tdirs) /\ tdirs'[e] = tdirs[e],
         \A u \in Threads \ {t} : th'[u] = th[u] /\ (th[u].pc \in Around => th[u].dir # d),
         \A c \in Bufs : topdir'[c] # topdir[c] => topdir[c] \in {0, d} /\ topdir'[c] \in {0, d},
         \A c \in Bufs : topdir'[c] = d => Alive(d)' /\ Suits(d, c)',
         Alive(d)' => tdirs'[d].refs = Cardinality(Users(d)'),
         th'[t].pc \in Around => th'[t].dir = d,
         th'[t].pc \in {"count_in", "store_in"} => Alive(d)' /\ Suits(d, th[t].num)' /\ th'[t].num = th[t].num,
         th'[t].pc \in {"store_in", "store_out"} => th'[t].refs = tdirs'[d].refs
  PROVE  CountSound'
<1>1. /\ \A b \in Bufs : topdir[b] \in 0 .. Len(tdirs)
      /\ \A u \in Threads : th[u].dir \in 0 .. Len(tdirs)
      /\ Len(tdirs) \in Nat
  BY ThreadTypes DEF TypeInv, TypeOK
<1>2. \A u \in Threads : th[u].pc \in Around => th[u].dir \in 1 .. Len(tdirs)
  BY <1>1 DEF TypeInv, Sound, ThreadSound
<1>3. ASSUME NEW b \in Bufs, topdir'[b] # 0
      PROVE  Alive(topdir[b])' /\ Suits(topdir[b], b)'
  <2>1. CASE topdir'[b] = d
    BY <2>1 DEF Alive, Suits, Base, Recurse
  <2>2. CASE topdir'[b] # d
    <3>1. topdir'[b] = topdir[b] /\ topdir[b] \in 1 .. Len(tdirs)'
      BY <1>1, <1>3, <2>2
    <3>2. tdirs'[topdir[b]] = tdirs[topdir[b]] /\ Alive(topdir[b]) /\ Suits(topdir[b], b)
      BY <1>3, <2>2, <3>1 DEF CountSound
    <3>3. QED
      BY <3>1, <3>2 DEF Alive, Suits, Base, Recurse
  <2>3. QED
    BY <2>1, <2>2
<1>4. ASSUME NEW e \in 1 .. Len(tdirs)', Alive(e)'
      PROVE  tdirs'[e].refs = Cardinality(Users(e)')
  <2>1. CASE e = d
    BY <1>4, <2>1
  <2>2. CASE e # d
    <3>1. e \in 1 .. Len(tdirs) /\ tdirs'[e] = tdirs[e] /\ e # 0
      BY <2>2
    <3>2. Users(e)' = Users(e)
      BY <2>2, <3>1 DEF Users
    <3>3. QED
      BY <1>4, <3>1, <3>2 DEF CountSound, Alive
  <2>3. QED
    BY <2>1, <2>2
<1>5. ASSUME NEW u \in Threads, th'[u].pc \in {"count_in", "store_in"}
      PROVE  Alive(th[u].dir)' /\ Suits(th[u].dir, th[u].num)'
  <2>1. CASE u = t
    BY <1>5, <2>1 DEF Alive, Suits, Base, Recurse, Around
  <2>2. CASE u # t
    <3>1. th'[u] = th[u] /\ th[u].pc \in Around
      BY <1>5, <2>2 DEF Around
    <3>2. /\ th[u].dir # d /\ th[u].dir \in 1 .. Len(tdirs)'
          /\ Alive(th[u].dir) /\ Suits(th[u].dir, th[u].num)
      BY <1>1, <1>2, <1>5, <2>2, <3>1 DEF CountSound
    <3>3. tdirs'[th[u].dir] = tdirs[th[u].dir]
      BY <3>2
    <3>4. QED
      BY <3>1, <3>2, <3>3 DEF Alive, Suits, Base, Recurse
  <2>3. QED
    BY <2>1, <2>2
<1>6. ASSUME NEW u \in Threads, th'[u].pc \in {"store_in", "store_out"}
      PROVE  th'[u].refs = tdirs'[th'[u].dir].refs
  <2>1. CASE u = t
    BY <1>6, <2>1 DEF Around
  <2>2. CASE u # t
    <3>1. th'[u] = th[u] /\ th[u].pc \in Around
      BY <1>6, <2>2 DEF Around
    <3>2. /\ th[u].dir # d /\ th[u].dir \in 1 .. Len(tdirs)'
          /\ th[u].refs = tdirs[th[u].dir].refs
      BY <1>1, <1>2, <1>6, <2>2, <3>1 DEF CountSound
    <3>3. QED
      BY <3>1, <3>2
  <2>3. QED
    BY <2>1, <2>2
<1>7. \A u, v \in Threads : th'[u].pc \in Around /\ th'[v].pc \in Around /\ th'[u].dir = th'[v].dir => u = v
  BY DEF CountSound
<1>8. QED
  BY <1>3, <1>4, <1>5, <1>6, <1>7 DEF CountSound

LEMMA CountFind ==
  ASSUME TypeInv, CountSound, NEW t \in {Main, Cmd}, init_topdir(t), ~ raced'
  PROVE  CountSound'
<1>1. /\ th[t].pc = "find" /\ t \in Threads
      /\ UNCHANGED <<file, topdir, ft, tdirs>>
  BY ConstantTypes DEF init_topdir, At, nvim, bdata
<1>2. PICK b \in Bufs : b = th[t].num
  BY <1>1, AtWork DEF Resting
<1>3. th \in [Threads -> ThRecs(Len(tdirs))] /\ th[t] \in ThRecs(Len(tdirs)) /\ Len(tdirs) \in Nat
  BY <1>1, ThreadTypes DEF TypeInv
<1>4. CASE check_open_topdirs(b) = {}
  <2>1. Apart(t)
    BY <1>1, <1>2, <1>4, ApartGoto DEF init_topdir, Pcs, Around
  <2>2. QED
    BY <1>1, <2>1, CountMove DEF Apart
<1>5. CASE check_open_topdirs(b) # {}
  <2>1. PICK d \in check_open_topdirs(b) : /\ th' = [th EXCEPT ![t].pc = "count_in", ![t].dir = d]
                                           /\ raced' = (raced \/ Counting(t, d))
    BY <1>2, <1>5 DEF init_topdir
  <2>2. d \in 1 .. Len(tdirs) /\ Alive(d) /\ Suits(d, b)
    BY FoundDir
  <2>3. /\ \A u \in Threads \ {t} : th'[u] = th[u]
        /\ th'[t].pc = "count_in" /\ th'[t].dir = d /\ th'[t].num = b
    BY <1>1, <1>2, <1>3, <2>1 DEF ThRecs
  <2>4. \A u \in Threads \ {t} : th[u].pc \in Around => th[u].dir # d
    BY <2>1 DEF Counting, Around
  <2>5. Alive(d)' /\ Suits(d, b)' /\ \A c \in Bufs : topdir[c] = d => Suits(d, c)'
    BY <1>1, <2>2 DEF Alive, Suits, Base, Recurse, CountSound
  <2>6. tdirs[d].refs = Cardinality(Users(d)')
    BY <1>1, <2>2 DEF CountSound, Users
  <2>7. QED
    BY <1>1, <1>2, <1>3, <2>2, <2>3, <2>4, <2>5, <2>6, CountAt
<1>6. QED
  BY <1>4, <1>5

(* A thread reads the count of its directory.                              *)
LEMMA CountRead ==
  ASSUME TypeInv, CountSound, NEW t \in Threads, CountIn(t) \/ CountOut(t)
  PROVE  CountSound' /\ Alive(th[t].dir) /\ UNCHANGED undefined
<1>1. /\ th[t].pc \in {"count_in", "count_out"}
      /\ UNCHANGED <<file, topdir, ft, tdirs>>
  BY DEF CountIn, CountOut, At, nvim, bdata
<1>2. PICK b \in Bufs : b = th[t].num
  BY <1>1, AtWork DEF Resting
<1>3. /\ th \in [Threads -> ThRecs(Len(tdirs))] /\ th[t] \in ThRecs(Len(tdirs)) /\ Placed(t)
      /\ Len(tdirs) \in Nat
  BY ThreadTypes DEF TypeInv, Sound
<1>4. PICK d \in 1 .. Len(tdirs) : d = th[t].dir
  BY <1>1, <1>3 DEF TypeInv, Sound, ThreadSound, Around, ThRecs
<1>5. Alive(d) /\ Suits(d, b)
  BY <1>1, <1>2, <1>3, <1>4 DEF CountSound, Placed, Leaving
<1>6. PICK p \in {"store_in", "store_out"} : th' = [th EXCEPT ![t].pc = p, ![t].refs = tdirs[d].refs]
  BY <1>4, <1>5 DEF CountIn, CountOut, At
<1>7. /\ \A u \in Threads \ {t} : th'[u] = th[u]
      /\ th'[t].pc = p /\ th'[t].dir = d /\ th'[t].num = b /\ th'[t].refs = tdirs[d].refs
  BY <1>2, <1>3, <1>4, <1>6 DEF ThRecs
<1>8. \A u \in Threads \ {t} : th[u].pc \in Around => th[u].dir # d
  BY <1>1, <1>4 DEF CountSound, Around
<1>9. Alive(d)' /\ Suits(d, b)' /\ \A c \in Bufs : topdir[c] = d => Suits(d, c)'
  BY <1>1, <1>5 DEF Alive, Suits, Base, Recurse, CountSound
<1>10. tdirs[d].refs = Cardinality(Users(d)')
  BY <1>1, <1>5 DEF CountSound, Users
<1>11. CountSound'
  BY <1>1, <1>2, <1>3, <1>7, <1>8, <1>9, <1>10, CountAt
<1>12. UNCHANGED undefined
  BY <1>4, <1>5 DEF CountIn, CountOut
<1>13. QED
  BY <1>4, <1>5, <1>11, <1>12


(* What a thread works with is not freed.                                  *)
LEMMA AliveDir ==
  ASSUME TypeInv, CountSound, NEW t \in Threads, th[t].pc \notin Resting \cup {"open", "find", "create"}
  PROVE  th[t].dir \in 1 .. Len(tdirs) /\ Alive(th[t].dir)
<1>1. /\ th[t].num \in Bufs /\ Placed(t) /\ ThreadSound(t) /\ th[t].pc \in Pcs
      /\ th[t].dir \in 0 .. Len(tdirs) /\ Len(tdirs) \in Nat
  BY AtWork, ThreadTypes DEF TypeInv
<1>2. CASE th[t].pc \in {"count_in", "store_in"}
  BY <1>1, <1>2 DEF CountSound, ThreadSound, Around
<1>3. CASE th[t].pc \notin {"count_in", "store_in"}
  <2>1. th[t].pc \in Joined \cup Using \cup Leaving
    BY <1>1, <1>3 DEF Joined, Using, Leaving, Pcs, Resting
  <2>2. QED
    BY <1>1, <2>1 DEF CountSound, Placed
<1>4. QED
  BY <1>2, <1>3

(* A buffer more, or one less.                                             *)
LEMMA UsersFinite ==
  ASSUME NEW d
  PROVE  /\ IsFiniteSet(Users(d)) /\ Cardinality(Users(d)) \in Nat
         /\ \A b \in Bufs : b \in Users(d) <=> topdir[b] = d
<1>1. Users(d) \subseteq Bufs
  BY DEF Users
<1>2. QED
  BY <1>1, BufsAssumption, FS_Subset, FS_CardinalityType DEF Users

LEMMA CountStoreIn ==
  ASSUME TypeInv, CountSound, NEW t \in {Main, Cmd}, StoreIn(t)
  PROVE  CountSound'
<1>1. /\ th[t].pc = "store_in" /\ t \in Threads
      /\ UNCHANGED <<file, ft>>
  BY ConstantTypes DEF StoreIn, At, nvim
<1>2. PICK b \in Bufs : b = th[t].num
  BY <1>1, AtWork DEF Resting
<1>3. PICK d \in 1 .. Len(tdirs) : d = th[t].dir
  BY <1>1, AliveDir DEF Resting
<1>4. Alive(d) /\ Suits(d, b) /\ th[t].refs = tdirs[d].refs
  BY <1>1, <1>2, <1>3 DEF CountSound
<1>5. tdirs' = [tdirs EXCEPT ![d].refs = th[t].refs + 1] /\ topdir' = [topdir EXCEPT ![b] = d]
  BY <1>2, <1>3, <1>4 DEF StoreIn
<1>6. /\ Len(tdirs)' = Len(tdirs) /\ Len(tdirs) \in Nat
      /\ tdirs'[d].refs = tdirs[d].refs + 1 /\ tdirs'[d].base = tdirs[d].base /\ tdirs'[d].ftid = tdirs[d].ftid
      /\ \A e \in (1 .. Len(tdirs)) \ {d} : tdirs'[e] = tdirs[e]
  <2> DEFINE x == [tdirs[d] EXCEPT !.refs = tdirs[d].refs + 1]
  <2>1. tdirs \in Seq(DirRecs) /\ tdirs[d] \in DirRecs
    BY DirTypes DEF TypeInv, TypeOK
  <2>2. x \in DirRecs /\ x.refs = tdirs[d].refs + 1 /\ x.base = tdirs[d].base /\ x.ftid = tdirs[d].ftid
    BY <2>1 DEF DirRecs
  <2>3. tdirs' = [tdirs EXCEPT ![d] = x]
    BY <1>4, <1>5
  <2> HIDE DEF x
  <2>4. QED
    BY <2>1, <2>2, <2>3, ExceptSeq, LenProperties
<1>7. topdir[b] = 0 /\ topdir'[b] = d /\ \A c \in Bufs \ {b} : topdir'[c] = topdir[c]
  BY <1>1, <1>2, <1>5 DEF TypeInv, TypeOK, Sound, Placed, Opening
<1>8. /\ \A u \in Threads \ {t} : th'[u] = th[u]
      /\ th'[t].pc = "filetype"
  <2>1. th \in [Threads -> ThRecs(Len(tdirs))] /\ th[t] \in ThRecs(Len(tdirs))
    BY <1>1, ThreadTypes DEF TypeInv
  <2>2. QED
    BY <1>1, <1>3, <1>4, <2>1 DEF StoreIn, ThRecs
<1>9. \A u \in Threads \ {t} : th[u].pc \in Around => th[u].dir # d
  BY <1>1, <1>3 DEF CountSound, Around
<1>10. Alive(d)' /\ \A c \in Bufs : topdir'[c] = d => Suits(d, c)'
  <2>1. \A c \in Bufs : topdir'[c] = d => Suits(d, c)
    BY <1>4, <1>7 DEF CountSound
  <2>2. QED
    BY <1>1, <1>4, <1>6, <2>1 DEF Alive, Suits, Base, Recurse
<1>11. tdirs'[d].refs = Cardinality(Users(d)')
  <2>1. Users(d)' = Users(d) \cup {b}
    BY <1>7 DEF Users
  <2>2. b \notin Users(d) /\ IsFiniteSet(Users(d))
    BY <1>7, UsersFinite
  <2>3. Cardinality(Users(d) \cup {b}) = Cardinality(Users(d)) + 1
    BY <2>2, FS_AddElement
  <2>4. QED
    BY <1>4, <1>6, <2>1, <2>3 DEF CountSound
<1>12. QED
  BY <1>1, <1>6, <1>7, <1>8, <1>9, <1>10, <1>11, CountAt DEF Around

LEMMA CountCreate ==
  ASSUME TypeInv, CountSound, NEW t \in {Main, Cmd}, CreateDir(t)
  PROVE  CountSound'
<1>1. /\ th[t].pc = "create" /\ t \in Threads
      /\ UNCHANGED <<file, ft>>
  BY ConstantTypes DEF CreateDir, At, nvim
<1>2. PICK b \in Bufs : b = th[t].num
  BY <1>1, AtWork DEF Resting
<1>3. Len(tdirs) \in Nat /\ \A u \in Threads : th[u].dir \in 0 .. Len(tdirs)
  BY ThreadTypes DEF TypeInv
<1>4. PICK d \in Nat : d = Len(tdirs) + 1
  BY <1>3
<1>5. /\ Len(tdirs)' = d /\ \A e \in 1 .. Len(tdirs) : tdirs'[e] = tdirs[e]
      /\ tdirs'[d].base = Base(b) /\ tdirs'[d].ftid = ft[b] /\ tdirs'[d].refs = 1
  BY <1>2, <1>4, TypeCreate
<1>6. topdir \in [Bufs -> 0 .. Len(tdirs)] /\ topdir' = [topdir EXCEPT ![b] = d]
  BY <1>2, <1>4 DEF CreateDir, TypeInv, TypeOK
<1>7. topdir[b] = 0 /\ topdir'[b] = d /\ \A c \in Bufs \ {b} : topdir'[c] = topdir[c] /\ topdir[c] # d
  <2>1. topdir[b] = 0
    BY <1>1, <1>2 DEF TypeInv, Sound, Placed, Opening
  <2>2. QED
    BY <1>3, <1>4, <1>6, <2>1
<1>8. /\ \A u \in Threads \ {t} : th'[u] = th[u]
      /\ th'[t].pc = "filetype"
  <2>1. th \in [Threads -> ThRecs(Len(tdirs))] /\ th[t] \in ThRecs(Len(tdirs))
    BY <1>1, ThreadTypes DEF TypeInv
  <2>2. QED
    BY <1>1, <2>1 DEF CreateDir, ThRecs
<1>9. \A u \in Threads \ {t} : th[u].dir # d
  BY <1>3, <1>4
<1>10. Alive(d)' /\ \A c \in Bufs : topdir'[c] = d => Suits(d, c)'
  <2>1. Base(b) # None
    BY BaseType, ConstantTypes DEF TypeInv
  <2>2. QED
    BY <1>1, <1>5, <1>7, <2>1 DEF Alive, Suits, Base, Recurse
<1>11. tdirs'[d].refs = Cardinality(Users(d)')
  <2>1. Users(d)' = {b}
    BY <1>7 DEF Users
  <2>2. QED
    BY <1>5, <2>1, FS_Singleton
<1>12. \A e \in 1 .. Len(tdirs)' : e # d => e \in 1 .. Len(tdirs) /\ tdirs'[e] = tdirs[e]
  BY <1>3, <1>4, <1>5
<1>13. d \in 1 .. Len(tdirs)' /\ Len(tdirs) <= Len(tdirs)'
  BY <1>3, <1>4, <1>5
<1>14. QED
  BY <1>1, <1>5, <1>7, <1>8, <1>9, <1>10, <1>11, <1>12, <1>13, CountAt DEF Around

LEMMA CountUnlist ==
  ASSUME TypeInv, CountSound, NEW t \in Threads, Unlist(t), ~ raced'
  PROVE  CountSound'
<1>1. /\ th[t].pc = "unlist" /\ Goto(t, "count_out")
      /\ UNCHANGED <<file, topdir, ft, tdirs>>
  BY DEF Unlist, At, nvim
<1>2. PICK d \in 1 .. Len(tdirs) : d = th[t].dir
  BY <1>1, AliveDir DEF Resting
<1>3. th \in [Threads -> ThRecs(Len(tdirs))] /\ th[t] \in ThRecs(Len(tdirs)) /\ Len(tdirs) \in Nat
  BY ThreadTypes DEF TypeInv
<1>4. /\ \A u \in Threads \ {t} : th'[u] = th[u]
      /\ th'[t].pc = "count_out" /\ th'[t].dir = d
  BY <1>1, <1>2, <1>3 DEF Goto, ThRecs
<1>5. \A u \in Threads \ {t} : th[u].pc \in Around => th[u].dir # d
  BY <1>2 DEF Unlist, Counting, Around
<1>6. \A c \in Bufs : topdir[c] = d => Alive(d)' /\ Suits(d, c)'
  BY <1>1 DEF Alive, Suits, Base, Recurse, CountSound
<1>7. Alive(d)' => tdirs[d].refs = Cardinality(Users(d)')
  BY <1>1 DEF CountSound, Users, Alive
<1>8. QED
  BY <1>1, <1>3, <1>4, <1>5, <1>6, <1>7, CountAt

LEMMA CountStoreOut ==
  ASSUME TypeInv, CountSound, NEW t \in Threads, StoreOut(t)
  PROVE  CountSound'
<1>1. /\ th[t].pc = "store_out"
      /\ UNCHANGED <<file, ft>>
  BY DEF StoreOut, At, nvim
<1>2. PICK b \in Bufs : b = th[t].num
  BY <1>1, AtWork DEF Resting
<1>3. PICK d \in 1 .. Len(tdirs) : d = th[t].dir /\ Alive(d)
  BY <1>1, AliveDir DEF Resting
<1>4. th[t].refs = tdirs[d].refs /\ tdirs[d].refs \in Nat /\ tdirs[d].refs = Cardinality(Users(d))
  BY <1>1, <1>3, DirTypes DEF CountSound, TypeInv
<1>5. topdir[b] = d /\ topdir' = [topdir EXCEPT ![b] = 0] /\ topdir \in [Bufs -> 0 .. Len(tdirs)]
  BY <1>1, <1>2, <1>3 DEF StoreOut, TypeInv, TypeOK, Sound, Placed, Leaving
<1>6. topdir'[b] = 0 /\ \A c \in Bufs \ {b} : topdir'[c] = topdir[c]
  BY <1>5
<1>7. PICK x \in DirRecs :
           /\ tdirs' = [tdirs EXCEPT ![d] = x]
           /\ \/ x = Gone /\ th[t].refs = 1
              \/ /\ x.refs = th[t].refs - 1 /\ th[t].refs # 1
                 /\ x.base = tdirs[d].base /\ x.ftid = tdirs[d].ftid
  BY <1>3, Counted
<1>8. /\ Len(tdirs)' = Len(tdirs) /\ Len(tdirs) \in Nat /\ tdirs'[d] = x
      /\ \A e \in (1 .. Len(tdirs)) \ {d} : tdirs'[e] = tdirs[e]
  <2>1. tdirs \in Seq(DirRecs)
    BY DEF TypeInv, TypeOK
  <2>2. QED
    BY <1>7, <2>1, ExceptSeq, LenProperties
<1>9. /\ \A u \in Threads \ {t} : th'[u] = th[u]
      /\ th'[t].pc \in {"open", "idle"}
  <2>1. th \in [Threads -> ThRecs(Len(tdirs))]
    BY ThreadTypes DEF TypeInv
  <2> DEFINE r == IF t = Cmd THEN [Idle EXCEPT !.pc = "open", !.num = b] ELSE Idle
  <2>2. r.pc \in {"open", "idle"}
    BY DEF Idle
  <2>3. th' = [th EXCEPT ![t] = r]
    BY <1>2, <1>3 DEF StoreOut
  <2> HIDE DEF r
  <2>4. QED
    BY <2>1, <2>2, <2>3
<1>10. \A u \in Threads \ {t} : th[u].pc \in Around => th[u].dir # d
  BY <1>1, <1>3 DEF CountSound, Around
<1>11. Users(d)' = Users(d) \ {b} /\ Cardinality(Users(d)') = Cardinality(Users(d)) - 1
  <2>1. Users(d)' = Users(d) \ {b}
    BY <1>3, <1>6 DEF Users
  <2>2. b \in Users(d) /\ IsFiniteSet(Users(d))
    BY <1>5, UsersFinite
  <2>3. QED
    BY <2>1, <2>2, FS_RemoveElement
<1>12. CASE x = Gone /\ th[t].refs = 1
  <2>1. ~ Alive(d)'
    BY <1>8, <1>12 DEF Alive, Gone
  <2>2. \A c \in Bufs : topdir'[c] # d
    <3>1. IsFiniteSet(Users(d) \ {b}) /\ Cardinality(Users(d) \ {b}) = 0
      BY <1>4, <1>11, <1>12, UsersFinite, FS_RemoveElement
    <3>2. Users(d) \ {b} = {}
      BY <3>1, FS_EmptySet
    <3>3. QED
      BY <1>11, <3>2 DEF Users
  <2>3. QED
    BY <1>1, <1>5, <1>6, <1>8, <1>9, <1>10, <2>1, <2>2, CountAt DEF Around
<1>13. CASE ~ (x = Gone /\ th[t].refs = 1)
  <2>1. x.refs = th[t].refs - 1 /\ x.base = tdirs[d].base /\ x.ftid = tdirs[d].ftid
    BY <1>7, <1>13
  <2>2. tdirs'[d].refs = Cardinality(Users(d)')
    BY <1>4, <1>8, <1>11, <2>1
  <2>3. Alive(d)' /\ \A c \in Bufs : topdir'[c] = d => Suits(d, c)'
    <3>1. \A c \in Bufs : topdir'[c] = d => Suits(d, c)
      BY <1>6 DEF CountSound
    <3>2. QED
      BY <1>1, <1>3, <1>8, <2>1, <3>1 DEF Alive, Suits, Base, Recurse
  <2>4. QED
    BY <1>1, <1>5, <1>6, <1>8, <1>9, <1>10, <2>2, <2>3, CountAt DEF Around
<1>14. QED
  BY <1>12, <1>13


(* What taking the first tags of a buffer does to the directories.         *)
LEMMA InitialTags ==
  ASSUME TypeInv, NEW t \in {Main, Cmd}, get_initial_taglist(t), ~ UNCHANGED tdirs
  PROVE  /\ th[t].dir \in 1 .. Len(tdirs) /\ Alive(th[t].dir)
         /\ \E v \in Versions : tdirs' = [tdirs EXCEPT ![th[t].dir].tags = Tags(v, FALSE)]
<1>1. th[t].pc = "tags" /\ t \in Threads
  BY ConstantTypes DEF get_initial_taglist, At
<1>2. Placed(t) /\ Len(tdirs) \in Nat /\ th[t] \in ThRecs(Len(tdirs))
  BY <1>1, AtWork DEF Resting
<1>3. PICK d \in 1 .. Len(tdirs) : d = th[t].dir
  BY <1>1, <1>2 DEF Placed, Using, ThRecs
<1>4. Alive(d) /\ \E v \in Versions \cup {cache[Key(d)]} : tdirs' = [tdirs EXCEPT ![d].tags = Tags(v, FALSE)]
               /\ (v \notin Versions => cache[Key(d)] # None)
  BY <1>3, ConstantTypes DEF get_initial_taglist
<1>5. cache[Key(d)] \in Versions \cup {None}
  BY <1>4, KeyType DEF TypeInv, TypeOK
<1>6. PICK v \in Versions : tdirs' = [tdirs EXCEPT ![d].tags = Tags(v, FALSE)]
  BY <1>4, <1>5
<1>7. QED
  BY <1>3, <1>4, <1>6

(* Tags come and go, counts stay.                                          *)
LEMMA CountTags ==
  ASSUME TypeInv, NEW t \in {Main, Cmd}, get_initial_taglist(t) \/ update_taglist(t)
  PROVE  /\ Len(tdirs)' = Len(tdirs)
         /\ \A d \in 1 .. Len(tdirs) : /\ tdirs'[d].base = tdirs[d].base
                                       /\ tdirs'[d].ftid = tdirs[d].ftid
                                       /\ tdirs'[d].refs = tdirs[d].refs
                                       /\ tdirs'[d].listed = tdirs[d].listed
                                       /\ tdirs'[d].path = tdirs[d].path
<1>1. CASE UNCHANGED tdirs
  BY <1>1
<1>2. CASE get_initial_taglist(t) /\ ~ UNCHANGED tdirs
  <2>1. PICK v \in Versions : tdirs' = [tdirs EXCEPT ![th[t].dir].tags = Tags(v, FALSE)]
    BY <1>2, InitialTags
  <2>2. QED
    BY <1>2, <2>1, InitialTags, TagsType, TagsReplaced DEF NewTags
<1>3. CASE update_taglist(t) /\ ~ UNCHANGED tdirs
  <2>1. th[t].pc \in Using /\ Alive(th[t].dir)
    BY <1>3 DEF update_taglist, At, Using
  <2>2. PICK v \in Versions : tdirs' = [tdirs EXCEPT ![th[t].dir].tags = Tags(v, th[t].run = "forced")]
    BY <1>3, <2>1, RunDone
  <2>3. (th[t].run = "forced") \in BOOLEAN
    OBVIOUS
  <2>4. QED
    BY <2>1, <2>2, <2>3, AtUpdate, TagsType, TagsReplaced DEF NewTags
<1>4. QED
  BY <1>1, <1>2, <1>3

LEMMA CountApart ==
  ASSUME TypeInv, CountSound, NEW t \in {Main, Cmd},
         \/ init_filetype(t) \/ LockFiletypes(t) \/ FillFiletype(t) \/ get_initial_lines(t) \/ get_initial_taglist(t)
         \/ run_ctags_pipe(t) \/ update_highlight(t) \/ Search(t) \/ Found(t) \/ NothingFound(t)
  PROVE  CountSound'
<1>1. Apart(t) /\ t \in Threads
  BY ApartOpens, ApartUpdates, ConstantTypes
<1>2. UNCHANGED <<file, topdir, ft>>
  BY DEF init_filetype, LockFiletypes, FillFiletype, get_initial_lines, get_initial_taglist,
         run_ctags_pipe, update_highlight, Search, Found, NothingFound, nvim, bdata
<1>3. CASE UNCHANGED tdirs
  BY <1>1, <1>2, <1>3, CountMove DEF Apart
<1>4. CASE get_initial_taglist(t)
  BY <1>1, <1>2, <1>4, CountTags, CountMove DEF Apart
<1>5. QED
  BY <1>3, <1>4
     DEF init_filetype, LockFiletypes, FillFiletype, get_initial_lines,
         run_ctags_pipe, update_highlight, Search, Found, NothingFound, bdata

LEMMA CountTaglist ==
  ASSUME TypeInv, CountSound, NEW t \in {Main, Cmd}, update_taglist(t)
  PROVE  CountSound'
<1>1. /\ th[t].pc = "running" /\ t \in Threads
      /\ UNCHANGED <<file, topdir, ft>>
  BY ConstantTypes DEF update_taglist, At, nvim, bdata
<1>2. Alive(th[t].dir)
  BY <1>1, AliveDir DEF Resting
<1>3. /\ \A u \in Threads \ {t} : th'[u] = th[u] \/ th'[u].pc = "searching"
      /\ th'[t].pc \in {"update", "search", "ctags"}
  <2>1. /\ \A u \in Threads \ {t} : /\ th'[u] = th[u] \/ th'[u] = [th[u] EXCEPT !.freed = TRUE]
                                    /\ th[u].pc # "searching" => th'[u] = th[u]
        /\ th'[t].pc \in {"update", "search", "ctags"}
    BY <1>2, RunDone
  <2>2. \A u \in Threads : th[u] \in ThRecs(Len(tdirs))
    BY ThreadTypes DEF TypeInv
  <2>3. QED
    <3>1. ASSUME NEW u \in Threads \ {t}, th'[u] # th[u]
          PROVE  th'[u].pc = "searching"
      <4>1. th[u].pc = "searching" /\ th'[u] = [th[u] EXCEPT !.freed = TRUE] /\ th[u] \in ThRecs(Len(tdirs))
        BY <2>1, <2>2, <3>1
      <4>2. QED
        BY <4>1 DEF ThRecs
    <3>2. QED
      BY <2>1, <3>1
<1>4. \A u \in Threads : th'[u].pc \in Around => th'[u] = th[u]
  BY <1>3 DEF Around
<1>5. QED
  BY <1>1, <1>4, CountTags, CountFrame

LEMMA CountStep == TypeInv /\ CountInv /\ [Next]_vars => CountInv'
<1> SUFFICES ASSUME TypeInv, CountInv, [Next]_vars, ~ raced' PROVE CountSound'
  BY DEF CountInv
<1>1. CountSound
  BY HistoryGrows DEF CountInv
<1>2. CASE UNCHANGED vars
  BY <1>1, <1>2, CountFrame DEF vars, nvim, bdata
<1>3. CASE User \/ (\E i \in 1 .. Len(toNvim) : Execute(i)) \/ \E k \in Kinds : Take(k)
  BY <1>1, <1>3, CountNvim DEF User
<1>4. ASSUME NEW t \in {Main, Cmd}, Opens(t)
      PROVE  CountSound'
  BY <1>1, <1>4, CountOpen, CountFind, CountRead, CountStoreIn, CountCreate, CountApart, ConstantTypes DEF Opens
<1>5. ASSUME NEW t \in {Main, Cmd}, Updates(t)
      PROVE  CountSound'
  BY <1>1, <1>5, CountApart, CountTaglist DEF Updates
<1>6. ASSUME NEW t \in Threads, Destroys(t)
      PROVE  CountSound'
  <2>1. CASE clear_highlight(t)
    <3>1. UNCHANGED <<file, topdir, ft, tdirs>> /\ Goto(t, "unlist")
      BY <2>1 DEF clear_highlight, bdata
    <3>2. Apart(t)
      BY <3>1, ApartGoto DEF Pcs, Around
    <3>3. QED
      BY <1>1, <3>1, <3>2, CountMove DEF Apart
  <2>2. QED
    BY <1>1, <1>6, <2>1, CountUnlist, CountRead, CountStoreOut DEF Destroys
<1>7. QED
  BY <1>2, <1>3, <1>4, <1>5, <1>6 DEF Next

LEMMA CountInit == Init => CountSound
<1> SUFFICES ASSUME Init PROVE CountSound
  OBVIOUS
<1>1. topdir = [b \in Bufs |-> 0] /\ Len(tdirs) = 0
  BY DEF Init
<1>2. \A t \in Threads : th[t].pc \in {"open", "idle"}
  BY DEF Init, Idle
<1>3. QED
  BY <1>1, <1>2 DEF CountSound, Around

LEMMA CountAlways == Spec => [](TypeInv /\ CountInv)
<1>1. Init => CountInv
  BY CountInit DEF CountInv
<1>2. QED
  BY <1>1, TypeInit, TypeStep, CountStep, PTL DEF Spec


-----------------------------------------------------------------------------
(* Who works alone.                                                        *)
LEMMA OpensOnward ==
  ASSUME TypeInv, NEW t \in {Main, Cmd}, Opens(t) \/ Updates(t)
  PROVE  /\ Onward(t) /\ t \in Threads /\ th[t].pc \notin Resting
         /\ \A u \in Threads \ {t} : /\ th'[u] = th[u] \/ th'[u] = [th[u] EXCEPT !.freed = TRUE]
                                     /\ th[u].pc # "searching" => th'[u] = th[u]
<1>1. /\ t \in Threads /\ th[t].pc \notin Resting
      /\ th \in [Threads -> ThRecs(Len(tdirs))] /\ th[t] \in ThRecs(Len(tdirs))
  BY ThreadTypes, ConstantTypes
     DEF TypeInv, Opens, Updates, Open, init_topdir, CountIn, StoreIn, CreateDir, init_filetype, LockFiletypes,
         FillFiletype, get_initial_lines, get_initial_taglist, run_ctags_pipe, update_taglist, update_highlight,
         Search, Found, NothingFound, At, Resting
<1>2. CASE \/ init_filetype(t) \/ LockFiletypes(t) \/ FillFiletype(t) \/ get_initial_lines(t)
           \/ get_initial_taglist(t) \/ run_ctags_pipe(t) \/ update_highlight(t)
           \/ Search(t) \/ Found(t) \/ NothingFound(t)
  BY <1>1, <1>2, ApartOpens, ApartUpdates DEF Apart
<1>3. CASE UNCHANGED th /\ th[t].pc \in {"count_in", "store_in", "running"}
  BY <1>1, <1>3 DEF Onward, Leaving
<1>4. CASE Open(t)
  BY <1>1, <1>4 DEF Open, Goto, Onward, Leaving, ThRecs
<1>5. CASE init_topdir(t)
  <2>1. CASE Goto(t, "create")
    BY <1>1, <1>5, <2>1 DEF init_topdir, At, Goto, Onward, Leaving, ThRecs
  <2>2. CASE \E d \in 1 .. Len(tdirs) : th' = [th EXCEPT ![t].pc = "count_in", ![t].dir = d]
    BY <1>1, <2>2 DEF Onward, Leaving, ThRecs
  <2>3. QED
    BY <1>5, <2>1, <2>2 DEF init_topdir, check_open_topdirs
<1>6. CASE CountIn(t)
  BY <1>1, <1>3, <1>6 DEF CountIn, At, Onward, Leaving, ThRecs
<1>7. CASE StoreIn(t)
  BY <1>1, <1>3, <1>7 DEF StoreIn, At, Onward, Leaving, ThRecs
<1>8. CASE CreateDir(t)
  BY <1>1, <1>8 DEF CreateDir, Onward, Leaving, ThRecs
<1>9. CASE update_taglist(t)
  <2>1. CASE Alive(th[t].dir)
    <3>1. /\ th'[t].pc \in {"update", "search", "ctags"} /\ th'[t].freed = th[t].freed
          /\ \A u \in Threads \ {t} : /\ th'[u] = th[u] \/ th'[u] = [th[u] EXCEPT !.freed = TRUE]
                                      /\ th[u].pc # "searching" => th'[u] = th[u]
      BY <1>9, <2>1, RunDone
    <3>2. QED
      BY <1>1, <3>1 DEF Onward, Leaving
  <2>2. CASE ~ Alive(th[t].dir)
    BY <1>3, <1>9, <2>2 DEF update_taglist, At
  <2>3. QED
    BY <2>1, <2>2
<1>10. QED
  BY <1>2, <1>4, <1>5, <1>6, <1>7, <1>8, <1>9 DEF Opens, Updates

LEMMA AloneStep == TypeInv /\ Alone /\ [Next]_vars => Alone'
<1> SUFFICES ASSUME TypeInv, Alone, [Next]_vars, ~ Early PROVE Alone'
  BY DEF Alone
<1>1. /\ th[Main].pc \notin {"idle", "clear", "unlist"} \cup Leaving
      /\ th[Main].pc # "gone" => /\ th[Cmd].pc = "idle"
                                 /\ \A k \in Kinds : waiting[k] = 0
                                 /\ \A b \in Bufs : th[b].pc = "idle"
  BY DEF Alone
<1>2. /\ Main \in Threads /\ Cmd \in Threads /\ Main # Cmd /\ Main \notin Bufs /\ Cmd \notin Bufs
      /\ Bufs \subseteq Threads /\ th \in [Threads -> ThRecs(Len(tdirs))]
  BY ConstantTypes, ThreadTypes DEF TypeInv
<1>3. CASE UNCHANGED <<waiting, th>>
  BY <1>1, <1>3 DEF Alone
<1>4. CASE th'[Main] = th[Main] /\ th[Main].pc = "gone"
  BY <1>1, <1>4 DEF Alone, Leaving
<1>5. CASE User
  <2>1. th[Main].pc = "gone"
    BY <1>5 DEF User, At
  <2>2. th'[Main] = th[Main]
    BY <1>2, <1>5 DEF User, EnterBuffer, DeleteBuffer, AddBuffer, WriteFile, ForceUpdate, SetFiletype
  <2>3. QED
    BY <1>4, <2>1, <2>2
<1>6. ASSUME NEW k \in Kinds, Take(k)
      PROVE  Alone'
  <2>1. th[Main].pc = "gone"
    BY <1>1, <1>6 DEF Take
  <2>2. th'[Main] = th[Main]
    <3>1. event_buffer_changed \/ event_syntax_changed \/ event_want_update \/ event_force_update
      BY <1>6, Zenon DEF Take, Kinds
    <3>2. UNCHANGED th \/ \E p, n : Begin(p, n)
      BY <3>1 DEF event_buffer_changed, event_syntax_changed, event_want_update, event_force_update
    <3>3. QED
      BY <1>2, <3>2 DEF Begin
  <2>3. QED
    BY <1>4, <2>1, <2>2
<1>7. ASSUME NEW t \in {Main, Cmd}, Opens(t) \/ Updates(t)
      PROVE  Alone'
  <2>1. /\ Onward(t) /\ th[t].pc \notin Resting
        /\ \A u \in Threads \ {t} : th[u].pc # "searching" => th'[u] = th[u]
    BY <1>7, OpensOnward
  <2>2. CASE t = Main
    <3>1. th[Main].pc # "gone"
      BY <2>1, <2>2 DEF Resting
    <3>2. th'[Cmd] = th[Cmd] /\ \A b \in Bufs : th'[b] = th[b]
      BY <1>1, <1>2, <2>1, <2>2, <3>1
    <3>3. UNCHANGED waiting
      BY <1>7 DEF Opens, Updates, Open, init_topdir, CountIn, StoreIn, CreateDir, init_filetype, LockFiletypes,
             FillFiletype, get_initial_lines, get_initial_taglist, run_ctags_pipe, update_taglist,
             update_highlight, Search, Found, NothingFound
    <3>4. QED
      BY <1>1, <1>2, <2>1, <2>2, <3>1, <3>2, <3>3 DEF Alone, Onward
  <2>3. CASE t = Cmd
    <3>1. th[Main].pc = "gone"
      BY <1>1, <2>1, <2>3 DEF Resting
    <3>2. QED
      BY <1>2, <1>4, <2>1, <2>3, <3>1
  <2>4. QED
    BY <2>2, <2>3
<1>8. ASSUME NEW t \in Threads, Destroys(t)
      PROVE  Alone'
  <2>1. th[t].pc \in {"clear", "unlist"} \cup Leaving
    BY <1>8 DEF Destroys, clear_highlight, Unlist, CountOut, StoreOut, At, Leaving
  <2>2. t # Main /\ th[Main].pc = "gone"
    BY <1>1, <1>2, <2>1 DEF Threads, Leaving
  <2>3. \A u \in Threads \ {t} : th'[u] = th[u]
    BY <1>2, <1>8 DEF Destroys, clear_highlight, Unlist, CountOut, StoreOut, Goto
  <2>4. QED
    BY <1>2, <1>4, <2>2, <2>3
<1>9. QED
  BY <1>3, <1>5, <1>6, <1>7, <1>8 DEF Next, vars, Execute


-----------------------------------------------------------------------------
(* One directory for the same files.                                       *)
LEMMA KeysFrame ==
  ASSUME TypeInv, ~ Early, ~ raced, KeysInv, UNCHANGED file, Len(tdirs)' = Len(tdirs),
         \A d \in 1 .. Len(tdirs) :
           \/ ~ Alive(d)' /\ ~ tdirs'[d].listed
           \/ /\ tdirs'[d].base = tdirs[d].base /\ tdirs'[d].ftid = tdirs[d].ftid
              /\ tdirs'[d].path = tdirs[d].path /\ tdirs'[d].listed = tdirs[d].listed,
         \A t \in Threads : th'[t].pc = "create" =>
           /\ th[t].pc = "create" /\ th'[t].num = th[t].num /\ ft'[th[t].num] = ft[th[t].num]
  PROVE  KeysInv'
<1>1. \A t \in Threads : th[t].pc = "create" => check_open_topdirs(th[t].num) = {}
  BY DEF KeysInv
<1>2. \A d, e \in 1 .. Len(tdirs) : Alive(d) /\ Alive(e) /\ Key(d) = Key(e) => d = e
  BY DEF KeysInv
<1>3. ASSUME NEW t \in Threads, th'[t].pc = "create"
      PROVE  check_open_topdirs(th[t].num)' = {}
  <2>1. check_open_topdirs(th[t].num) = {} /\ th'[t].num = th[t].num /\ ft'[th[t].num] = ft[th[t].num]
    BY <1>1, <1>3
  <2>2. ASSUME NEW d \in 1 .. Len(tdirs), tdirs'[d].listed, tdirs'[d].ftid = ft'[th'[t].num],
               tdirs'[d].path = Base(th[t].num)'
        PROVE  FALSE
    <3>1. Base(th[t].num)' = Base(th[t].num)
      BY <2>1 DEF Base, Recurse
    <3>2. d \in check_open_topdirs(th[t].num)
      BY <2>1, <2>2, <3>1 DEF check_open_topdirs
    <3>3. QED
      BY <2>1, <3>2
  <2>3. QED
    BY <2>2 DEF check_open_topdirs
<1>4. ASSUME NEW d \in 1 .. Len(tdirs)', NEW e \in 1 .. Len(tdirs)', Alive(d)', Alive(e)', Key(d)' = Key(e)'
      PROVE  d = e
  BY <1>2, <1>4 DEF Alive, Key
<1>5. QED
  BY <1>3, <1>4 DEF KeysInv

(* The new directory is for files nobody has one for.                      *)
LEMMA NewKey ==
  ASSUME TypeInv, CountSound, NEW b \in Bufs, topdir[b] = 0, check_open_topdirs(b) = {},
         NEW d \in 1 .. Len(tdirs), Alive(d), tdirs[d].base = Base(b), tdirs[d].ftid = ft[b]
  PROVE  FALSE
<1>1. /\ DirSound(d) /\ tdirs[d].listed /\ tdirs[d].path \in Dirs
      /\ tdirs[d].refs # 0 /\ tdirs[d].refs = Cardinality(Users(d))
  BY DEF TypeInv, DirSound, CountSound
<1>2. CASE file[b] \notin NoRecurse
  <2>1. tdirs[d].base \in Dirs
    BY <1>2, BaseType DEF TypeInv
  <2>2. tdirs[d].path \notin NoRecurse
    <3>1. \A x \in NoRecurse \X Bufs : x \notin Dirs
      BY DirsAssumption, NoRecurseAssumption
    <3>2. QED
      BY <1>1, <2>1, <3>1 DEF DirSound
  <2>3. tdirs[d].path = Base(b)
    BY <1>1, <2>2 DEF DirSound
  <2>4. QED
    BY <1>1, <2>3 DEF check_open_topdirs
<1>3. CASE file[b] \in NoRecurse
  <2>1. PICK c \in Bufs : topdir[c] = d
    <3>1. Users(d) # {}
      BY <1>1, FS_EmptySet
    <3>2. QED
      BY <3>1 DEF Users
  <2>2. tdirs[d].base = Base(c)
    BY <2>1 DEF CountSound, Suits
  <2>3. Base(c) = <<file[b], b>> /\ Base(c) \notin Dirs
    BY <1>3, <2>2, BaseType DEF TypeInv
  <2>4. Base(c) = <<file[c], c>>
    BY <2>3, BaseType DEF TypeInv
  <2>5. c = b
    BY <2>3, <2>4
  <2>6. QED
    BY <2>1, <2>5
<1>4. QED
  BY <1>2, <1>3

LEMMA KeysCreate ==
  ASSUME TypeInv, CountSound, Alone, ~ Early, ~ raced, KeysInv, NEW t \in {Main, Cmd}, CreateDir(t)
  PROVE  KeysInv'
<1>1. /\ th[t].pc = "create" /\ t \in Threads
      /\ UNCHANGED <<file, ft>>
  BY ConstantTypes DEF CreateDir, At, nvim
<1>2. PICK b \in Bufs : b = th[t].num
  BY <1>1, AtWork DEF Resting
<1>3. topdir[b] = 0 /\ check_open_topdirs(b) = {} /\ Len(tdirs) \in Nat
  BY <1>1, <1>2, ThreadTypes DEF TypeInv, Sound, Placed, Opening, KeysInv
<1>4. PICK n \in Nat : n = Len(tdirs) + 1
  BY <1>3
<1>5. /\ Len(tdirs)' = n /\ \A e \in 1 .. Len(tdirs) : tdirs'[e] = tdirs[e]
      /\ tdirs'[n].base = Base(b) /\ tdirs'[n].ftid = ft[b]
  BY <1>2, <1>4, TypeCreate
<1>6. \A u \in Threads : th'[u].pc # "create"
  <2>1. /\ \A u \in Threads \ {t} : th[u].pc # "create"
        /\ th \in [Threads -> ThRecs(Len(tdirs))] /\ th[t] \in ThRecs(Len(tdirs))
    <3>1. \A u \in Bufs : th[u].pc # "create"
      BY ConstantTypes DEF TypeInv, Sound, ThreadSound, Leaving
    <3>2. \A u \in {Main, Cmd} \ {t} : th[u].pc # "create"
      BY <1>1 DEF Alone
    <3>3. QED
      BY <1>1, <3>1, <3>2, ThreadTypes DEF Threads, TypeInv
  <2>2. QED
    BY <1>1, <2>1 DEF CreateDir, ThRecs
<1>7. \A d \in 1 .. Len(tdirs) : Alive(d) /\ Key(d) = <<Base(b), ft[b]>> => FALSE
  BY <1>3, NewKey DEF Key
<1>8. ASSUME NEW d \in 1 .. Len(tdirs)', NEW e \in 1 .. Len(tdirs)', Alive(d)', Alive(e)', Key(d)' = Key(e)', d # e
      PROVE  FALSE
  <2>1. CASE d = n
    <3>1. e \in 1 .. Len(tdirs) /\ tdirs'[e] = tdirs[e]
      BY <1>3, <1>4, <1>5, <1>8, <2>1
    <3>2. QED
      BY <1>5, <1>7, <1>8, <2>1, <3>1 DEF Key, Alive
  <2>2. CASE e = n
    <3>1. d \in 1 .. Len(tdirs) /\ tdirs'[d] = tdirs[d]
      BY <1>3, <1>4, <1>5, <1>8, <2>2
    <3>2. QED
      BY <1>5, <1>7, <1>8, <2>2, <3>1 DEF Key, Alive
  <2>3. CASE d # n /\ e # n
    <3>1. /\ d \in 1 .. Len(tdirs) /\ e \in 1 .. Len(tdirs)
          /\ tdirs'[d] = tdirs[d] /\ tdirs'[e] = tdirs[e]
      BY <1>3, <1>4, <1>5, <2>3
    <3>2. QED
      BY <1>8, <3>1 DEF Key, Alive, KeysInv
  <2>4. QED
    BY <2>1, <2>2, <2>3
<1>9. QED
  BY <1>6, <1>8 DEF KeysInv

(* What the user does, and neovim.                                         *)
LEMMA NvimSteps ==
  ASSUME TypeInv, User \/ (\E i \in 1 .. Len(toNvim) : Execute(i)) \/ (\E k \in Kinds : Take(k))
  PROVE  /\ UNCHANGED <<file, open, ft, topdir, tdirs, enabled, ftinit, ftfilled, undefined, raced>>
         /\ \A t \in Threads : \/ th'[t] = th[t]
                               \/ /\ th[t].pc = "idle" /\ ~ th'[t].freed
                                  /\ th'[t].pc \in {"open", "update", "clear"}
<1>1. UNCHANGED <<file, open, ft, topdir, tdirs, enabled, ftinit, ftfilled, undefined, raced>>
  BY DEF User, EnterBuffer, DeleteBuffer, AddBuffer, WriteFile, ForceUpdate, SetFiletype, Execute, Take,
         bdata, nvim, filetypes, history
<1>2. th \in [Threads -> ThRecs(Len(tdirs))] /\ Cmd \in Threads /\ Bufs \subseteq Threads
  BY ThreadTypes, ConstantTypes DEF TypeInv
<1>3. ASSUME NEW n \in Bufs, DeleteBuffer(n), NEW t \in Threads
      PROVE  th'[t] = th[t] \/ (th[t].pc = "idle" /\ ~ th'[t].freed /\ th'[t].pc = "clear")
  <2>1. th[n].pc = "idle"
    <3>1. ThreadSound(n) /\ n \in Threads /\ ~ (th[n].pc # "idle" /\ th[n].num = n)
      BY <1>2, <1>3 DEF DeleteBuffer, Busy, TypeInv, Sound
    <3>2. QED
      BY <3>1 DEF ThreadSound, Resting, Leaving
  <2>2. th' = [th EXCEPT ![n] = [Idle EXCEPT !.pc = "clear", !.num = n, !.dir = topdir[n]]]
    BY <1>3 DEF DeleteBuffer
  <2>3. QED
    BY <1>2, <2>1, <2>2 DEF Idle
<1>4. ASSUME NEW k \in Kinds, Take(k), NEW t \in Threads
      PROVE  \/ th'[t] = th[t]
             \/ th[t].pc = "idle" /\ ~ th'[t].freed /\ th'[t].pc \in {"open", "update", "clear"}
  <2>1. event_buffer_changed \/ event_syntax_changed \/ event_want_update \/ event_force_update
    BY <1>4, Zenon DEF Take, Kinds
  <2>2. UNCHANGED th \/ \E p, n : Begin(p, n) /\ p \in {"open", "update", "clear"}
    BY <2>1 DEF event_buffer_changed, event_syntax_changed, event_want_update, event_force_update
  <2>3. th[Cmd].pc = "idle"
    BY <1>4 DEF Take, At
  <2>4. CASE \E p, n : Begin(p, n) /\ p \in {"open", "update", "clear"}
    BY <1>2, <2>3, <2>4 DEF Begin, Idle
  <2>5. QED
    BY <2>2, <2>4
<1>5. QED
  BY <1>1, <1>3, <1>4 DEF User, EnterBuffer, AddBuffer, WriteFile, ForceUpdate, SetFiletype, Execute

(* What destroying a buffer does to directories and threads.               *)
LEMMA DestroySteps ==
  ASSUME TypeInv, NEW t \in Threads, Destroys(t)
  PROVE  /\ UNCHANGED <<file, ft, enabled, ftinit, ftfilled>> /\ open' \subseteq open
         /\ Len(tdirs)' = Len(tdirs) /\ Len(tdirs) \in Nat
         /\ \A d \in 1 .. Len(tdirs) :
              \/ ~ Alive(d)' /\ ~ tdirs'[d].listed /\ ~ tdirs'[d].tags.forced
              \/ /\ tdirs'[d].base = tdirs[d].base /\ tdirs'[d].ftid = tdirs[d].ftid
                 /\ tdirs'[d].path = tdirs[d].path /\ tdirs'[d].listed = tdirs[d].listed
                 /\ tdirs'[d].tags = tdirs[d].tags
         /\ th[t].pc \in {"clear", "unlist"} \cup Leaving
         /\ th'[t].pc \in {"open", "idle", "clear", "unlist"} \cup Leaving
         /\ th'[t].freed => th[t].freed
         /\ \A u \in Threads \ {t} : th'[u] = th[u]
<1>1. /\ UNCHANGED <<file, ft, enabled, ftinit, ftfilled>> /\ open' \subseteq open
      /\ th[t].pc \in {"clear", "unlist"} \cup Leaving
  BY DEF Destroys, clear_highlight, Unlist, CountOut, StoreOut, nvim, bdata, filetypes, At, Leaving
<1>2. th \in [Threads -> ThRecs(Len(tdirs))] /\ th[t] \in ThRecs(Len(tdirs)) /\ Len(tdirs) \in Nat
  BY ThreadTypes DEF TypeInv
<1>3. /\ Len(tdirs)' = Len(tdirs)
      /\ \A d \in 1 .. Len(tdirs) :
           \/ ~ Alive(d)' /\ ~ tdirs'[d].listed /\ ~ tdirs'[d].tags.forced
           \/ /\ tdirs'[d].base = tdirs[d].base /\ tdirs'[d].ftid = tdirs[d].ftid
              /\ tdirs'[d].path = tdirs[d].path /\ tdirs'[d].listed = tdirs[d].listed
              /\ tdirs'[d].tags = tdirs[d].tags
  <2>1. CASE UNCHANGED tdirs
    BY <2>1
  <2>2. CASE StoreOut(t) /\ ~ UNCHANGED tdirs
    <3>1. Alive(th[t].dir) /\ th[t].pc = "store_out"
      BY <2>2 DEF StoreOut, At
    <3>2. PICK d \in 1 .. Len(tdirs) : d = th[t].dir
      BY <3>1, AtDestroy
    <3>3. PICK x \in DirRecs :
           /\ tdirs' = [tdirs EXCEPT ![d] = x]
           /\ \/ x = Gone
              \/ /\ x.base = tdirs[d].base /\ x.path = tdirs[d].path
                 /\ x.ftid = tdirs[d].ftid /\ x.listed = tdirs[d].listed
                 /\ x.tags = tdirs[d].tags
      BY <2>2, <3>1, <3>2, Counted
    <3>4. /\ Len(tdirs)' = Len(tdirs) /\ tdirs'[d] = x
          /\ \A e \in (1 .. Len(tdirs)) \ {d} : tdirs'[e] = tdirs[e]
      <4>1. tdirs \in Seq(DirRecs)
        BY DEF TypeInv, TypeOK
      <4>2. QED
        BY <3>3, <4>1, ExceptSeq
    <3>5. Gone.base = None /\ ~ Gone.listed /\ ~ Gone.tags.forced
      BY DEF Gone, NoTags
    <3>6. QED
      BY <3>3, <3>4, <3>5 DEF Alive
  <2>3. QED
    BY <2>1, <2>2 DEF Destroys, clear_highlight, Unlist, CountOut
<1>4. /\ th'[t].pc \in {"open", "idle", "clear", "unlist"} \cup Leaving
      /\ th'[t].freed => th[t].freed
      /\ \A u \in Threads \ {t} : th'[u] = th[u]
  <2>1. CASE clear_highlight(t)
    BY <1>2, <2>1 DEF clear_highlight, Goto, ThRecs
  <2>2. CASE Unlist(t)
    BY <1>2, <2>2 DEF Unlist, Goto, ThRecs, Leaving
  <2>3. CASE CountOut(t)
    BY <1>1, <1>2, <2>3 DEF CountOut, ThRecs, Leaving
  <2>4. CASE StoreOut(t)
    <3>1. CASE UNCHANGED th
      BY <1>1, <3>1
    <3>2. CASE ~ UNCHANGED th
      <4> DEFINE r == IF t = Cmd THEN [Idle EXCEPT !.pc = "open", !.num = th[t].num] ELSE Idle
      <4>1. r.pc \in {"open", "idle"} /\ r.freed = FALSE
        BY DEF Idle
      <4>2. th' = [th EXCEPT ![t] = r]
        BY <2>4, <3>2 DEF StoreOut
      <4> HIDE DEF r
      <4>3. QED
        BY <1>2, <4>1, <4>2
    <3>3. QED
      BY <3>1, <3>2
  <2>5. QED
    BY <2>1, <2>2, <2>3, <2>4 DEF Destroys
<1>5. QED
  BY <1>1, <1>2, <1>3, <1>4


(* Counting a buffer in changes nothing but the count.                     *)
LEMMA StoresIn ==
  ASSUME TypeInv, NEW t \in {Main, Cmd}, StoreIn(t), ~ UNCHANGED tdirs
  PROVE  /\ Len(tdirs)' = Len(tdirs)
         /\ \A d \in 1 .. Len(tdirs) : /\ tdirs'[d].base = tdirs[d].base /\ tdirs'[d].ftid = tdirs[d].ftid
                                       /\ tdirs'[d].path = tdirs[d].path /\ tdirs'[d].listed = tdirs[d].listed
                                       /\ tdirs'[d].tags = tdirs[d].tags
<1>1. /\ tdirs \in Seq(DirRecs) /\ th[t].dir \in 0 .. Len(tdirs) /\ th[t].refs \in Nat
      /\ th[t].pc = "store_in" /\ t \in Threads
  BY ThreadTypes, ConstantTypes DEF TypeInv, TypeOK, StoreIn, At
<1>2. PICK d \in 1 .. Len(tdirs) : d = th[t].dir
  BY <1>1 DEF TypeInv, Sound, ThreadSound, Around
<1> DEFINE x == [tdirs[d] EXCEPT !.refs = th[t].refs + 1]
<1>3. tdirs' = [tdirs EXCEPT ![d] = x]
  BY <1>2 DEF StoreIn
<1>4. /\ x \in DirRecs /\ x.base = tdirs[d].base /\ x.ftid = tdirs[d].ftid
      /\ x.path = tdirs[d].path /\ x.listed = tdirs[d].listed /\ x.tags = tdirs[d].tags
  BY <1>1, DirTypes DEF TypeInv, DirRecs
<1> HIDE DEF x
<1>5. QED
  BY <1>1, <1>3, <1>4, ExceptSeq

LEMMA KeysStep == TypeInv /\ CountInv /\ Alone /\ KeysInv /\ [Next]_vars => KeysInv'
<1> SUFFICES ASSUME TypeInv, CountInv, Alone, KeysInv, [Next]_vars, ~ Early, ~ raced' PROVE KeysInv'
  BY DEF KeysInv
<1>1. ~ raced /\ CountSound
  BY HistoryGrows DEF CountInv
<1>2. CASE UNCHANGED vars
  BY <1>1, <1>2, KeysFrame DEF vars, nvim, bdata
<1>3. CASE User \/ (\E i \in 1 .. Len(toNvim) : Execute(i)) \/ (\E k \in Kinds : Take(k))
  <2>1. \A t \in Threads : th'[t].pc = "create" => th'[t] = th[t]
    BY <1>3, NvimSteps
  <2>2. QED
    BY <1>1, <1>3, <2>1, NvimSteps, KeysFrame
<1>4. ASSUME NEW t \in Threads, Destroys(t)
      PROVE  KeysInv'
  <2>1. \A u \in Threads : th'[u].pc = "create" => th'[u] = th[u]
    BY <1>4, DestroySteps DEF Leaving
  <2>2. QED
    BY <1>1, <1>4, <2>1, DestroySteps, KeysFrame
<1>5. ASSUME NEW t \in {Main, Cmd}, Opens(t) \/ Updates(t)
      PROVE  KeysInv'
  <2>1. /\ Onward(t) /\ t \in Threads /\ th[t].pc \notin Resting
        /\ \A u \in Threads \ {t} : th'[u] = th[u] \/ th'[u] = [th[u] EXCEPT !.freed = TRUE]
    BY <1>5, OpensOnward
  <2>2. \A u \in Threads \ {t} : th'[u].pc = th[u].pc /\ th'[u].num = th[u].num
    <3>1. \A u \in Threads : th[u] \in ThRecs(Len(tdirs))
      BY ThreadTypes DEF TypeInv
    <3>2. QED
      BY <2>1, <3>1 DEF ThRecs
  <2>3. CASE CreateDir(t)
    BY <1>1, <2>3, KeysCreate
  <2>4. CASE Open(t)
    <3>1. /\ th'[t].pc # "create" /\ UNCHANGED <<file, tdirs>>
      BY <2>1, <2>4 DEF Open, At, nvim, Onward
    <3>2. ASSUME NEW u \in Threads \ {t}, th[u].pc = "create"
          PROVE  ft'[th[u].num] = ft[th[u].num]
      <4>1. th[u].num # th[t].num /\ th[u].num \in Bufs
        BY <2>1, <3>2, AtWork DEF TypeInv, Sound, OnePerBuffer, Resting, ThreadSound
      <4>2. QED
        BY <2>4, <4>1 DEF Open, TypeInv, TypeOK
    <3>3. QED
      BY <1>1, <2>2, <3>1, <3>2, KeysFrame
  <2>5. CASE init_topdir(t) /\ th'[t].pc = "create"
    <3>1. UNCHANGED <<file, ft, tdirs>> /\ th[t].pc = "find" /\ check_open_topdirs(th[t].num) = {}
      <4>1. UNCHANGED <<file, ft, tdirs>> /\ th[t].pc = "find"
        BY <2>5 DEF init_topdir, nvim, bdata, At
      <4>2. ASSUME NEW d \in check_open_topdirs(th[t].num), th' = [th EXCEPT ![t].pc = "count_in", ![t].dir = d]
            PROVE  FALSE
        BY <2>1, <2>5, <4>2, ThreadTypes DEF TypeInv, ThRecs
      <4>3. QED
        BY <2>5, <4>1, <4>2 DEF init_topdir
    <3>2. th'[t].num = th[t].num
      <4>1. Goto(t, "create")
        BY <2>5, <3>1 DEF init_topdir
      <4>2. QED
        BY <2>1, <4>1, ThreadTypes DEF TypeInv, Goto, ThRecs
    <3>3. \A u \in Threads : th'[u].pc = "create" => check_open_topdirs(th[u].num) = {} /\ th'[u].num = th[u].num
      BY <1>1, <2>2, <3>1, <3>2 DEF KeysInv
    <3>4. ASSUME NEW u \in Threads, th'[u].pc = "create"
          PROVE  check_open_topdirs(th[u].num)' = {}
      <4>1. PICK b : b = th[u].num /\ th'[u].num = b
        BY <3>3, <3>4
      <4>2. check_open_topdirs(b) = {}
        BY <3>3, <3>4, <4>1
      <4>3. check_open_topdirs(b)' = check_open_topdirs(b)
        BY <3>1 DEF check_open_topdirs, Base, Recurse
      <4>4. QED
        BY <4>1, <4>2, <4>3 DEF check_open_topdirs, Base, Recurse
    <3>5. \A d, e \in 1 .. Len(tdirs)' : Alive(d)' /\ Alive(e)' /\ Key(d)' = Key(e)' => d = e
      BY <1>1, <3>1 DEF KeysInv, Alive, Key
    <3>6. QED
      BY <3>4, <3>5 DEF KeysInv
  <2>6. CASE ~ CreateDir(t) /\ ~ Open(t) /\ ~ (init_topdir(t) /\ th'[t].pc = "create")
    <3>1. th'[t].pc # "create"
      BY <1>5, <2>1, <2>6
         DEF Onward, Opens, Updates, CountIn, StoreIn, init_filetype, LockFiletypes,
             FillFiletype, get_initial_lines, get_initial_taglist, run_ctags_pipe, update_taglist, update_highlight,
             Search, Found, NothingFound, At
    <3>2. UNCHANGED <<file, ft>>
      BY <1>5, <2>6
         DEF Opens, Updates, init_topdir, CountIn, StoreIn, init_filetype, LockFiletypes,
             FillFiletype, get_initial_lines, get_initial_taglist, run_ctags_pipe, update_taglist, update_highlight,
             Search, Found, NothingFound, nvim, bdata
    <3>3. /\ Len(tdirs)' = Len(tdirs)
          /\ \A d \in 1 .. Len(tdirs) : /\ tdirs'[d].base = tdirs[d].base /\ tdirs'[d].ftid = tdirs[d].ftid
                                        /\ tdirs'[d].path = tdirs[d].path /\ tdirs'[d].listed = tdirs[d].listed
      <4>1. CASE UNCHANGED tdirs
        BY <4>1
      <4>2. CASE get_initial_taglist(t) \/ update_taglist(t)
        BY <4>2, CountTags
      <4>3. CASE StoreIn(t) /\ ~ UNCHANGED tdirs
        BY <4>3, StoresIn
      <4>4. QED
        BY <1>5, <2>6, <4>1, <4>2, <4>3
           DEF Opens, Updates, init_topdir, CountIn, init_filetype, LockFiletypes, FillFiletype, get_initial_lines,
               run_ctags_pipe, update_highlight, Search, Found, NothingFound, bdata
    <3>4. QED
      BY <1>1, <2>2, <3>1, <3>2, <3>3, KeysFrame
  <2>7. QED
    BY <2>3, <2>4, <2>5, <2>6
<1>6. QED
  BY <1>2, <1>3, <1>4, <1>5 DEF Next

LEMMA AloneInit == Init => Alone
<1> SUFFICES ASSUME Init PROVE Alone
  OBVIOUS
<1>1. waiting = [k \in Kinds |-> 0]
  BY DEF Init
<1>2. th[Main].pc = "open" /\ th[Cmd].pc = "idle" /\ \A b \in Bufs : th[b].pc = "idle"
  BY ConstantTypes DEF Init, Idle
<1>3. QED
  BY <1>1, <1>2 DEF Alone, Leaving

LEMMA KeysAlways == Spec => [](TypeInv /\ CountInv /\ Alone /\ KeysInv)
<1>1. Init => KeysInv
  <2> SUFFICES ASSUME Init PROVE KeysInv
    OBVIOUS
  <2>1. Len(tdirs) = 0 /\ \A t \in Threads : th[t].pc # "create"
    BY DEF Init, Idle
  <2>2. QED
    BY <2>1 DEF KeysInv
<1>2. Init => CountInv
  BY CountInit DEF CountInv
<1>3. QED
  BY <1>1, <1>2, TypeInit, TypeStep, CountStep, AloneInit, AloneStep, KeysStep, PTL DEF Spec

(* A project directory is counted by exactly the buffers that use it, is   *)
(* never freed while one does, and is open only once: unless one thread    *)
(* counted itself in or out while another was about to, or commands came   *)
(* before neovim_init was done.                                            *)
THEOREM DirsAreCounted == Spec => []DirsCounted
<1>1. TypeInv /\ CountInv /\ KeysInv => DirsCounted
  BY DEF CountInv, CountSound, KeysInv, DirsCounted, Users
<1>2. QED
  BY <1>1, KeysAlways, PTL

-----------------------------------------------------------------------------
(* The data of filetypes.                                                  *)
LEMMA FiletypesFrame ==
  ASSUME FiletypesInv, ~ Early, UNCHANGED <<ftinit, ftfilled>>, open' \subseteq open,
         \A b \in open' : ft'[b] = ft[b],
         \A t \in Threads : th[t].pc \in {"ftlock", "ftfill", "lines"} \/ th'[t].pc \in {"ftlock", "ftfill", "lines"} =>
           th'[t].pc = th[t].pc /\ th'[t].num = th[t].num /\ ft'[th[t].num] = ft[th[t].num]
  PROVE  FiletypesInv'
<1>1. /\ \A t \in Threads : /\ th[t].pc = "ftlock" => ft[th[t].num] \notin ftinit
                            /\ th[t].pc = "ftfill" => ft[th[t].num] \notin ftfilled
                            /\ th[t].pc = "lines" => ft[th[t].num] \in ftfilled
      /\ \A f \in ftinit \ ftfilled : \E t \in Threads : th[t].pc = "ftfill" /\ ft[th[t].num] = f
      /\ \A b \in open : ft[b] \in ftfilled
  BY DEF FiletypesInv
<1>2. ASSUME NEW t \in Threads
      PROVE  /\ th'[t].pc = "ftlock" => ft'[th'[t].num] \notin ftinit'
             /\ th'[t].pc = "ftfill" => ft'[th'[t].num] \notin ftfilled'
             /\ th'[t].pc = "lines" => ft'[th'[t].num] \in ftfilled'
  BY <1>1
<1>3. ASSUME NEW f \in ftinit' \ ftfilled'
      PROVE  \E t \in Threads : th'[t].pc = "ftfill" /\ ft'[th'[t].num] = f
  <2>1. PICK t \in Threads : th[t].pc = "ftfill" /\ ft[th[t].num] = f
    BY <1>1, <1>3
  <2>2. QED
    BY <2>1
<1>4. \A b \in open' : ft'[b] \in ftfilled'
  BY <1>1
<1>5. QED
  BY <1>2, <1>3, <1>4 DEF FiletypesInv

(* The other threads are about no filetype.                                *)
LEMMA AloneAt ==
  ASSUME TypeInv, Alone, ~ Early, NEW t \in {Main, Cmd}, th[t].pc \notin Resting
  PROVE  /\ t \in Threads
         /\ \A u \in Threads \ {t} : th[u].pc \in {"idle", "gone", "clear", "unlist"} \cup Leaving
         /\ \A u \in {Main, Cmd} \ {t} : th[u].pc \in Resting
<1>1. \A u \in {Main, Cmd} \ {t} : th[u].pc \in Resting
  BY DEF Alone, Resting
<1>2. \A u \in Bufs : th[u].pc \in {"idle", "clear", "unlist"} \cup Leaving
  BY ConstantTypes DEF TypeInv, Sound, ThreadSound
<1>3. QED
  BY <1>1, <1>2, ConstantTypes DEF Threads, Resting

LEMMA FiletypesStep == TypeInv /\ Alone /\ FiletypesInv /\ [Next]_vars => FiletypesInv'
<1> SUFFICES ASSUME TypeInv, Alone, FiletypesInv, [Next]_vars, ~ Early PROVE FiletypesInv'
  BY DEF FiletypesInv
<1>1. /\ \A t \in Threads : /\ th[t].pc = "ftlock" => ft[th[t].num] \notin ftinit
                            /\ th[t].pc = "ftfill" => ft[th[t].num] \notin ftfilled
                            /\ th[t].pc = "lines" => ft[th[t].num] \in ftfilled
      /\ \A f \in ftinit \ ftfilled : \E t \in Threads : th[t].pc = "ftfill" /\ ft[th[t].num] = f
      /\ \A b \in open : ft[b] \in ftfilled
  BY DEF FiletypesInv
<1>2. CASE UNCHANGED vars
  BY <1>2, FiletypesFrame DEF vars, nvim, bdata, filetypes
<1>3. CASE User \/ (\E i \in 1 .. Len(toNvim) : Execute(i)) \/ (\E k \in Kinds : Take(k))
  <2>1. \A t \in Threads : th[t].pc \in {"ftlock", "ftfill", "lines"} \/ th'[t].pc \in {"ftlock", "ftfill", "lines"} =>
                             th'[t] = th[t]
    BY <1>3, NvimSteps
  <2>2. QED
    BY <1>3, <2>1, NvimSteps, FiletypesFrame
<1>4. ASSUME NEW t \in Threads, Destroys(t)
      PROVE  FiletypesInv'
  <2>1. \A u \in Threads : th[u].pc \in {"ftlock", "ftfill", "lines"} \/ th'[u].pc \in {"ftlock", "ftfill", "lines"} =>
                             th'[u] = th[u]
    BY <1>4, DestroySteps DEF Leaving
  <2>2. QED
    BY <1>4, <2>1, DestroySteps, FiletypesFrame
<1>5. ASSUME NEW t \in {Main, Cmd}, Opens(t) \/ Updates(t)
      PROVE  FiletypesInv'
  <2>1. /\ Onward(t) /\ t \in Threads /\ th[t].pc \notin Resting
        /\ \A u \in Threads \ {t} : th[u].pc # "searching" => th'[u] = th[u]
    BY <1>5, OpensOnward
  <2>2. \A u \in Threads \ {t} : /\ th'[u] = th[u]
                                 /\ th'[u].pc \notin {"ftlock", "ftfill", "lines"}
    BY <2>1, AloneAt DEF Leaving
  <2>3. PICK b \in Bufs : b = th[t].num
    BY <2>1, AtWork
  <2>4. /\ th \in [Threads -> ThRecs(Len(tdirs))] /\ th[t] \in ThRecs(Len(tdirs))
        /\ open \subseteq Bufs /\ ft \in [Bufs -> Types \cup {None}] /\ ft[b] \in Types \cup {None}
    BY <2>1, ThreadTypes DEF TypeInv, TypeOK
  <2>5. CASE th[t].pc \notin {"filetype", "ftlock", "ftfill", "lines"}
    <3>1. /\ \A u \in Threads : th'[u].pc \notin {"ftlock", "ftfill", "lines"}
          /\ \A u \in Threads : th[u].pc \notin {"ftlock", "ftfill", "lines"}
      BY <2>1, <2>2, <2>5 DEF Onward
    <3>2. UNCHANGED <<ftinit, ftfilled, open>>
      BY <1>5, <2>5
         DEF Opens, Updates, Open, init_topdir, CountIn, StoreIn, CreateDir, init_filetype, LockFiletypes,
             FillFiletype, get_initial_lines, get_initial_taglist, run_ctags_pipe, update_taglist, update_highlight,
             Search, Found, NothingFound, bdata, filetypes, At
    <3>3. \A c \in open : ft'[c] = ft[c]
      <4>1. CASE Open(t)
        <5>1. b \notin open
          BY <2>1, <2>3, <4>1 DEF Open, At, TypeInv, Sound, Placed, Opening
        <5>2. QED
          BY <2>3, <2>4, <4>1, <5>1 DEF Open
      <4>2. CASE ~ Open(t)
        BY <1>5, <4>2
           DEF Opens, Updates, init_topdir, CountIn, StoreIn, CreateDir, init_filetype, LockFiletypes,
               FillFiletype, get_initial_lines, get_initial_taglist, run_ctags_pipe, update_taglist, update_highlight,
               Search, Found, NothingFound, bdata
      <4>3. QED
        BY <4>1, <4>2
    <3>4. QED
      BY <3>1, <3>2, <3>3, FiletypesFrame
  <2>6. CASE init_filetype(t)
    <3>1. UNCHANGED <<ft, ftinit, ftfilled, open>> /\ th[t].pc = "filetype"
      BY <2>6 DEF init_filetype, bdata, filetypes, At
    <3>2. th'[t].num = b /\ th'[t].pc = IF ft[b] \in ftinit THEN "lines" ELSE "ftlock"
      BY <2>1, <2>3, <2>4, <2>6 DEF init_filetype, Goto, ThRecs
    <3>3. ftinit \ ftfilled = {}
      BY <1>1, <2>2, <3>1
    <3>4. QED
      BY <1>1, <2>2, <3>1, <3>2, <3>3 DEF FiletypesInv
  <2>7. CASE LockFiletypes(t)
    <3>1. UNCHANGED <<ft, ftfilled, open>> /\ ftinit' = ftinit \cup {ft[b]} /\ th[t].pc = "ftlock"
      BY <2>3, <2>7 DEF LockFiletypes, bdata, At
    <3>2. th'[t].num = b /\ th'[t].pc = "ftfill"
      BY <2>1, <2>3, <2>4, <2>7 DEF LockFiletypes, Goto, ThRecs
    <3>3. ft[b] \notin ftfilled
      BY <1>1, <2>1, <2>3, <3>1 DEF TypeInv, TypeOK
    <3>4. ftinit \ ftfilled = {}
      BY <1>1, <2>2, <3>1
    <3>5. \A f \in ftinit' \ ftfilled' : \E u \in Threads : th'[u].pc = "ftfill" /\ ft'[th'[u].num] = f
      BY <2>1, <3>1, <3>2, <3>4
    <3>6. QED
      BY <1>1, <2>2, <3>1, <3>2, <3>3, <3>5 DEF FiletypesInv
  <2>8. CASE FillFiletype(t)
    <3>1. UNCHANGED <<ft, ftinit, open>> /\ ftfilled' = ftfilled \cup {ft[b]} /\ th[t].pc = "ftfill"
      BY <2>3, <2>8 DEF FillFiletype, bdata, At
    <3>2. th'[t].num = b /\ th'[t].pc = "lines"
      BY <2>1, <2>3, <2>4, <2>8 DEF FillFiletype, Goto, ThRecs
    <3>3. ftinit' \ ftfilled' = {}
      BY <1>1, <2>2, <2>3, <3>1
    <3>4. QED
      BY <1>1, <2>2, <3>1, <3>2, <3>3 DEF FiletypesInv
  <2>9. CASE get_initial_lines(t)
    <3>1. UNCHANGED <<ft, ftinit, ftfilled>> /\ open' = open \cup {b} /\ th[t].pc = "lines"
      BY <2>3, <2>9 DEF get_initial_lines, filetypes, At
    <3>2. th'[t].pc = "tags"
      BY <2>1, <2>4, <2>9 DEF get_initial_lines, Goto, ThRecs
    <3>3. ftinit \ ftfilled = {}
      BY <1>1, <2>2, <3>1
    <3>4. ft[b] \in ftfilled
      BY <1>1, <2>1, <2>3, <3>1
    <3>5. QED
      BY <1>1, <2>2, <3>1, <3>2, <3>3, <3>4 DEF FiletypesInv
  <2>10. QED
    BY <1>5, <2>5, <2>6, <2>7, <2>8, <2>9
       DEF Opens, Updates, Open, init_topdir, CountIn, StoreIn, CreateDir, get_initial_taglist,
           run_ctags_pipe, update_taglist, update_highlight, Search, Found, NothingFound, At
<1>6. QED
  BY <1>2, <1>3, <1>4, <1>5 DEF Next

-----------------------------------------------------------------------------
(* The tags of directories.                                                *)
LEMMA TagsFrame ==
  ASSUME TagsInv, ~ Early, UNCHANGED enabled,
         \A d \in 1 .. Len(tdirs)' : tdirs'[d].tags.forced => d \in 1 .. Len(tdirs) /\ tdirs[d].tags.forced,
         \A t \in Threads : \/ th'[t] = th[t]
                            \/ /\ ~ th'[t].freed /\ th'[t].pc \notin {"searching", "running"}
                               /\ th[t].pc \notin {"ctags", "running"},
         {Main, Cmd} \subseteq Threads
  PROVE  TagsInv'
<1>1. /\ \A t \in Threads : /\ ~ th[t].freed /\ (th[t].pc = "searching" => ~ th[t].forced)
                            /\ th[t].pc = "running" => enabled
      /\ \A d \in 1 .. Len(tdirs) : tdirs[d].tags.forced =>
           enabled /\ \E t \in {Main, Cmd} : /\ th[t].pc \in {"ctags", "running"}
                                             /\ th[t].run = "second" /\ th[t].dir = d
  BY DEF TagsInv
<1>2. ASSUME NEW t \in Threads
      PROVE  /\ ~ th'[t].freed /\ (th'[t].pc = "searching" => ~ th'[t].forced)
             /\ th'[t].pc = "running" => enabled'
  BY <1>1
<1>3. ASSUME NEW d \in 1 .. Len(tdirs)', tdirs'[d].tags.forced
      PROVE  enabled' /\ \E t \in {Main, Cmd} : /\ th'[t].pc \in {"ctags", "running"}
                                                /\ th'[t].run = "second" /\ th'[t].dir = d
  <2>1. PICK t \in {Main, Cmd} : /\ th[t].pc \in {"ctags", "running"}
                                 /\ th[t].run = "second" /\ th[t].dir = d
    BY <1>1, <1>3
  <2>2. th'[t] = th[t]
    BY <2>1
  <2>3. QED
    BY <1>1, <1>3, <2>1, <2>2
<1>4. QED
  BY <1>2, <1>3 DEF TagsInv

(* A thread works alone, and the tags that are there were not forced.      *)
LEMMA TagsSettled ==
  ASSUME ~ Early, {Main, Cmd} \subseteq Threads, UNCHANGED enabled,
         \A d \in 1 .. Len(tdirs)' : ~ tdirs'[d].tags.forced,
         \A t \in Threads : /\ ~ th'[t].freed /\ (th'[t].pc = "searching" => ~ th'[t].forced)
                            /\ th'[t].pc = "running" => enabled
  PROVE  TagsInv'
  BY DEF TagsInv

LEMMA TagsRun ==
  ASSUME TypeInv, Alone, ~ Early, TagsInv, NEW t \in {Main, Cmd}, run_ctags_pipe(t)
  PROVE  TagsInv'
<1>1. /\ th[t].pc = "ctags" /\ UNCHANGED <<tdirs, enabled>>
  BY DEF run_ctags_pipe, At
<1>2. t \in Threads /\ th \in [Threads -> ThRecs(Len(tdirs))] /\ th[t] \in ThRecs(Len(tdirs))
  BY ThreadTypes, ConstantTypes DEF TypeInv
<1>3. /\ \A u \in Threads : /\ ~ th[u].freed /\ (th[u].pc = "searching" => ~ th[u].forced)
                            /\ th[u].pc = "running" => enabled
      /\ \A d \in 1 .. Len(tdirs) : tdirs[d].tags.forced =>
           enabled /\ \E u \in {Main, Cmd} : /\ th[u].pc \in {"ctags", "running"}
                                             /\ th[u].run = "second" /\ th[u].dir = d
  BY DEF TagsInv
<1>4. CASE enabled
  <2>1. th' = [th EXCEPT ![t].pc = "running", ![t].ver = version]
    BY <1>4 DEF run_ctags_pipe
  <2>2. /\ th'[t].pc = "running" /\ th'[t].run = th[t].run /\ th'[t].dir = th[t].dir /\ th'[t].freed = th[t].freed
        /\ \A u \in Threads \ {t} : th'[u] = th[u]
    BY <1>2, <2>1 DEF ThRecs
  <2>3. \A u \in {Main, Cmd} : th[u].pc \in {"ctags", "running"} =>
           th'[u].pc \in {"ctags", "running"} /\ th'[u].run = th[u].run /\ th'[u].dir = th[u].dir
    BY <2>2, ConstantTypes
  <2>4. \A d \in 1 .. Len(tdirs)' : tdirs'[d].tags.forced =>
           enabled' /\ \E u \in {Main, Cmd} : /\ th'[u].pc \in {"ctags", "running"}
                                              /\ th'[u].run = "second" /\ th'[u].dir = d
    BY <1>1, <1>3, <2>3
  <2>5. \A u \in Threads : /\ ~ th'[u].freed /\ (th'[u].pc = "searching" => ~ th'[u].forced)
                           /\ th'[u].pc = "running" => enabled'
    BY <1>1, <1>2, <1>3, <1>4, <2>2
  <2>6. QED
    BY <2>4, <2>5 DEF TagsInv
<1>5. CASE ~ enabled
  <2>1. PICK r \in ThRecs(Len(tdirs)) :
           /\ th' = [th EXCEPT ![t] = r] /\ r.freed = th[t].freed
           /\ r.pc \in {"update", "search", "ctags"}
    BY <1>2, <1>5, ProceedsTo DEF run_ctags_pipe, TypeInv
  <2>2. \A u \in Threads : /\ ~ th'[u].freed /\ (th'[u].pc = "searching" => ~ th'[u].forced)
                           /\ th'[u].pc = "running" => enabled
    BY <1>2, <1>3, <2>1
  <2>3. QED
    BY <1>1, <1>3, <1>5, <2>2, TagsSettled, ConstantTypes
<1>6. QED
  BY <1>4, <1>5

LEMMA TagsTaglist ==
  ASSUME TypeInv, Alone, ~ Early, TagsInv, NEW t \in {Main, Cmd}, update_taglist(t), Alive(th[t].dir)
  PROVE  TagsInv'
<1>1. /\ th[t].pc = "running" /\ UNCHANGED enabled /\ t \in Threads
  BY ConstantTypes DEF update_taglist, At
<1>2. PICK d \in 1 .. Len(tdirs) : d = th[t].dir
  BY <1>1, AtUpdate DEF Using
<1>3. /\ \A u \in Threads : /\ ~ th[u].freed /\ (th[u].pc = "searching" => ~ th[u].forced)
                            /\ th[u].pc = "running" => enabled
      /\ \A e \in 1 .. Len(tdirs) : tdirs[e].tags.forced =>
           enabled /\ \E u \in {Main, Cmd} : /\ th[u].pc \in {"ctags", "running"}
                                             /\ th[u].run = "second" /\ th[u].dir = e
  BY DEF TagsInv
<1>4. \A u \in Threads \ {t} : th[u].pc \in {"idle", "gone", "clear", "unlist"} \cup Leaving
  BY <1>1, AloneAt DEF Resting
<1>5. \A e \in (1 .. Len(tdirs)) \ {d} : ~ tdirs[e].tags.forced
  BY <1>2, <1>3, <1>4, ConstantTypes DEF Leaving
<1>6. PICK v \in Versions, r \in ThRecs(Len(tdirs)) :
         /\ tdirs' = [tdirs EXCEPT ![d].tags = Tags(v, th[t].run = "forced")]
         /\ th'[t] = r /\ r.dir = d /\ r.freed = th[t].freed
         /\ r.pc = AfterRun(th[t].run).pc /\ r.run = AfterRun(th[t].run).run
         /\ r.pc \in {"update", "search", "ctags"}
         /\ \A u \in Threads \ {t} : th[u].pc # "searching" => th'[u] = th[u]
  <2>1. PICK v \in Versions, r \in ThRecs(Len(tdirs)) :
           /\ tdirs' = [tdirs EXCEPT ![th[t].dir].tags = Tags(v, th[t].run = "forced")]
           /\ cache' = cache \/ cache' = [cache EXCEPT ![Key(th[t].dir)] = v]
           /\ th' \in [Threads -> ThRecs(Len(tdirs))]
           /\ th'[t] = r /\ r.num = th[t].num /\ r.dir = th[t].dir /\ r.freed = th[t].freed
           /\ r.pc = AfterRun(th[t].run).pc /\ r.run = AfterRun(th[t].run).run
           /\ r.pc \in {"update", "search", "ctags"}
           /\ \A u \in Threads \ {t} : /\ th'[u] = th[u] \/ th'[u] = [th[u] EXCEPT !.freed = TRUE]
                                       /\ th[u].pc # "searching" => th'[u] = th[u]
    BY RunDone, Zenon
  <2>2. tdirs' = [tdirs EXCEPT ![d].tags = Tags(v, th[t].run = "forced")]
    BY <1>2, <2>1
  <2>3. QED
    BY <1>2, <2>1, <2>2
<1>7. \A u \in Threads \ {t} : th'[u] = th[u]
  BY <1>4, <1>6 DEF Leaving
<1>8. PICK f \in BOOLEAN : f = (th[t].run = "forced")
  OBVIOUS
<1>9. /\ Len(tdirs)' = Len(tdirs)
      /\ \A e \in 1 .. Len(tdirs) : tdirs'[e].tags = IF e = d THEN Tags(v, f) ELSE tdirs[e].tags
  BY <1>2, <1>6, <1>8, TagsType, TagsReplaced DEF NewTags
<1>10. Tags(v, f).forced = f
  BY TagsType
<1>11. \A u \in Threads : /\ ~ th'[u].freed /\ (th'[u].pc = "searching" => ~ th'[u].forced)
                          /\ th'[u].pc = "running" => enabled'
  BY <1>1, <1>3, <1>6, <1>7
<1>12. CASE f
  <2>1. r.pc = "ctags" /\ r.run = "second" /\ enabled
    BY <1>1, <1>3, <1>6, <1>8, <1>12 DEF AfterRun
  <2>2. \A e \in 1 .. Len(tdirs)' : tdirs'[e].tags.forced => e = d
    BY <1>5, <1>9
  <2>3. QED
    BY <1>1, <1>6, <1>11, <2>1, <2>2 DEF TagsInv
<1>13. CASE ~ f
  <2>1. \A e \in 1 .. Len(tdirs)' : ~ tdirs'[e].tags.forced
    BY <1>5, <1>9, <1>10, <1>13
  <2>2. QED
    BY <1>1, <1>11, <2>1, TagsSettled, ConstantTypes
<1>14. QED
  BY <1>12, <1>13

LEMMA TagsOnward ==
  ASSUME TypeInv, Alone, ~ Early, TagsInv, NEW t \in {Main, Cmd}, Opens(t) \/ Updates(t),
         ~ run_ctags_pipe(t), ~ update_taglist(t)
  PROVE  TagsInv'
<1>1. /\ Onward(t) /\ t \in Threads /\ th[t].pc \notin Resting
      /\ \A u \in Threads \ {t} : th[u].pc # "searching" => th'[u] = th[u]
  BY OpensOnward
<1>2. \A u \in Threads \ {t} : th[u].pc \in {"idle", "gone", "clear", "unlist"} \cup Leaving
  BY <1>1, AloneAt
<1>3. th[t].pc \notin {"ctags", "running"}
  BY DEF Opens, Updates, Open, init_topdir, CountIn, StoreIn, CreateDir, init_filetype, LockFiletypes,
         FillFiletype, get_initial_lines, get_initial_taglist, update_highlight, Search, Found, NothingFound, At
<1>4. /\ \A u \in Threads : ~ th[u].freed /\ (th[u].pc = "searching" => ~ th[u].forced)
      /\ \A d \in 1 .. Len(tdirs) : ~ tdirs[d].tags.forced
  BY <1>2, <1>3, ConstantTypes DEF TagsInv, Leaving
<1>5. UNCHANGED enabled
  BY DEF Opens, Updates, Open, init_topdir, CountIn, StoreIn, CreateDir, init_filetype, LockFiletypes,
         FillFiletype, get_initial_lines, get_initial_taglist, update_highlight, Search, Found, NothingFound
<1>6. \A d \in 1 .. Len(tdirs)' : ~ tdirs'[d].tags.forced
  <2>1. CASE UNCHANGED tdirs
    BY <1>4, <2>1
  <2>2. CASE get_initial_taglist(t) /\ ~ UNCHANGED tdirs
    <3>1. PICK d \in 1 .. Len(tdirs) :
             Alive(d) /\ \E v \in Versions : tdirs' = [tdirs EXCEPT ![d].tags = Tags(v, FALSE)]
      BY <2>2, InitialTags
    <3>2. PICK g \in TagRecs : ~ g.forced /\ NewTags(d, g)
      BY <3>1, TagsType DEF NewTags
    <3>3. /\ Len(tdirs)' = Len(tdirs)
          /\ \A e \in 1 .. Len(tdirs) : tdirs'[e].tags = IF e = d THEN g ELSE tdirs[e].tags
      BY <3>1, <3>2, TagsReplaced
    <3>4. QED
      BY <1>4, <3>2, <3>3
  <2>3. CASE StoreIn(t) /\ ~ UNCHANGED tdirs
    BY <1>4, <2>3, StoresIn
  <2>4. CASE CreateDir(t)
    <3>1. PICK n \in Nat : n = Len(tdirs) + 1 /\ Len(tdirs) \in Nat
      BY ThreadTypes DEF TypeInv
    <3>2. /\ Len(tdirs)' = n /\ \A e \in 1 .. Len(tdirs) : tdirs'[e] = tdirs[e]
          /\ tdirs'[n].tags = NoTags
      BY <2>4, <3>1, TypeCreate
    <3>3. ~ NoTags.forced
      BY DEF NoTags
    <3>4. \A e \in 1 .. n : e = n \/ e \in 1 .. Len(tdirs)
      BY <3>1
    <3>5. QED
      BY <1>4, <3>2, <3>3, <3>4
  <2>5. QED
    BY <2>1, <2>2, <2>3, <2>4
       DEF Opens, Updates, Open, init_topdir, CountIn, init_filetype, LockFiletypes, FillFiletype,
           get_initial_lines, update_highlight, Search, Found, NothingFound, bdata
<1>7. th'[t].pc = "searching" => ~ th'[t].forced
  <2>1. CASE Search(t) /\ ~ UNCHANGED th
    <3>1. /\ th[t].dir \in 1 .. Len(tdirs) /\ Alive(th[t].dir)
          /\ th' = [th EXCEPT ![t].pc = "searching", ![t].ver = tdirs[th[t].dir].tags.ver,
                              ![t].forced = tdirs[th[t].dir].tags.forced]
      <4>1. th[t].pc \in Using
        BY <2>1 DEF Search, At, Using
      <4>2. QED
        BY <2>1, <4>1, AtUpdate DEF Search
    <3>2. th'[t].forced = tdirs[th[t].dir].tags.forced
      BY <1>1, <3>1, ThreadTypes DEF TypeInv, ThRecs
    <3>3. QED
      BY <1>4, <3>1, <3>2
  <2>2. CASE UNCHANGED th
    BY <1>1, <1>4, <2>2
  <2>3. CASE ~ Search(t) /\ ~ UNCHANGED th
    <3>1. th[t].pc # "search"
      BY <2>3 DEF Opens, Updates, Open, init_topdir, CountIn, StoreIn, CreateDir, init_filetype, LockFiletypes,
         FillFiletype, get_initial_lines, get_initial_taglist, update_highlight, Search, Found, NothingFound, At
    <3>2. QED
      BY <1>1, <1>3, <1>4, <3>1 DEF Onward
  <2>4. QED
    BY <2>1, <2>2, <2>3
<1>8. th'[t].pc # "running"
  <2>1. CASE Search(t)
    BY <1>1, <2>1, ThreadTypes DEF Search, At, TypeInv, ThRecs
  <2>2. CASE ~ Search(t)
    <3>1. th[t].pc # "search"
      BY <2>2 DEF Opens, Updates, Open, init_topdir, CountIn, StoreIn, CreateDir, init_filetype, LockFiletypes,
         FillFiletype, get_initial_lines, get_initial_taglist, update_highlight, Search, Found, NothingFound, At
    <3>2. QED
      BY <1>1, <1>3, <3>1 DEF Onward
  <2>3. QED
    BY <2>1, <2>2
<1>9. \A u \in Threads : /\ ~ th'[u].freed /\ (th'[u].pc = "searching" => ~ th'[u].forced)
                         /\ th'[u].pc = "running" => enabled
  BY <1>1, <1>2, <1>4, <1>7, <1>8 DEF Onward, Leaving
<1>10. QED
  BY <1>5, <1>6, <1>9, TagsSettled, ConstantTypes

LEMMA TagsStep == TypeInv /\ Alone /\ TagsInv /\ [Next]_vars => TagsInv'
<1> SUFFICES ASSUME TypeInv, Alone, TagsInv, [Next]_vars, ~ Early PROVE TagsInv'
  BY DEF TagsInv
<1>1. {Main, Cmd} \subseteq Threads
  BY ConstantTypes
<1>2. CASE UNCHANGED vars
  BY <1>1, <1>2, TagsFrame DEF vars
<1>3. CASE User \/ (\E i \in 1 .. Len(toNvim) : Execute(i)) \/ (\E k \in Kinds : Take(k))
  <2>1. \A t \in Threads : \/ th'[t] = th[t]
                           \/ /\ ~ th'[t].freed /\ th'[t].pc \notin {"searching", "running"}
                              /\ th[t].pc \notin {"ctags", "running"}
    BY <1>3, NvimSteps
  <2>2. QED
    BY <1>1, <1>3, <2>1, NvimSteps, TagsFrame
<1>4. ASSUME NEW t \in Threads, Destroys(t)
      PROVE  TagsInv'
  <2>1. \A u \in Threads : \/ th'[u] = th[u]
                           \/ /\ ~ th'[u].freed /\ th'[u].pc \notin {"searching", "running"}
                              /\ th[u].pc \notin {"ctags", "running"}
    BY <1>4, DestroySteps DEF Leaving, TagsInv
  <2>2. \A d \in 1 .. Len(tdirs)' : tdirs'[d].tags.forced => d \in 1 .. Len(tdirs) /\ tdirs[d].tags.forced
    BY <1>4, DestroySteps
  <2>3. QED
    BY <1>1, <1>4, <2>1, <2>2, DestroySteps, TagsFrame
<1>5. ASSUME NEW t \in {Main, Cmd}, Opens(t) \/ Updates(t)
      PROVE  TagsInv'
  <2>1. CASE update_taglist(t) /\ ~ Alive(th[t].dir)
    <3>1. UNCHANGED <<th, tdirs, enabled>>
      BY <2>1 DEF update_taglist
    <3>2. QED
      BY <1>1, <3>1, TagsFrame
  <2>2. QED
    BY <1>5, <2>1, TagsRun, TagsTaglist, TagsOnward
<1>6. QED
  BY <1>2, <1>3, <1>4, <1>5 DEF Next

-----------------------------------------------------------------------------
(* What threads use.                                                       *)
LEMMA UseStep == TypeInv /\ CountInv /\ FiletypesInv /\ TagsInv /\ UseInv /\ [Next]_vars => UseInv'
<1> SUFFICES ASSUME TypeInv, CountInv, FiletypesInv, TagsInv, UseInv, [Next]_vars, ~ Early, ~ raced'
             PROVE  undefined' = None
  BY DEF UseInv
<1>1. ~ raced /\ CountSound /\ undefined = None
  BY HistoryGrows DEF CountInv, UseInv
<1>2. CASE UNCHANGED undefined
  BY <1>1, <1>2
<1>3. CASE User \/ (\E i \in 1 .. Len(toNvim) : Execute(i)) \/ (\E k \in Kinds : Take(k))
  BY <1>2, <1>3, NvimSteps
<1>4. ASSUME NEW t \in Threads, Destroys(t)
      PROVE  undefined' = None
  <2>1. CASE clear_highlight(t) \/ Unlist(t)
    BY <1>2, <2>1 DEF clear_highlight, Unlist
  <2>2. CASE CountOut(t)
    BY <1>1, <1>2, <2>2, CountRead
  <2>3. CASE StoreOut(t)
    <3>1. Alive(th[t].dir)
      BY <1>1, <2>3, AliveDir DEF StoreOut, At, Resting
    <3>2. QED
      BY <1>2, <2>3, <3>1 DEF StoreOut
  <2>4. QED
    BY <1>4, <2>1, <2>2, <2>3 DEF Destroys
<1>5. ASSUME NEW t \in {Main, Cmd}, Opens(t) \/ Updates(t)
      PROVE  undefined' = None
  <2>1. t \in Threads /\ th[t].pc \notin Resting
    BY <1>5, OpensOnward
  <2>2. th[t].pc \in {"count_in", "store_in", "tags", "running", "search", "searching"} => Alive(th[t].dir)
    BY <1>1, <2>1, AliveDir DEF Resting
  <2>3. CASE CountIn(t) \/ StoreIn(t) \/ get_initial_taglist(t) \/ update_taglist(t) \/ Search(t)
    BY <1>2, <2>2, <2>3 DEF CountIn, StoreIn, get_initial_taglist, update_taglist, Search, At
  <2>4. CASE FillFiletype(t)
    <3>1. ft[th[t].num] \notin ftfilled
      BY <2>1, <2>4 DEF FillFiletype, At, FiletypesInv
    <3>2. QED
      BY <1>2, <2>4, <3>1 DEF FillFiletype
  <2>5. CASE Found(t) \/ NothingFound(t)
    <3>1. th[t].pc = "searching"
      BY <2>5 DEF Found, NothingFound, At
    <3>2. ~ th[t].freed
      BY <2>1 DEF TagsInv
    <3>3. ft[th[t].num] \in ftfilled
      BY <2>1, <3>1 DEF FiletypesInv, TypeInv, Sound, Placed, Using
    <3>4. QED
      BY <1>2, <2>2, <2>5, <3>1, <3>2, <3>3 DEF Found, NothingFound
  <2>6. QED
    BY <1>2, <1>5, <2>3, <2>4, <2>5
       DEF Opens, Updates, Open, init_topdir, CreateDir, init_filetype, LockFiletypes,
           get_initial_lines, run_ctags_pipe, update_highlight, history
<1>6. QED
  BY <1>2, <1>3, <1>4, <1>5 DEF Next, vars, history

LEMMA UseAlways == Spec => [](TypeInv /\ CountInv /\ Alone /\ FiletypesInv /\ TagsInv /\ UseInv)
<1>1. Init => FiletypesInv /\ TagsInv /\ UseInv
  <2> SUFFICES ASSUME Init PROVE FiletypesInv /\ TagsInv /\ UseInv
    OBVIOUS
  <2>1. Len(tdirs) = 0 /\ undefined = None /\ open = {} /\ ftinit = {}
    BY DEF Init
  <2>2. \A t \in Threads : th[t].pc \in {"open", "idle"} /\ ~ th[t].freed
    BY DEF Init, Idle
  <2>3. QED
    BY <2>1, <2>2 DEF FiletypesInv, TagsInv, UseInv
<1>2. Init => CountInv
  BY CountInit DEF CountInv
<1>3. QED
  BY <1>1, <1>2, TypeInit, TypeStep, CountStep, AloneInit, AloneStep, FiletypesStep, TagsStep, UseStep, PTL
     DEF Spec

(* No thread uses tags, a directory or the data of a filetype that another *)
(* has freed or not yet filled in, and what is searched was never made     *)
(* with the language forced on every file: unless a directory was counted  *)
(* in and out at once, or commands came before neovim_init was done.       *)
THEOREM UseIsSafe == Spec => []UseSafe
<1>1. TypeInv /\ TagsInv /\ UseInv => UseSafe
  BY DEF TagsInv, UseInv, UseSafe, At
<1>2. QED
  BY <1>1, UseAlways, PTL
-----------------------------------------------------------------------------
(* What the current buffer shows.  While a thread searches for a buffer,   *)
(* the buffer has no commands; and when ctags is disabled, none ever has.  *)
Working == {"running", "search", "searching"}
Disabled == /\ \A b \in Bufs : calls[b] = None
            /\ \A d \in 1 .. Len(tdirs) : tdirs[d].tags.ver = 0
            /\ \A k \in Bases \X Types : cache[k] = None
            /\ \A t \in {Main, Cmd} : th[t].pc = "searching" => th[t].ver = 0
CallsInv == Early \/ /\ \A t \in {Main, Cmd} : th[t].pc \in Working => calls[th[t].num] = None
                     /\ enabled \/ Disabled

(* If a thread is about another buffer than the current one, or destroys   *)
(* the current one, the current one is announced.                          *)
ElsewhereInv == \/ waiting["changed"] > 0
                \/ /\ \A t \in {Main, Cmd} : th[t].num \in {None, current}
                   /\ \A b \in Bufs : th[b].num # current

(* Whoever has an outdated filetype is announced, or about to be closed.   *)
Typed == {"find", "create", "count_in", "store_in", "filetype", "ftlock", "ftfill", "lines"}
HasType(b) == b \in open \/ \E t \in {Main, Cmd} : th[t].num = b /\ th[t].pc \in Typed
TypedInv == \A b \in Bufs : \/ ft[b] = type[b]
                            \/ ~ HasType(b)
                            \/ waiting["syntax"] > 0
                            \/ th[Cmd].num = b /\ th[Cmd].pc \in {"clear", "unlist"}

(* What b, if it stays current, shows when every command is executed: what *)
(* the last one of its type says.                                          *)
LastOfType(i, f) == /\ toNvim[i].type = f
                    /\ \A j \in 1 .. Len(toNvim) : toNvim[j].type = f => j <= i
NoneOfType(f) == \A i \in 1 .. Len(toNvim) : toNvim[i].type # f
WillShow(b) == \/ \E i \in 1 .. Len(toNvim) : LastOfType(i, ft[b]) /\ toNvim[i].num = b /\ toNvim[i].ver = calls[b]
               \/ NoneOfType(ft[b]) /\ shown[b][ft[b]] = <<b, calls[b]>>

(* The current buffer is announced, or a thread is about it, or what it is *)
(* to show has been sent.                                                  *)
Attended == waiting["changed"] > 0 \/ \E t \in {Main, Cmd} : th[t].num = current
ShowsInv == current \in open /\ calls[current] # None => Attended \/ WillShow(current)

ShownInv == Early \/ excuses # {} \/ (ElsewhereInv /\ TypedInv /\ ShowsInv)

(* Commands are kept or dropped, but by what has found new ones.           *)
LEMMA CallsKept ==
  ASSUME TypeInv, [Next]_vars, \A t \in {Main, Cmd} : ~ Found(t)
  PROVE  \A b \in Bufs : calls'[b] \in {None, calls[b]}
<1>1. calls \in [Bufs -> Versions \cup {None}]
  BY DEF TypeInv, TypeOK
<1>2. CASE UNCHANGED calls
  BY <1>2
<1>3. CASE \E b \in Bufs : calls' = [calls EXCEPT ![b] = None]
  BY <1>1, <1>3
<1>4. ASSUME NEW t \in {Main, Cmd}, run_ctags_pipe(t)
      PROVE  \A b \in Bufs : calls'[b] \in {None, calls[b]}
  <2>1. th[t].num \in Bufs
    BY <1>4, AtUpdate DEF run_ctags_pipe, At, Using
  <2>2. QED
    BY <1>2, <1>3, <1>4, <2>1 DEF run_ctags_pipe
<1>5. ASSUME NEW t \in Threads, StoreOut(t)
      PROVE  \A b \in Bufs : calls'[b] \in {None, calls[b]}
  <2>1. th[t].num \in Bufs
    BY <1>5, AtDestroy DEF StoreOut, At
  <2>2. QED
    BY <1>2, <1>3, <1>5, <2>1 DEF StoreOut
<1>6. CASE User \/ (\E i \in 1 .. Len(toNvim) : Execute(i)) \/ (\E k \in Kinds : Take(k))
  BY <1>2, <1>6 DEF User, EnterBuffer, DeleteBuffer, AddBuffer, WriteFile, ForceUpdate, SetFiletype, Execute, Take, bdata
<1>7. ASSUME NEW t \in {Main, Cmd}, Opens(t) \/ Updates(t), ~ run_ctags_pipe(t)
      PROVE  UNCHANGED calls
  BY <1>7 DEF Opens, Updates, Open, init_topdir, CountIn, StoreIn, CreateDir, init_filetype, LockFiletypes,
         FillFiletype, get_initial_lines, get_initial_taglist, update_taglist, update_highlight, Search,
         NothingFound, bdata
<1>8. ASSUME NEW t \in Threads, clear_highlight(t) \/ Unlist(t) \/ CountOut(t)
      PROVE  UNCHANGED calls
  BY <1>8 DEF clear_highlight, Unlist, CountOut, bdata
<1>9. QED
  BY <1>2, <1>4, <1>5, <1>6, <1>7, <1>8 DEF Next, Destroys, vars, bdata

LEMMA DroppedStep ==
  ASSUME TypeInv, Alone, CallsInv, [Next]_vars, ~ Early
  PROVE  \A t \in {Main, Cmd} : th'[t].pc \in Working => calls'[th'[t].num] = None
<1>1. \A t \in {Main, Cmd} : th[t].pc \in Working => calls[th[t].num] = None
  BY DEF CallsInv
<1>2. /\ {Main, Cmd} \subseteq Threads /\ calls \in [Bufs -> Versions \cup {None}]
      /\ th \in [Threads -> ThRecs(Len(tdirs))]
      /\ \A t \in {Main, Cmd} : th[t].pc \in Working => th[t].num \in Bufs
  <2>1. \A t \in {Main, Cmd} : th[t].pc \in Working => th[t].num \in Bufs
    BY AtUpdate DEF Working, Using
  <2>2. QED
    BY <2>1, ConstantTypes, ThreadTypes DEF TypeInv, TypeOK
<1>3. CASE \A t \in {Main, Cmd} : ~ Found(t)
  <2>1. \A b \in Bufs : calls[b] = None => calls'[b] = None
    BY <1>3, CallsKept
  <2>2. ASSUME NEW t \in {Main, Cmd}, th'[t].pc \in Working
        PROVE  \/ th[t].pc \in Working /\ th'[t].num = th[t].num
               \/ th'[t].num \in Bufs /\ calls'[th'[t].num] = None
    <3>1. CASE th'[t] = th[t] \/ th'[t] = [th[t] EXCEPT !.freed = TRUE]
      BY <1>2, <2>2, <3>1 DEF ThRecs
    <3>2. CASE User \/ (\E i \in 1 .. Len(toNvim) : Execute(i)) \/ (\E k \in Kinds : Take(k))
      BY <1>2, <2>2, <3>1, <3>2, NvimSteps DEF Working
    <3>3. ASSUME NEW u \in Threads, Destroys(u)
          PROVE  th'[t] = th[t]
      BY <1>2, <2>2, <3>3, DestroySteps DEF Working, Leaving
    <3>4. ASSUME NEW u \in {Main, Cmd}, Opens(u) \/ Updates(u), t # u
          PROVE  th'[t] = th[t] \/ th'[t] = [th[t] EXCEPT !.freed = TRUE]
      BY <1>2, <3>4, OpensOnward
    <3>5. CASE Opens(t)
      <4>1. Onward(t) /\ th[t].pc \notin {"ctags", "search"}
        BY <3>5, OpensOnward
           DEF Opens, Open, init_topdir, CountIn, StoreIn, CreateDir, init_filetype, LockFiletypes,
               FillFiletype, get_initial_lines, get_initial_taglist, At
      <4>2. th'[t].pc # "search"
        <5>1. th'[t].pc = th[t].pc \/ th'[t].pc \in {"find", "create", "count_in", "store_in", "filetype"}
              \/ init_filetype(t) \/ LockFiletypes(t) \/ FillFiletype(t) \/ get_initial_lines(t)
              \/ get_initial_taglist(t)
          BY <1>2, <3>5 DEF Opens, Open, init_topdir, CountIn, StoreIn, CreateDir, Goto, ThRecs
        <5>2. th'[t].pc # "search" \/ th'[t].pc = th[t].pc \/ get_initial_taglist(t)
          BY <1>2, <5>1 DEF init_filetype, LockFiletypes, FillFiletype, get_initial_lines, Goto, ThRecs
        <5>3. get_initial_taglist(t) => th'[t].pc # "search"
          BY <1>2 DEF get_initial_taglist, At, Goto, ThRecs
        <5>4. QED
          BY <4>1, <5>2, <5>3
      <4>3. QED
        BY <2>2, <3>1, <4>1, <4>2 DEF Onward, Working
    <3>6. CASE run_ctags_pipe(t)
      <4>1. CASE enabled
        <5>1. /\ th'[t].num = th[t].num /\ th[t].num \in Bufs
              /\ calls' = [calls EXCEPT ![th[t].num] = None]
          <6>1. th[t].num \in Bufs
            BY <3>6, AtUpdate DEF run_ctags_pipe, At, Using
          <6>2. /\ th' = [th EXCEPT ![t].pc = "running", ![t].ver = version]
                /\ calls' = [calls EXCEPT ![th[t].num] = None]
            BY <3>6, <4>1 DEF run_ctags_pipe
          <6>3. QED
            BY <1>2, <6>1, <6>2 DEF ThRecs
        <5>2. QED
          BY <1>2, <5>1
      <4>2. CASE ~ enabled
        <5>1. th'[t].num \in Bufs
          <6>1. PICK r \in ThRecs(Len(tdirs)) : th' = [th EXCEPT ![t] = r] /\ r.num = th[t].num
            BY <1>2, <3>6, <4>2, ProceedsTo DEF run_ctags_pipe, TypeInv
          <6>2. th[t].num \in Bufs
            BY <3>6, AtUpdate DEF run_ctags_pipe, At, Using
          <6>3. QED
            BY <1>2, <6>1, <6>2
        <5>2. QED
          BY <2>1, <4>2, <5>1 DEF CallsInv, Disabled
      <4>3. QED
        BY <4>1, <4>2
    <3>7. CASE update_taglist(t)
      <4>1. th[t].pc \in Working
        BY <3>7 DEF update_taglist, At, Working
      <4>2. th'[t].num = th[t].num
        <5>1. CASE Alive(th[t].dir)
          BY <3>7, <5>1, RunDone
        <5>2. CASE ~ Alive(th[t].dir)
          BY <3>7, <5>2 DEF update_taglist
        <5>3. QED
          BY <5>1, <5>2
      <4>3. QED
        BY <4>1, <4>2
    <3>8. CASE update_highlight(t)
      <4>1. th'[t].pc \in {"ctags", "idle", "gone"}
        BY <1>2, <3>8 DEF update_highlight, Ends, Idle, ThRecs
      <4>2. QED
        BY <2>2, <4>1 DEF Working
    <3>9. CASE Search(t)
      BY <1>2, <3>9 DEF Search, At, Working, ThRecs
    <3>10. CASE NothingFound(t)
      <4>1. UNCHANGED th \/ th'[t].pc \in {"ctags", "idle", "gone"}
        BY <1>2, <3>10 DEF NothingFound, Ends, Idle, ThRecs
      <4>2. QED
        BY <2>2, <3>1, <4>1 DEF Working
    <3>11. QED
      BY <1>3, <3>1, <3>2, <3>3, <3>4, <3>5, <3>6, <3>7, <3>8, <3>9, <3>10 DEF Next, vars, Updates
  <2>3. QED
    BY <1>1, <1>2, <2>1, <2>2
<1>4. ASSUME NEW t \in {Main, Cmd}, Found(t)
      PROVE  \A u \in {Main, Cmd} : th'[u].pc \in Working => calls'[th'[u].num] = None
  <2>1. th[t].pc = "searching" /\ (UNCHANGED <<th, calls>> \/ Ends(t))
    BY <1>4 DEF Found, At
  <2>2. \A u \in {Main, Cmd} \ {t} : th[u].pc \in Resting
    BY <2>1, AloneAt DEF Resting
  <2>3. CASE UNCHANGED <<th, calls>>
    BY <1>1, <2>3
  <2>4. CASE Ends(t)
    BY <1>2, <2>2, <2>4 DEF Ends, Idle, Resting, Working
  <2>5. QED
    BY <2>1, <2>3, <2>4
<1>5. QED
  BY <1>3, <1>4

(* Tags that there are not, a step does not bring, unless ctags runs.      *)
LEMMA NoNewTags ==
  ASSUME TypeInv, [Next]_vars, \A t \in {Main, Cmd} : ~ update_taglist(t),
         \A d \in 1 .. Len(tdirs) : tdirs[d].tags.ver = 0,
         \A k \in Bases \X Types : cache[k] = None
  PROVE  UNCHANGED cache /\ \A d \in 1 .. Len(tdirs)' : tdirs'[d].tags.ver = 0
<1>1. UNCHANGED cache
  <2>1. CASE User \/ (\E i \in 1 .. Len(toNvim) : Execute(i)) \/ (\E k \in Kinds : Take(k))
    BY <2>1 DEF User, EnterBuffer, DeleteBuffer, AddBuffer, WriteFile, ForceUpdate, SetFiletype, Execute, Take
  <2>2. ASSUME NEW t \in {Main, Cmd}, Opens(t)
        PROVE  UNCHANGED cache
    BY <2>2 DEF Opens, Open, init_topdir, CountIn, StoreIn, CreateDir, init_filetype, LockFiletypes, FillFiletype,
         get_initial_lines, get_initial_taglist
  <2>3. ASSUME NEW t \in {Main, Cmd}, Updates(t)
        PROVE  UNCHANGED cache
    BY <2>3 DEF Updates, run_ctags_pipe, update_highlight, Search, Found, NothingFound
  <2>4. ASSUME NEW t \in Threads, Destroys(t)
        PROVE  UNCHANGED cache
    BY <2>4 DEF Destroys, clear_highlight, Unlist, CountOut, StoreOut
  <2>5. QED
    BY <2>1, <2>2, <2>3, <2>4 DEF Next, vars
<1>2. CASE UNCHANGED tdirs
  BY <1>1, <1>2
<1>3. NoTags.ver = 0 /\ Gone.tags = NoTags /\ Tags(0, FALSE).ver = 0
  BY DEF NoTags, Gone, Tags
<1>4. ASSUME NEW t \in {Main, Cmd}, get_initial_taglist(t), ~ UNCHANGED tdirs
      PROVE  \A d \in 1 .. Len(tdirs)' : tdirs'[d].tags.ver = 0
  <2>1. PICK d \in 1 .. Len(tdirs) : d = th[t].dir /\ Alive(d)
    BY <1>4, InitialTags
  <2>2. NewTags(d, Tags(0, FALSE))
    <3>1. cache[Key(d)] = None
      BY <2>1, KeyType
    <3>2. QED
      BY <1>4, <2>1, <3>1 DEF get_initial_taglist, NewTags
  <2>3. Tags(0, FALSE) \in TagRecs
    BY ConstantTypes, TagsType
  <2>4. /\ Len(tdirs)' = Len(tdirs)
        /\ \A e \in 1 .. Len(tdirs) : tdirs'[e].tags = IF e = d THEN Tags(0, FALSE) ELSE tdirs[e].tags
    BY <2>1, <2>2, <2>3, TagsReplaced
  <2>5. QED
    BY <1>3, <2>4
<1>5. ASSUME NEW t \in {Main, Cmd}, StoreIn(t), ~ UNCHANGED tdirs
      PROVE  \A d \in 1 .. Len(tdirs)' : tdirs'[d].tags.ver = 0
  BY <1>5, StoresIn
<1>6. ASSUME NEW t \in {Main, Cmd}, CreateDir(t)
      PROVE  \A d \in 1 .. Len(tdirs)' : tdirs'[d].tags.ver = 0
  <2>1. PICK n \in Nat : n = Len(tdirs) + 1 /\ Len(tdirs) \in Nat
    BY ThreadTypes DEF TypeInv
  <2>2. /\ Len(tdirs)' = n /\ \A e \in 1 .. Len(tdirs) : tdirs'[e] = tdirs[e]
        /\ tdirs'[n].tags = NoTags
    BY <1>6, <2>1, TypeCreate
  <2>3. \A e \in 1 .. n : e = n \/ e \in 1 .. Len(tdirs)
    BY <2>1
  <2>4. QED
    BY <1>3, <2>2, <2>3
<1>7. ASSUME NEW t \in Threads, StoreOut(t), ~ UNCHANGED tdirs
      PROVE  \A d \in 1 .. Len(tdirs)' : tdirs'[d].tags.ver = 0
  <2>1. PICK d \in 1 .. Len(tdirs) : d = th[t].dir /\ Alive(d)
    BY <1>7, AtDestroy DEF StoreOut, At
  <2>2. PICK x \in DirRecs : tdirs' = [tdirs EXCEPT ![d] = x] /\ (x = Gone \/ x.tags = tdirs[d].tags)
    BY <1>7, <2>1, Counted
  <2>3. /\ Len(tdirs)' = Len(tdirs) /\ tdirs'[d] = x
        /\ \A e \in (1 .. Len(tdirs)) \ {d} : tdirs'[e] = tdirs[e]
    <3>1. tdirs \in Seq(DirRecs)
      BY DEF TypeInv, TypeOK
    <3>2. QED
      BY <2>2, <3>1, ExceptSeq
  <2>4. QED
    BY <1>3, <2>2, <2>3
<1>8. CASE User \/ (\E i \in 1 .. Len(toNvim) : Execute(i)) \/ (\E k \in Kinds : Take(k)) \/ UNCHANGED vars
  BY <1>1, <1>2, <1>8, NvimSteps DEF vars
<1>9. ASSUME NEW t \in {Main, Cmd}, Opens(t) \/ Updates(t)
      PROVE  \A d \in 1 .. Len(tdirs)' : tdirs'[d].tags.ver = 0
  BY <1>2, <1>4, <1>5, <1>6, <1>9
     DEF Opens, Open, init_topdir, CountIn, init_filetype, LockFiletypes, FillFiletype, get_initial_lines,
         Updates, run_ctags_pipe, update_highlight, Search, Found, NothingFound, bdata
<1>10. ASSUME NEW t \in Threads, Destroys(t)
       PROVE  \A d \in 1 .. Len(tdirs)' : tdirs'[d].tags.ver = 0
  BY <1>2, <1>7, <1>10 DEF Destroys, clear_highlight, Unlist, CountOut, bdata
<1>11. QED
  BY <1>1, <1>8, <1>9, <1>10 DEF Next

LEMMA DisabledStep ==
  ASSUME TypeInv, Alone, TagsInv, CallsInv, [Next]_vars, ~ Early, ~ enabled
  PROVE  Disabled'
<1>1. Disabled /\ UNCHANGED enabled
  BY HistoryGrows DEF CallsInv
<1>2. /\ {Main, Cmd} \subseteq Threads /\ th \in [Threads -> ThRecs(Len(tdirs))]
      /\ \A t \in {Main, Cmd} : th[t].pc # "running"
  BY ConstantTypes, ThreadTypes DEF TagsInv, TypeInv
<1>3. \A t \in {Main, Cmd} : ~ update_taglist(t) /\ ~ Found(t)
  BY <1>1, <1>2 DEF update_taglist, Found, At, Disabled
<1>4. /\ \A b \in Bufs : calls'[b] = None
      /\ \A d \in 1 .. Len(tdirs)' : tdirs'[d].tags.ver = 0
      /\ \A k \in Bases \X Types : cache'[k] = None
  BY <1>1, <1>3, CallsKept, NoNewTags DEF Disabled
<1>5. ASSUME NEW t \in {Main, Cmd}, th'[t].pc = "searching"
      PROVE  th'[t].ver = 0
  <2>1. CASE th[t].pc = "searching" /\ th'[t].ver = th[t].ver
    BY <1>1, <2>1 DEF Disabled
  <2>2. CASE Search(t) /\ ~ UNCHANGED th
    <3>1. /\ th[t].dir \in 1 .. Len(tdirs)
          /\ th' = [th EXCEPT ![t].pc = "searching", ![t].ver = tdirs[th[t].dir].tags.ver,
                              ![t].forced = tdirs[th[t].dir].tags.forced]
      <4>1. th[t].pc \in Using
        BY <2>2 DEF Search, At, Using
      <4>2. QED
        BY <2>2, <4>1, AtUpdate DEF Search
    <3>2. th'[t].ver = tdirs[th[t].dir].tags.ver
      BY <1>2, <3>1 DEF ThRecs
    <3>3. QED
      BY <1>1, <3>1, <3>2 DEF Disabled
  <2>3. CASE th'[t] = th[t] \/ th'[t] = [th[t] EXCEPT !.freed = TRUE]
    BY <1>2, <1>5, <2>1, <2>3 DEF ThRecs
  <2>4. CASE User \/ (\E i \in 1 .. Len(toNvim) : Execute(i)) \/ (\E k \in Kinds : Take(k))
    BY <1>2, <1>5, <2>3, <2>4, NvimSteps
  <2>5. ASSUME NEW u \in Threads, Destroys(u)
        PROVE  th'[t] = th[t]
    BY <1>2, <1>5, <2>5, DestroySteps DEF Leaving
  <2>6. ASSUME NEW u \in {Main, Cmd}, Opens(u) \/ Updates(u), t # u
        PROVE  th'[t] = th[t] \/ th'[t] = [th[t] EXCEPT !.freed = TRUE]
    BY <1>2, <2>6, OpensOnward
  <2>7. CASE (Opens(t) \/ Updates(t)) /\ ~ Search(t)
    <3>1. Onward(t) /\ th[t].pc # "search"
      BY <2>7, OpensOnward
         DEF Opens, Open, init_topdir, CountIn, StoreIn, CreateDir, init_filetype, LockFiletypes,
             FillFiletype, get_initial_lines, get_initial_taglist, Updates, run_ctags_pipe, update_taglist,
             update_highlight, Found, NothingFound, At
    <3>2. th[t].pc = "ctags" => run_ctags_pipe(t)
      BY <2>7
         DEF Opens, Open, init_topdir, CountIn, StoreIn, CreateDir, init_filetype, LockFiletypes,
             FillFiletype, get_initial_lines, get_initial_taglist, Updates, update_taglist,
             update_highlight, Search, Found, NothingFound, At
    <3>3. th'[t].pc = "searching" => ~ run_ctags_pipe(t)
      <4>1. SUFFICES ASSUME run_ctags_pipe(t) PROVE th'[t].pc # "searching"
        OBVIOUS
      <4>2. PICK r \in ThRecs(Len(tdirs)) : th' = [th EXCEPT ![t] = r] /\ r.pc \in {"update", "search", "ctags"}
        BY <1>2, <4>1, ProceedsTo DEF run_ctags_pipe, TypeInv
      <4>3. QED
        BY <1>2, <4>2
    <3>4. QED
      BY <1>5, <2>3, <3>1, <3>2, <3>3 DEF Onward
  <2>8. QED
    BY <2>2, <2>3, <2>4, <2>5, <2>6, <2>7 DEF Next, vars
<1>6. QED
  BY <1>4, <1>5 DEF Disabled

LEMMA CallsStep == TypeInv /\ Alone /\ TagsInv /\ CallsInv /\ [Next]_vars => CallsInv'
<1> SUFFICES ASSUME TypeInv, Alone, TagsInv, CallsInv, [Next]_vars, ~ Early PROVE CallsInv'
  BY DEF CallsInv
<1>1. \A t \in {Main, Cmd} : th'[t].pc \in Working => calls'[th'[t].num] = None
  BY DroppedStep
<1>2. enabled' \/ Disabled'
  BY DisabledStep, HistoryGrows
<1>3. QED
  BY <1>1, <1>2 DEF CallsInv

(* A thread keeps its buffer until it ends.                                *)
LEMMA Visits ==
  ASSUME TypeInv, NEW t \in {Main, Cmd}, Opens(t) \/ Updates(t)
  PROVE  /\ UNCHANGED <<nvim, waiting, excuses>> /\ t \in Threads
         /\ \A u \in Threads \ {t} : th'[u].pc = th[u].pc /\ th'[u].num = th[u].num
         /\ \/ th'[t].num = th[t].num
            \/ Ends(t) /\ (update_highlight(t) \/ Found(t) \/ NothingFound(t))
<1>1. UNCHANGED <<nvim, waiting, excuses>>
  BY DEF Opens, Open, init_topdir, CountIn, StoreIn, CreateDir, init_filetype, LockFiletypes, FillFiletype,
         get_initial_lines, get_initial_taglist, Updates, run_ctags_pipe, update_taglist,
         update_highlight, Search, Found, NothingFound, history
<1>2. th \in [Threads -> ThRecs(Len(tdirs))] /\ t \in Threads
  BY ThreadTypes, ConstantTypes DEF TypeInv
<1>3. \A u \in Threads : th'[u] = th[u] \/ th'[u] = [th[u] EXCEPT !.freed = TRUE] =>
        th'[u].pc = th[u].pc /\ th'[u].num = th[u].num
  BY <1>2 DEF ThRecs
<1>4. \A u \in Threads \ {t} : th'[u].pc = th[u].pc /\ th'[u].num = th[u].num
  BY <1>3, OpensOnward
<1>5. \/ th'[t].num = th[t].num
      \/ Ends(t) /\ (update_highlight(t) \/ Found(t) \/ NothingFound(t))
  <2>1. CASE UNCHANGED th
    BY <2>1
  <2>2. CASE \E p : Goto(t, p)
    BY <1>2, <2>2 DEF Goto, ThRecs
  <2>3. CASE init_topdir(t)
    <3>1. CASE \E d \in 1 .. Len(tdirs) : th' = [th EXCEPT ![t].pc = "count_in", ![t].dir = d]
      BY <1>2, <3>1 DEF ThRecs
    <3>2. QED
      BY <2>2, <2>3, <3>1 DEF init_topdir, check_open_topdirs
  <2>4. CASE CountIn(t) \/ StoreIn(t) \/ CreateDir(t)
    BY <1>2, <2>1, <2>4 DEF CountIn, StoreIn, CreateDir, ThRecs
  <2>5. CASE get_initial_taglist(t)
    <3>1. CASE \E q : th' = [th EXCEPT ![t].pc = "ctags", ![t].run = q]
      BY <1>2, <3>1 DEF ThRecs
    <3>2. QED
      BY <2>1, <2>2, <2>5, <3>1 DEF get_initial_taglist
  <2>6. CASE th' = Proceed(t)
    BY <1>2, <2>6, ProceedsTo DEF TypeInv
  <2>7. CASE run_ctags_pipe(t)
    <3>1. CASE th' = [th EXCEPT ![t].pc = "running", ![t].ver = version]
      BY <1>2, <3>1 DEF ThRecs
    <3>2. QED
      BY <2>6, <2>7, <3>1 DEF run_ctags_pipe
  <2>8. CASE update_taglist(t)
    <3>1. CASE Alive(th[t].dir)
      BY <2>8, <3>1, RunDone
    <3>2. QED
      BY <2>1, <2>8, <3>1 DEF update_taglist
  <2>9. CASE update_highlight(t) \/ Search(t) \/ Found(t) \/ NothingFound(t)
    <3>1. CASE th' = [th EXCEPT ![t].pc = "ctags", ![t].run = "first"]
      BY <1>2, <3>1 DEF ThRecs
    <3>2. CASE th' = [th EXCEPT ![t].pc = "ctags", ![t].run = "forced", ![t].ver = 0]
      BY <1>2, <3>2 DEF ThRecs
    <3>3. CASE th' = [th EXCEPT ![t].pc = "searching", ![t].ver = tdirs[th[t].dir].tags.ver,
                                ![t].forced = tdirs[th[t].dir].tags.forced]
      BY <1>2, <3>3 DEF ThRecs
    <3>4. QED
      BY <2>1, <2>9, <3>1, <3>2, <3>3 DEF update_highlight, Search, Found, NothingFound
  <2>10. QED
    BY <2>2, <2>3, <2>4, <2>5, <2>7, <2>8, <2>9
       DEF Opens, Open, init_filetype, LockFiletypes, FillFiletype, get_initial_lines, Updates
<1>6. QED
  BY <1>1, <1>2, <1>4, <1>5

LEMMA Closes ==
  ASSUME TypeInv, Alone, ~ Early, NEW t \in Threads, Destroys(t)
  PROVE  /\ UNCHANGED <<current, type, waiting, toNvim>> /\ t # Main
         /\ \A u \in Threads \ {t} : th'[u] = th[u]
         /\ th'[t].num = th[t].num \/ (t \in Bufs /\ th'[t].num = None)
         /\ th[t].num \in Bufs
<1>1. UNCHANGED <<current, type, waiting, toNvim>>
  BY DEF Destroys, clear_highlight, Unlist, CountOut, StoreOut, nvim
<1>2. /\ th \in [Threads -> ThRecs(Len(tdirs))] /\ None \notin Bufs
      /\ th[t].pc \in {"clear", "unlist"} \cup Leaving /\ \A u \in Threads \ {t} : th'[u] = th[u]
  BY ThreadTypes, ConstantTypes, DestroySteps DEF TypeInv
<1>3. t # Main
  BY <1>2 DEF Alone
<1>4. th[t].num \in Bufs
  BY <1>2, AtDestroy DEF Leaving
<1>5. th'[t].num = th[t].num \/ (t \in Bufs /\ th'[t].num = None)
  <2>1. CASE UNCHANGED th
    BY <2>1
  <2>2. CASE \E p : Goto(t, p)
    BY <1>2, <2>2 DEF Goto, ThRecs
  <2>3. CASE CountOut(t)
    BY <1>2, <2>1, <2>3 DEF CountOut, ThRecs
  <2>4. CASE StoreOut(t) /\ ~ UNCHANGED th
    <3> DEFINE r == IF t = Cmd THEN [Idle EXCEPT !.pc = "open", !.num = th[t].num] ELSE Idle
    <3>1. r.num = IF t = Cmd THEN th[t].num ELSE None
      BY DEF Idle
    <3>2. th' = [th EXCEPT ![t] = r]
      BY <2>4 DEF StoreOut
    <3> HIDE DEF r
    <3>3. QED
      BY <1>2, <1>3, <3>1, <3>2 DEF Threads
  <2>5. QED
    BY <2>1, <2>2, <2>3, <2>4 DEF Destroys, clear_highlight, Unlist
<1>6. QED
  BY <1>1, <1>2, <1>3, <1>4, <1>5

(* A command that is taken is about the current buffer, or about nothing   *)
(* that there is to do.                                                    *)
LEMMA Taken ==
  ASSUME TypeInv, Alone, ~ Early, NEW k \in Kinds, Take(k), excuses' = {}
  PROVE  /\ UNCHANGED <<nvim, bdata, toNvim>>
         /\ th[Cmd].num = None /\ th[Cmd].pc = "idle" /\ th[Main].num = None /\ th[Main].pc = "gone"
         /\ \A b \in Bufs : th[b].num # current
         /\ \A u \in Threads \ {Cmd} : th'[u] = th[u]
         /\ \/ UNCHANGED th /\ k # "changed"
            \/ th'[Cmd].num = current /\ th'[Cmd].pc \in {"open", "update", "clear"}
         /\ k # "changed" => waiting'["changed"] = waiting["changed"]
         /\ k # "syntax" => waiting'["syntax"] = waiting["syntax"]
         /\ k = "syntax" => \A b \in open : ft[b] = type[b] \/ (th'[Cmd].num = b /\ th'[Cmd].pc = "clear")
<1>1. /\ UNCHANGED <<nvim, bdata, toNvim>> /\ th[Cmd].pc = "idle"
      /\ waiting' = [waiting EXCEPT ![k] = @ - 1] /\ waiting[k] > 0
      /\ ~ Busy(current)
  BY DEF Take, At
<1>2. /\ th \in [Threads -> ThRecs(Len(tdirs))] /\ Cmd \in Threads /\ Main \in Threads /\ Bufs \subseteq Threads
      /\ None \notin Bufs /\ current \in Bufs /\ waiting \in [Kinds -> 0 .. MaxMessages]
      /\ open \subseteq Bufs
  BY ThreadTypes, ConstantTypes DEF TypeInv, TypeOK
<1>3. th[Main].pc = "gone"
  BY <1>1, <1>2 DEF Alone
<1>4. th[Cmd].num = None /\ th[Main].num = None /\ \A b \in Bufs : th[b].num # current
  BY <1>1, <1>2, <1>3 DEF Busy, TypeInv, Sound, ThreadSound, Resting
<1>5. /\ k # "changed" => waiting'["changed"] = waiting["changed"]
      /\ k # "syntax" => waiting'["syntax"] = waiting["syntax"]
  BY <1>1, <1>2 DEF Kinds
<1>6. \/ k = "changed" /\ event_buffer_changed
      \/ k = "syntax" /\ event_syntax_changed
      \/ k = "want" /\ event_want_update
      \/ k = "force" /\ event_force_update
  BY Zenon DEF Take, Kinds
<1>7. ASSUME NEW p, NEW n, Begin(p, n)
      PROVE  th'[Cmd].num = current /\ th'[Cmd].pc = p /\ \A u \in Threads \ {Cmd} : th'[u] = th[u]
  <2> DEFINE r == [Idle EXCEPT !.pc = p, !.num = current, !.normal = n,
                               !.dir = IF current \in open THEN topdir[current] ELSE 0]
  <2>1. r.num = current /\ r.pc = p
    BY DEF Idle
  <2>2. th' = [th EXCEPT ![Cmd] = r]
    BY <1>7 DEF Begin
  <2> HIDE DEF r
  <2>3. QED
    BY <1>2, <2>1, <2>2
<1>8. /\ \A u \in Threads \ {Cmd} : th'[u] = th[u]
      /\ \/ UNCHANGED th /\ k # "changed"
         \/ th'[Cmd].num = current /\ th'[Cmd].pc \in {"open", "update", "clear"}
  <2>1. \/ UNCHANGED th /\ k # "changed"
        \/ \E p \in {"open", "update", "clear"} : \E n : Begin(p, n)
    BY <1>6 DEF event_buffer_changed, event_syntax_changed, event_want_update, event_force_update
  <2>2. QED
    BY <1>7, <2>1
<1>9. ASSUME k = "syntax", NEW b \in open, ft[b] # type[b]
      PROVE  th'[Cmd].num = b /\ th'[Cmd].pc = "clear"
  <2>1. event_syntax_changed
    BY <1>6, <1>9
  <2>2. b = current
    BY <1>9, <2>1 DEF event_syntax_changed
  <2>3. Begin("clear", FALSE)
    BY <1>9, <2>1, <2>2 DEF event_syntax_changed
  <2>4. QED
    BY <1>7, <2>2, <2>3
<1>10. QED
  BY <1>1, <1>3, <1>4, <1>5, <1>8, <1>9

LEMMA UserSteps ==
  ASSUME TypeInv, User, excuses' = {}
  PROVE  /\ UNCHANGED <<shown, open, ft, calls, toNvim>>
         /\ \A k \in Kinds : waiting[k] \in Nat /\ waiting'[k] \in Nat /\ waiting'[k] >= waiting[k]
         /\ \A t \in {Main, Cmd} : th'[t] = th[t]
         /\ \/ waiting'["changed"] > 0
            \/ UNCHANGED current /\ \A b \in Bufs : th'[b] = th[b] \/ th'[b].num # current
         /\ UNCHANGED type \/ waiting'["syntax"] > 0
<1>1. UNCHANGED <<shown, open, ft, calls, toNvim>>
  BY DEF User, EnterBuffer, DeleteBuffer, AddBuffer, WriteFile, ForceUpdate, SetFiletype, bdata
<1>2. /\ waiting \in [Kinds -> 0 .. MaxMessages] /\ MaxMessages \in Nat
      /\ th \in [Threads -> ThRecs(Len(tdirs))] /\ Bufs \subseteq Threads
      /\ Main \notin Bufs /\ Cmd \notin Bufs
  BY BoundsAssumption, ThreadTypes, ConstantTypes DEF TypeInv, TypeOK
<1>3. ASSUME NEW k \in Kinds, Announce(k)
      PROVE  waiting'[k] > 0 /\ \A j \in Kinds : waiting'[j] \in Nat /\ waiting'[j] >= waiting[j]
  BY <1>2, <1>3 DEF Announce
<1>4. ASSUME NEW b \in Bufs, EnterBuffer(b)
      PROVE  Announce("changed") /\ UNCHANGED <<th, type>>
  BY <1>4 DEF EnterBuffer
<1>5. ASSUME NEW n \in Bufs, DeleteBuffer(n)
      PROVE  /\ UNCHANGED <<waiting, current, type>> /\ \A t \in {Main, Cmd} : th'[t] = th[t]
             /\ \A b \in Bufs : th'[b] = th[b] \/ th'[b].num # current
  <2> DEFINE r == [Idle EXCEPT !.pc = "clear", !.num = n, !.dir = topdir[n]]
  <2>1. r.num = n
    BY DEF Idle
  <2>2. th' = [th EXCEPT ![n] = r] /\ n # current /\ UNCHANGED <<waiting, current, type>>
    BY <1>5 DEF DeleteBuffer
  <2> HIDE DEF r
  <2>3. QED
    BY <1>2, <2>1, <2>2
<1>6. CASE AddBuffer \/ WriteFile \/ ForceUpdate \/ \E f \in Types : SetFiletype(f)
  <2>1. /\ \E k \in Kinds : Announce(k)
        /\ UNCHANGED <<current, th>> /\ (UNCHANGED type \/ Announce("syntax"))
    BY <1>6 DEF AddBuffer, WriteFile, ForceUpdate, SetFiletype, Kinds
  <2>2. \A k \in Kinds : waiting[k] \in Nat
    BY <1>2
  <2>3. "syntax" \in Kinds
    BY DEF Kinds
  <2>4. QED
    BY <1>1, <1>3, <2>1, <2>2, <2>3
<1>7. CASE \E b \in Bufs : EnterBuffer(b)
  <2>1. "changed" \in Kinds /\ \A k \in Kinds : waiting[k] \in Nat
    BY <1>2 DEF Kinds
  <2>2. QED
    BY <1>1, <1>3, <1>4, <1>7, <2>1
<1>8. CASE \E n \in Bufs : DeleteBuffer(n)
  <2>1. \A k \in Kinds : waiting[k] \in Nat
    BY <1>2
  <2>2. \A k \in Kinds : waiting[k] >= waiting[k]
    BY <2>1
  <2>3. QED
    BY <1>1, <1>5, <1>8, <2>1, <2>2
<1>9. QED
  BY <1>6, <1>7, <1>8 DEF User

LEMMA ElsewhereStep ==
  ASSUME TypeInv, Alone, ~ Early, ElsewhereInv, [Next]_vars, excuses' = {}
  PROVE  ElsewhereInv'
<1>1. /\ {Main, Cmd} \subseteq Threads /\ Bufs \subseteq Threads /\ "changed" \in Kinds /\ Cmd \notin Bufs
      /\ Main # Cmd /\ None \notin Bufs /\ current \in Bufs
  BY ConstantTypes DEF Kinds, TypeInv, TypeOK
<1>2. ASSUME UNCHANGED <<current, waiting>>,
             \A t \in {Main, Cmd} : th'[t].num \in {th[t].num, None},
             \A b \in Bufs : th'[b].num \in {th[b].num, None}
      PROVE  ElsewhereInv'
  BY <1>1, <1>2 DEF ElsewhereInv
<1>3. CASE UNCHANGED vars
  BY <1>2, <1>3 DEF vars, nvim
<1>4. CASE \E i \in 1 .. Len(toNvim) : Execute(i)
  BY <1>2, <1>4 DEF Execute
<1>5. CASE User
  BY <1>1, <1>5, UserSteps DEF ElsewhereInv
<1>6. ASSUME NEW k \in Kinds, Take(k)
      PROVE  ElsewhereInv'
  <2>1. /\ UNCHANGED current /\ \A b \in Bufs : th'[b].num # current
        /\ th'[Main].num = None /\ th'[Cmd].num \in {current, None}
    BY <1>1, <1>6, Taken DEF nvim
  <2>2. QED
    BY <2>1 DEF ElsewhereInv
<1>7. ASSUME NEW t \in {Main, Cmd}, Opens(t) \/ Updates(t)
      PROVE  ElsewhereInv'
  <2>1. Ends(t) => th'[t].num = None
    <3>1. th \in [Threads -> ThRecs(Len(tdirs))]
      BY ThreadTypes DEF TypeInv
    <3>2. QED
      BY <1>1, <3>1 DEF Ends, Idle
  <2>2. QED
    BY <1>1, <1>2, <1>7, <2>1, Visits DEF nvim
<1>8. ASSUME NEW t \in Threads, Destroys(t)
      PROVE  ElsewhereInv'
  BY <1>1, <1>2, <1>8, Closes
<1>9. QED
  BY <1>3, <1>4, <1>5, <1>6, <1>7, <1>8 DEF Next

LEMMA TypedFrame ==
  ASSUME TypedInv, UNCHANGED <<type, ft>>, waiting'["syntax"] >= waiting["syntax"],
         waiting["syntax"] \in Nat, waiting'["syntax"] \in Nat,
         \A b \in Bufs : b \in open' => HasType(b),
         \A t \in {Main, Cmd} : th'[t].pc \in Typed => th[t].pc \in Typed /\ th'[t].num = th[t].num,
         th[Cmd].pc \in {"clear", "unlist"} =>
           \/ th'[Cmd].pc \in {"clear", "unlist"} /\ th'[Cmd].num = th[Cmd].num
           \/ th[Cmd].num \notin open' /\ th'[Main].pc \notin Typed /\ th'[Cmd].pc \notin Typed
  PROVE  TypedInv'
<1> SUFFICES ASSUME NEW b \in Bufs
             PROVE  \/ ft'[b] = type'[b]
                    \/ ~ HasType(b)'
                    \/ waiting'["syntax"] > 0
                    \/ th'[Cmd].num = b /\ th'[Cmd].pc \in {"clear", "unlist"}
  BY DEF TypedInv
<1>1. HasType(b)' => HasType(b)
  BY DEF HasType
<1>2. CASE th[Cmd].num = b /\ th[Cmd].pc \in {"clear", "unlist"}
  BY <1>2 DEF HasType
<1>3. QED
  BY <1>1, <1>2 DEF TypedInv

(* With its tags to be looked at, a buffer is open already.                *)
LEMMA NotTyped ==
  ASSUME TypeInv, NEW t \in {Main, Cmd}, get_initial_taglist(t) \/ Updates(t)
  PROVE  th'[t].pc \notin Typed /\ th[t].pc \notin {"clear", "unlist"}
<1>1. /\ th \in [Threads -> ThRecs(Len(tdirs))] /\ t \in Threads
      /\ th[t].pc \in {"tags", "ctags", "running", "update", "search", "searching"}
  BY ThreadTypes, ConstantTypes
     DEF TypeInv, get_initial_taglist, Updates, run_ctags_pipe, update_taglist, update_highlight, Search, Found,
         NothingFound, At
<1>2. CASE UNCHANGED th
  BY <1>1, <1>2 DEF Typed
<1>3. CASE \E p \in {"ctags", "update"} : \E q : th' = [th EXCEPT ![t].pc = p, ![t].run = q]
  BY <1>1, <1>3 DEF ThRecs, Typed
<1>4. CASE Goto(t, "update")
  BY <1>1, <1>4 DEF Goto, ThRecs, Typed
<1>5. CASE th' = Proceed(t)
  BY <1>1, <1>5, ProceedsTo DEF TypeInv, Typed
<1>6. CASE th' = [th EXCEPT ![t].pc = "running", ![t].ver = version]
  BY <1>1, <1>6 DEF ThRecs, Typed
<1>7. CASE th' = [th EXCEPT ![t].pc = "ctags", ![t].run = "forced", ![t].ver = 0]
  BY <1>1, <1>7 DEF ThRecs, Typed
<1>8. CASE th' = [th EXCEPT ![t].pc = "searching", ![t].ver = tdirs[th[t].dir].tags.ver,
                            ![t].forced = tdirs[th[t].dir].tags.forced]
  BY <1>1, <1>8 DEF ThRecs, Typed
<1>9. CASE Ends(t)
  BY <1>1, <1>9 DEF Ends, Idle, Typed
<1>10. CASE update_taglist(t)
  <2>1. CASE Alive(th[t].dir)
    BY <1>1, <1>10, <2>1, RunDone DEF Typed
  <2>2. QED
    BY <1>2, <1>10, <2>1 DEF update_taglist
<1>11. CASE get_initial_taglist(t)
  BY <1>2, <1>3, <1>4, <1>11 DEF get_initial_taglist
<1>12. CASE run_ctags_pipe(t)
  BY <1>5, <1>6, <1>12 DEF run_ctags_pipe
<1>13. CASE update_highlight(t)
  BY <1>3, <1>9, <1>13 DEF update_highlight
<1>14. CASE Search(t)
  BY <1>2, <1>8, <1>14 DEF Search
<1>15. CASE Found(t) \/ NothingFound(t)
  BY <1>2, <1>7, <1>9, <1>15 DEF Found, NothingFound
<1>16. QED
  BY <1>10, <1>11, <1>12, <1>13, <1>14, <1>15 DEF Updates

LEMMA TypedOpen ==
  ASSUME TypeInv, TypedInv, NEW t \in {Main, Cmd}, Open(t)
  PROVE  TypedInv'
<1>1. /\ th[t].pc = "open" /\ Goto(t, "find") /\ UNCHANGED <<open, waiting, type>>
      /\ ft' = [ft EXCEPT ![th[t].num] = type[th[t].num]]
  BY DEF Open, At, nvim
<1>2. /\ th \in [Threads -> ThRecs(Len(tdirs))] /\ {Main, Cmd} \subseteq Threads
      /\ ft \in [Bufs -> Types \cup {None}]
  BY ThreadTypes, ConstantTypes DEF TypeInv, TypeOK
<1>3. th'[t].num = th[t].num /\ \A u \in Threads \ {t} : th'[u] = th[u]
  BY <1>1, <1>2 DEF Goto, ThRecs
<1>4. PICK b \in Bufs : b = th[t].num
  BY <1>1, <1>2, AtWork DEF Resting
<1>5. ft'[b] = type'[b] /\ \A c \in Bufs \ {b} : ft'[c] = ft[c]
  BY <1>1, <1>2, <1>4
<1>6. ASSUME NEW c \in Bufs \ {b}
      PROVE  \/ ft'[c] = type'[c]
             \/ ~ HasType(c)'
             \/ waiting'["syntax"] > 0
             \/ th'[Cmd].num = c /\ th'[Cmd].pc \in {"clear", "unlist"}
  <2>1. HasType(c)' => HasType(c)
    BY <1>1, <1>2, <1>3, <1>4 DEF HasType
  <2>2. th[Cmd].num = c => t # Cmd /\ th'[Cmd] = th[Cmd]
    BY <1>2, <1>3, <1>4
  <2>3. QED
    BY <1>1, <1>5, <2>1, <2>2 DEF TypedInv
<1>7. QED
  BY <1>5, <1>6 DEF TypedInv

LEMMA TypedStep ==
  ASSUME TypeInv, Alone, ~ Early, TypedInv, [Next]_vars, excuses' = {}
  PROVE  TypedInv'
<1>1. /\ {Main, Cmd} \subseteq Threads /\ "syntax" \in Kinds /\ Main # Cmd /\ Cmd \notin Bufs
      /\ waiting["syntax"] \in Nat /\ waiting["syntax"] >= waiting["syntax"]
      /\ \A b \in open : HasType(b)
  <2>1. waiting \in [Kinds -> 0 .. MaxMessages] /\ MaxMessages \in Nat
    BY BoundsAssumption DEF TypeInv, TypeOK
  <2>2. QED
    BY <2>1, ConstantTypes DEF Kinds, HasType
<1>2. ASSUME UNCHANGED <<type, ft, waiting>>, open' \subseteq open, \A t \in {Main, Cmd} : th'[t] = th[t]
      PROVE  TypedInv'
  BY <1>1, <1>2, TypedFrame
<1>3. CASE UNCHANGED vars \/ \E i \in 1 .. Len(toNvim) : Execute(i)
  BY <1>2, <1>3 DEF vars, nvim, bdata, Execute
<1>4. CASE User
  <2>1. CASE waiting'["syntax"] > 0
    BY <2>1 DEF TypedInv
  <2>2. CASE UNCHANGED type
    BY <1>1, <1>4, <2>2, UserSteps, TypedFrame
  <2>3. QED
    BY <1>4, <2>1, <2>2, UserSteps
<1>5. ASSUME NEW k \in Kinds, Take(k)
      PROVE  TypedInv'
  <2>1. /\ UNCHANGED <<type, ft, open>> /\ th'[Main] = th[Main] /\ th[Main].pc = "gone" /\ th[Cmd].pc = "idle"
        /\ th'[Cmd].pc \in {"idle", "open", "update", "clear"}
        /\ k # "syntax" => waiting'["syntax"] = waiting["syntax"]
        /\ k = "syntax" => \A b \in open : ft[b] = type[b] \/ (th'[Cmd].num = b /\ th'[Cmd].pc = "clear")
    BY <1>1, <1>5, Taken DEF nvim, bdata
  <2>2. CASE k # "syntax"
    BY <1>1, <2>1, <2>2, TypedFrame DEF Typed
  <2>3. CASE k = "syntax"
    <3>1. \A b \in Bufs : HasType(b)' => b \in open
      BY <2>1 DEF HasType, Typed
    <3>2. QED
      BY <2>1, <2>3, <3>1 DEF TypedInv
  <2>4. QED
    BY <2>2, <2>3
<1>6. ASSUME NEW t \in {Main, Cmd}, Opens(t) \/ Updates(t), ~ Open(t)
      PROVE  TypedInv'
  <2>1. /\ UNCHANGED <<type, waiting>>
        /\ \A u \in {Main, Cmd} \ {t} : th'[u].pc = th[u].pc /\ th'[u].num = th[u].num
    BY <1>1, <1>6, Visits DEF nvim
  <2>2. UNCHANGED ft
    BY <1>6 DEF Opens, init_topdir, CountIn, StoreIn, CreateDir, init_filetype, LockFiletypes, FillFiletype,
         get_initial_lines, get_initial_taglist, Updates, run_ctags_pipe, update_taglist,
         update_highlight, Search, Found, NothingFound, bdata
  <2>3. CASE get_initial_taglist(t) \/ Updates(t)
    <3>1. UNCHANGED open
      BY <2>3 DEF get_initial_taglist, Updates, run_ctags_pipe, update_taglist,
           update_highlight, Search, Found, NothingFound, bdata
    <3>2. th'[t].pc \notin Typed /\ th[t].pc \notin {"clear", "unlist"}
      BY <2>3, NotTyped
    <3>3. QED
      BY <1>1, <2>1, <2>2, <3>1, <3>2, TypedFrame
  <2>4. CASE ~ get_initial_taglist(t) /\ ~ Updates(t)
    <3>1. th[t].pc \in Typed /\ th[t].pc \notin {"clear", "unlist"}
      BY <1>6, <2>4 DEF Opens, init_topdir, CountIn, StoreIn, CreateDir, init_filetype, LockFiletypes,
           FillFiletype, get_initial_lines, At, Typed
    <3>2. th'[t].num = th[t].num
      <4>1. th[t].pc \notin {"update", "searching"}
        BY <3>1 DEF Typed
      <4>2. QED
        BY <1>6, <4>1, Visits DEF update_highlight, Found, NothingFound, At
    <3>3. \A b \in Bufs : b \in open' => b \in open \/ b = th[t].num
      BY <1>6, <2>4 DEF Opens, init_topdir, CountIn, StoreIn, CreateDir, init_filetype, LockFiletypes,
           FillFiletype, get_initial_lines, bdata
    <3>4. \A b \in Bufs : b \in open' => HasType(b)
      BY <1>1, <3>1, <3>3 DEF HasType
    <3>5. QED
      BY <1>1, <2>1, <2>2, <3>1, <3>2, <3>4, TypedFrame
  <2>5. QED
    BY <2>3, <2>4
<1>7. ASSUME NEW t \in Threads, Destroys(t)
      PROVE  TypedInv'
  <2>1. /\ UNCHANGED <<type, waiting, ft>> /\ t # Main /\ open' \subseteq open
        /\ \A u \in Threads \ {t} : th'[u] = th[u]
        /\ th[t].pc \in {"clear", "unlist"} \cup Leaving
        /\ th'[t].pc \in {"open", "idle", "clear", "unlist"} \cup Leaving
        /\ th[t].num \in Bufs
    BY <1>7, Closes, DestroySteps
  <2>2. CASE t # Cmd
    BY <1>1, <1>2, <2>1, <2>2
  <2>3. CASE t = Cmd
    <3>1. th[Main].pc = "gone" /\ th'[Main] = th[Main]
      BY <1>1, <2>1, <2>3 DEF Alone, Leaving
    <3>2. th'[Cmd].pc \notin Typed /\ th'[Main].pc \notin Typed
      BY <2>1, <2>3, <3>1 DEF Typed, Leaving
    <3>3. th[Cmd].pc \in {"clear", "unlist"} =>
            \/ th'[Cmd].pc \in {"clear", "unlist"} /\ th'[Cmd].num = th[Cmd].num
            \/ th[Cmd].num \notin open'
      <4>1. CASE clear_highlight(Cmd)
        <5>1. th \in [Threads -> ThRecs(Len(tdirs))]
          BY ThreadTypes DEF TypeInv
        <5>2. QED
          BY <1>1, <4>1, <5>1 DEF clear_highlight, Goto, ThRecs
      <4>2. CASE Unlist(Cmd)
        BY <4>2 DEF Unlist
      <4>3. QED
        BY <1>7, <2>3, <4>1, <4>2 DEF Destroys, CountOut, StoreOut, At
    <3>4. QED
      BY <1>1, <2>1, <3>2, <3>3, TypedFrame
  <2>4. QED
    BY <2>2, <2>3
<1>8. QED
  BY <1>3, <1>4, <1>5, <1>6, <1>7, TypedOpen DEF Next, Opens

(* Nothing about the current buffer changes but that it may be announced.  *)
LEMMA ShowsFrame ==
  ASSUME ShowsInv, UNCHANGED <<current, toNvim>>,
         waiting["changed"] > 0 => waiting'["changed"] > 0,
         current \in open' => current \in open,
         ft'[current] = ft[current], calls'[current] \in {None, calls[current]},
         shown'[current][ft[current]] = shown[current][ft[current]],
         \A t \in {Main, Cmd} : th[t].num = current => th'[t].num = current
  PROVE  ShowsInv'
<1> SUFFICES ASSUME current' \in open', calls'[current'] # None
             PROVE  Attended' \/ WillShow(current)'
  BY DEF ShowsInv
<1>1. Attended \/ WillShow(current)
  BY DEF ShowsInv
<1>2. CASE Attended
  BY <1>2 DEF Attended
<1>3. CASE WillShow(current)
  <2>1. calls'[current'] = calls[current] /\ ft'[current'] = ft[current]
    OBVIOUS
  <2>2. \A f : \A i \in 1 .. Len(toNvim) : LastOfType(i, f) => LastOfType(i, f)'
    BY DEF LastOfType
  <2>3. \A f : NoneOfType(f) => NoneOfType(f)'
    BY DEF NoneOfType
  <2>4. QED
    BY <1>3, <2>1, <2>2, <2>3 DEF WillShow
<1>4. QED
  BY <1>1, <1>2, <1>3

LEMMA OpenTyped ==
  ASSUME TypeInv, NEW b \in open
  PROVE  ft[b] \in Types
<1>1. b \in Bufs /\ None \notin Bufs
  BY ConstantTypes DEF TypeInv, TypeOK
<1>2. CASE \A t \in Threads : th[t].num # b
  BY <1>1, <1>2 DEF TypeInv, Sound, Untouched
<1>3. ASSUME NEW t \in Threads, th[t].num = b
      PROVE  ft[b] \in Types
  <2>1. th[t].pc \notin Resting \cup {"open"}
    BY <1>1, <1>3 DEF TypeInv, Sound, ThreadSound, Placed, Opening
  <2>2. QED
    BY <1>3, <2>1 DEF TypeInv, Sound, ThreadSound
<1>4. QED
  BY <1>2, <1>3

LEMMA Executed ==
  ASSUME TypeInv, ShowsInv, NEW i \in 1 .. Len(toNvim), Execute(i), excuses' = {}
  PROVE  ShowsInv'
<1> SUFFICES ASSUME current' \in open', calls'[current'] # None
             PROVE  Attended' \/ WillShow(current)'
  BY DEF ShowsInv
<1>1. /\ UNCHANGED <<current, waiting, open, ft, calls, th>> /\ i = 1
      /\ toNvim' = SubSeq(toNvim, 1, i - 1) \o SubSeq(toNvim, i + 1, Len(toNvim))
      /\ shown' = [shown EXCEPT ![current][toNvim[1].type] = <<toNvim[1].num, toNvim[1].ver>>]
  BY DEF Execute, bdata
<1>2. Attended \/ WillShow(current)
  BY <1>1 DEF ShowsInv
<1>3. CASE Attended
  BY <1>1, <1>3 DEF Attended
<1>4. CASE WillShow(current)
  <2>1. /\ toNvim \in Seq([num : Bufs, type : Types, ver : Versions]) /\ Len(toNvim) \in Nat
        /\ shown \in [Bufs -> [Types -> (Bufs \X Versions) \cup {None}]] /\ current \in Bufs
    BY LenProperties DEF TypeInv, TypeOK
  <2>2. PICK n \in Nat : n = Len(toNvim) /\ n >= 1
    BY <2>1
  <2>3. Len(toNvim)' = n - 1 /\ \A j \in 1 .. n - 1 : toNvim'[j] = toNvim[j + 1]
    BY <1>1, <2>1, <2>2
  <2>4. toNvim[1] \in [num : Bufs, type : Types, ver : Versions]
    <3>1. 1 \in 1 .. Len(toNvim)
      BY <2>2
    <3>2. QED
      BY <2>1, <3>1, ElementOfSeq
  <2>5. PICK f \in Types : f = ft[current]
    BY <1>1, OpenTyped
  <2>6. shown'[current][f] = IF f = toNvim[1].type THEN <<toNvim[1].num, toNvim[1].ver>> ELSE shown[current][f]
    BY <1>1, <2>1, <2>4
  <2>7. ASSUME NEW j \in 1 .. n, LastOfType(j, f), toNvim[j].num = current, toNvim[j].ver = calls[current]
        PROVE  WillShow(current)'
    <3>1. CASE j = 1
      <4>1. shown'[current][f] = <<current, calls[current]>>
        BY <2>6, <2>7, <3>1 DEF LastOfType
      <4>2. ASSUME NEW k \in 1 .. n - 1
            PROVE  toNvim'[k].type # f
        <5>1. k + 1 \in 1 .. Len(toNvim) /\ ~ (k + 1 <= 1)
          BY <2>2
        <5>2. QED
          BY <2>3, <2>7, <3>1, <5>1 DEF LastOfType
      <4>3. NoneOfType(f)'
        BY <2>3, <4>2 DEF NoneOfType
      <4>4. QED
        BY <1>1, <2>5, <4>1, <4>3 DEF WillShow
    <3>2. CASE j # 1
      <4>1. PICK m \in 1 .. n - 1 : m + 1 = j
        BY <2>2, <3>2
      <4>2. ASSUME NEW k \in 1 .. n - 1, toNvim'[k].type = f
            PROVE  k <= m
        <5>1. k + 1 \in 1 .. Len(toNvim) /\ toNvim[k + 1].type = f
          BY <2>2, <2>3, <4>2
        <5>2. k + 1 <= j
          BY <2>7, <5>1 DEF LastOfType
        <5>3. QED
          BY <2>2, <4>1, <5>2
      <4>3. toNvim'[m] = toNvim[j]
        BY <2>3, <4>1
      <4>4. LastOfType(m, f)'
        BY <2>3, <2>7, <4>2, <4>3 DEF LastOfType
      <4>5. QED
        BY <1>1, <2>3, <2>5, <2>7, <4>3, <4>4 DEF WillShow
    <3>3. QED
      BY <3>1, <3>2
  <2>8. CASE NoneOfType(f) /\ shown[current][f] = <<current, calls[current]>>
    <3>1. f # toNvim[1].type
      BY <2>2, <2>8 DEF NoneOfType
    <3>2. ASSUME NEW k \in 1 .. n - 1
          PROVE  toNvim'[k].type # f
      <4>1. k + 1 \in 1 .. Len(toNvim)
        BY <2>2
      <4>2. QED
        BY <2>3, <2>8, <4>1 DEF NoneOfType
    <3>3. NoneOfType(f)'
      BY <2>3, <3>2 DEF NoneOfType
    <3>4. QED
      BY <1>1, <2>5, <2>6, <2>8, <3>1, <3>3 DEF WillShow
  <2>9. QED
    BY <1>4, <2>2, <2>5, <2>7, <2>8 DEF WillShow
<1>5. QED
  BY <1>2, <1>3, <1>4

LEMMA SentLast ==
  ASSUME TypeInv, NEW v, Send(current, v), UNCHANGED <<current, ft>>, calls'[current] = v
  PROVE  WillShow(current)'
<1> DEFINE m == [num |-> current, type |-> ft[current], ver |-> v]
<1>1. m.num = current /\ m.type = ft[current] /\ m.ver = v
  OBVIOUS
<1>2. toNvim' = Append(toNvim, m) /\ toNvim \in Seq([num : Bufs, type : Types, ver : Versions])
  BY DEF Send, TypeInv, TypeOK
<1> HIDE DEF m
<1>3. PICK n \in Nat : n = Len(toNvim)
  BY <1>2, LenProperties
<1>4. Len(toNvim)' = n + 1 /\ toNvim'[n + 1] = m
  BY <1>2, <1>3
<1>5. LastOfType(n + 1, ft[current])'
  BY <1>1, <1>3, <1>4 DEF LastOfType
<1>6. QED
  BY <1>1, <1>3, <1>4, <1>5 DEF WillShow

(* A thread that ends has sent the commands of its buffer, or it has none. *)
LEMMA ShowsEnd ==
  ASSUME TypeInv, ~ Early, CallsInv, ElsewhereInv, NEW t \in {Main, Cmd}, Ends(t),
         update_highlight(t) \/ Found(t) \/ NothingFound(t)
  PROVE  ShowsInv'
<1>1. UNCHANGED <<current, waiting, ft>>
  BY DEF update_highlight, Found, NothingFound, nvim, bdata
<1>2. /\ th[t].pc \in Using /\ th[t].num \in Bufs /\ th[t].num # None /\ th'[t].num = None
      /\ calls \in [Bufs -> Versions \cup {None}]
  <2>1. th[t].pc \in Using
    BY DEF update_highlight, Found, NothingFound, At, Using
  <2>2. th \in [Threads -> ThRecs(Len(tdirs))] /\ t \in Threads
    BY ThreadTypes, ConstantTypes DEF TypeInv
  <2>3. QED
    BY <2>1, <2>2, AtUpdate, ConstantTypes DEF Ends, Idle, TypeInv, TypeOK
<1>3. CASE th[t].num # current
  <2>1. waiting["changed"] > 0
    BY <1>2, <1>3 DEF ElsewhereInv
  <2>2. QED
    BY <1>1, <2>1 DEF ShowsInv, Attended
<1>4. CASE th[t].num = current
  <2>1. CASE update_highlight(t)
    <3>1. Send(current, calls[current]) /\ UNCHANGED calls
      <4>1. CASE calls[current] # None /\ th[t].normal
        BY <1>4, <2>1, <4>1 DEF update_highlight, bdata
      <4>2. CASE ~ (calls[current] # None /\ th[t].normal)
        <5>1. th' = [th EXCEPT ![t].pc = "ctags", ![t].run = "first"]
          BY <1>4, <2>1, <4>2 DEF update_highlight
        <5>2. th'[t].num = th[t].num
          BY <1>2, <5>1, AtUpdate DEF ThRecs
        <5>3. QED
          BY <1>2, <5>2
      <4>3. QED
        BY <4>1, <4>2
    <3>2. QED
      BY <1>1, <3>1, SentLast DEF ShowsInv
  <2>2. CASE Found(t)
    <3>1. Send(current, th[t].ver) /\ calls' = [calls EXCEPT ![current] = th[t].ver]
      BY <1>2, <1>4, <2>2 DEF Found
    <3>2. calls'[current] = th[t].ver
      BY <1>2, <1>4, <3>1
    <3>3. QED
      BY <1>1, <3>1, <3>2, SentLast DEF ShowsInv
  <2>3. CASE NothingFound(t)
    <3>1. calls[current] = None /\ UNCHANGED calls
      BY <1>4, <2>3 DEF NothingFound, At, CallsInv, Working, bdata
    <3>2. QED
      BY <1>1, <3>1 DEF ShowsInv
  <2>4. QED
    BY <2>1, <2>2, <2>3
<1>5. QED
  BY <1>3, <1>4

LEMMA ShowsOnward ==
  ASSUME TypeInv, ShowsInv, NEW t \in {Main, Cmd}, Opens(t) \/ Updates(t), th'[t].num = th[t].num,
         th[t].num \in Bufs
  PROVE  ShowsInv'
<1>1. /\ UNCHANGED <<current, waiting, shown>> /\ {Main, Cmd} \subseteq Threads /\ current \in Bufs
      /\ \A u \in {Main, Cmd} : th'[u].num = th[u].num
  BY Visits, ConstantTypes DEF nvim, TypeInv, TypeOK
<1>2. CASE th[t].num = current
  BY <1>1, <1>2 DEF ShowsInv, Attended
<1>3. CASE th[t].num # current
  <2>1. ~ Ends(t)
    <3>1. SUFFICES ASSUME Ends(t) PROVE th'[t].num = None
      BY ConstantTypes
    <3>2. th \in [Threads -> ThRecs(Len(tdirs))]
      BY ThreadTypes DEF TypeInv
    <3>3. QED
      BY <1>1, <3>1, <3>2 DEF Ends, Idle
  <2>2. UNCHANGED toNvim
    BY <2>1 DEF Opens, Open, init_topdir, CountIn, StoreIn, CreateDir, init_filetype, LockFiletypes, FillFiletype,
         get_initial_lines, get_initial_taglist, Updates, run_ctags_pipe, update_taglist,
         update_highlight, Search, Found, NothingFound
  <2>3. current \in open' => current \in open
    BY <1>3 DEF Opens, Open, init_topdir, CountIn, StoreIn, CreateDir, init_filetype, LockFiletypes, FillFiletype,
         get_initial_lines, get_initial_taglist, Updates, run_ctags_pipe, update_taglist,
         update_highlight, Search, Found, NothingFound, bdata
  <2>4. ft'[current] = ft[current] /\ calls'[current] = calls[current]
    <3>1. ft \in [Bufs -> Types \cup {None}] /\ calls \in [Bufs -> Versions \cup {None}]
      BY DEF TypeInv, TypeOK
    <3>2. UNCHANGED ft \/ ft' = [ft EXCEPT ![th[t].num] = type[th[t].num]]
      BY DEF Opens, Open, init_topdir, CountIn, StoreIn, CreateDir, init_filetype, LockFiletypes, FillFiletype,
         get_initial_lines, get_initial_taglist, Updates, run_ctags_pipe, update_taglist,
         update_highlight, Search, Found, NothingFound, bdata
    <3>3. UNCHANGED calls \/ calls' = [calls EXCEPT ![th[t].num] = None]
      BY <2>1 DEF Opens, Open, init_topdir, CountIn, StoreIn, CreateDir, init_filetype, LockFiletypes, FillFiletype,
         get_initial_lines, get_initial_taglist, Updates, run_ctags_pipe, update_taglist,
         update_highlight, Search, Found, NothingFound, bdata
    <3>4. QED
      BY <1>1, <1>3, <3>1, <3>2, <3>3
  <2>5. QED
    BY <1>1, <2>2, <2>3, <2>4, ShowsFrame
<1>4. QED
  BY <1>2, <1>3

LEMMA ClosesCalls ==
  ASSUME TypeInv, NEW t \in Threads, Destroys(t)
  PROVE  \A b \in Bufs : calls'[b] \in {None, calls[b]}
<1>1. th[t].num \in Bufs /\ calls \in [Bufs -> Versions \cup {None}]
  BY AtDestroy, DestroySteps DEF Leaving, TypeInv, TypeOK
<1>2. UNCHANGED calls \/ calls' = [calls EXCEPT ![th[t].num] = None]
  BY DEF Destroys, clear_highlight, Unlist, CountOut, StoreOut, bdata
<1>3. QED
  BY <1>1, <1>2

LEMMA ShowsClose ==
  ASSUME TypeInv, Alone, ~ Early, ElsewhereInv, ShowsInv, NEW t \in Threads, Destroys(t), excuses' = {},
         \A b \in Bufs : calls'[b] \in {None, calls[b]}
  PROVE  ShowsInv'
<1>1. /\ UNCHANGED <<current, waiting, toNvim, ft>> /\ open' \subseteq open /\ current \in Bufs
      /\ \A u \in {Main, Cmd} : th'[u].num = th[u].num
      /\ t \in {Cmd} \cup Bufs /\ th[t].num \in Bufs
  <2>1. /\ UNCHANGED <<current, waiting, toNvim>> /\ t # Main /\ th[t].num \in Bufs
        /\ \A u \in Threads \ {t} : th'[u] = th[u]
        /\ th'[t].num = th[t].num \/ t \in Bufs
    BY Closes
  <2>2. UNCHANGED ft /\ open' \subseteq open
    BY DestroySteps
  <2>3. /\ t \in {Cmd} \cup Bufs /\ {Main, Cmd} \subseteq Threads /\ Main \notin Bufs /\ Cmd \notin Bufs
        /\ current \in Bufs
    BY <2>1, ConstantTypes DEF Threads, TypeInv, TypeOK
  <2>4. \A u \in {Main, Cmd} : th'[u].num = th[u].num
    BY <2>1, <2>3
  <2>5. QED
    BY <2>1, <2>2, <2>3, <2>4
<1>2. CASE UNCHANGED shown
  BY <1>1, <1>2, ShowsFrame
<1>3. CASE clear_highlight(t) /\ th[t].num = current
  <2>1. CASE t = Cmd
    BY <1>1, <1>3, <2>1 DEF ShowsInv, Attended
  <2>2. CASE t \in Bufs
    <3>1. waiting["changed"] > 0
      BY <1>3, <2>2 DEF ElsewhereInv
    <3>2. QED
      BY <1>1, <3>1 DEF ShowsInv, Attended
  <2>3. QED
    BY <1>1, <2>1, <2>2
<1>4. CASE clear_highlight(t) /\ th[t].num # current
  <2>1. ft[th[t].num] # ft[current]
    BY <1>4 DEF clear_highlight, ClearedElsewhere
  <2>2. shown' = [shown EXCEPT ![current][ft[th[t].num]] = None]
    BY <1>4 DEF clear_highlight
  <2>3. shown \in [Bufs -> [Types -> (Bufs \X Versions) \cup {None}]]
    BY DEF TypeInv, TypeOK
  <2>4. shown'[current][ft[current]] = shown[current][ft[current]]
    BY <1>1, <2>1, <2>2, <2>3
  <2>5. QED
    BY <1>1, <2>4, ShowsFrame
<1>5. QED
  BY <1>2, <1>3, <1>4 DEF Destroys, Unlist, CountOut, StoreOut, nvim

LEMMA ShowsStep ==
  ASSUME TypeInv, Alone, ~ Early, CallsInv, ElsewhereInv, ShowsInv, [Next]_vars, excuses' = {}
  PROVE  ShowsInv'
<1>1. CASE UNCHANGED vars
  BY <1>1, ShowsFrame DEF vars, nvim, bdata
<1>2. CASE User
  <2>1. CASE waiting'["changed"] > 0
    BY <2>1 DEF ShowsInv, Attended
  <2>2. CASE UNCHANGED current
    <3>1. "changed" \in Kinds
      BY DEF Kinds
    <3>2. waiting["changed"] > 0 => waiting'["changed"] > 0
      BY <1>2, <3>1, UserSteps
    <3>3. QED
      BY <1>2, <2>2, <3>2, UserSteps, ShowsFrame
  <2>3. QED
    BY <1>2, <2>1, <2>2, UserSteps
<1>3. ASSUME NEW k \in Kinds, Take(k)
      PROVE  ShowsInv'
  <2>1. /\ UNCHANGED <<current, shown, open, ft, calls, toNvim>>
        /\ (UNCHANGED th /\ waiting'["changed"] = waiting["changed"]) \/ th'[Cmd].num = current
    BY <1>3, Taken DEF nvim, bdata
  <2>2. CASE th'[Cmd].num = current
    BY <2>1, <2>2 DEF ShowsInv, Attended
  <2>3. CASE UNCHANGED th /\ waiting'["changed"] = waiting["changed"]
    BY <2>1, <2>3, ShowsFrame
  <2>4. QED
    BY <2>1, <2>2, <2>3
<1>4. ASSUME NEW t \in {Main, Cmd}, Opens(t) \/ Updates(t)
      PROVE  ShowsInv'
  <2>1. th[t].num \in Bufs
    BY <1>4, OpensOnward, AtWork
  <2>2. QED
    BY <1>4, <2>1, Visits, ShowsEnd, ShowsOnward
<1>5. ASSUME NEW t \in Threads, Destroys(t)
      PROVE  ShowsInv'
  <2>1. \A b \in Bufs : calls'[b] \in {None, calls[b]}
    BY <1>5, ClosesCalls
  <2>2. QED
    BY <1>5, <2>1, ShowsClose
<1>6. QED
  BY <1>1, <1>2, <1>3, <1>4, <1>5, Executed DEF Next

LEMMA ShownStep == TypeInv /\ Alone /\ CallsInv /\ ShownInv /\ [Next]_vars => ShownInv'
<1> SUFFICES ASSUME TypeInv, Alone, CallsInv, ShownInv, [Next]_vars, ~ Early, excuses' = {}
             PROVE  ElsewhereInv' /\ TypedInv' /\ ShowsInv'
  BY DEF ShownInv
<1>1. ElsewhereInv /\ TypedInv /\ ShowsInv
  BY HistoryGrows DEF ShownInv
<1>2. QED
  BY <1>1, ElsewhereStep, TypedStep, ShowsStep

LEMMA ShownInit == Init => CallsInv /\ ShownInv
<1> SUFFICES ASSUME Init PROVE CallsInv /\ ShownInv
  OBVIOUS
<1>1. /\ Len(tdirs) = 0 /\ open = {} /\ calls = [b \in Bufs |-> None]
      /\ cache = [k \in Bases \X Types |-> None]
  BY DEF Init
<1>2. /\ th[Main].pc = "open" /\ th[Main].num = current
      /\ \A t \in Threads \ {Main} : th[t].pc = "idle" /\ th[t].num = None
  <2>1. Idle.pc = "idle" /\ Idle.num = None
    BY DEF Idle
  <2>2. LET r == [Idle EXCEPT !.pc = "open", !.num = current] IN r.pc = "open" /\ r.num = current
    BY DEF Idle
  <2>3. th = [t \in Threads |-> IF t = Main THEN [Idle EXCEPT !.pc = "open", !.num = current] ELSE Idle]
    BY DEF Init
  <2>4. QED
    BY <2>1, <2>2, <2>3, ConstantTypes
<1>3. CallsInv
  BY <1>1, <1>2, ConstantTypes DEF CallsInv, Disabled, Working
<1>4. ElsewhereInv
  <2>1. current \in Bufs
    BY TypeInit DEF TypeInv, TypeOK
  <2>2. \A b \in Bufs : th[b].num # current
    BY <1>2, <2>1, ConstantTypes
  <2>3. QED
    BY <1>2, <2>2, ConstantTypes DEF ElsewhereInv
<1>5. TypedInv
  BY <1>1, <1>2, ConstantTypes DEF TypedInv, HasType, Typed
<1>6. ShowsInv
  BY <1>1 DEF ShowsInv
<1>7. QED
  BY <1>3, <1>4, <1>5, <1>6 DEF ShownInv

(* When all is quiet, the current buffer shows its own commands, of the    *)
(* filetype it has: whatever buffers were entered, left, destroyed and     *)
(* retyped, and in whatever order the commands about them were handled,    *)
(* as long as nobody had one of the excuses that are listed with Quiet.    *)
THEOREM CurrentIsShown == Spec => []CurrentShown
<1>1. TypeInv /\ ShownInv => CurrentShown
  <2> SUFFICES ASSUME TypeInv, ShownInv, ~ Early, Quiet, excuses = {}, current \in open, calls[current] # None
               PROVE  /\ ft[current] = type[current]
                      /\ shown[current][ft[current]] = <<current, calls[current]>>
    BY DEF CurrentShown
  <2>1. /\ waiting["changed"] = 0 /\ waiting["syntax"] = 0 /\ Len(toNvim) = 0
        /\ \A t \in Threads : th[t].pc \in Resting
    BY DEF Quiet, Kinds, Resting
  <2>2. /\ {Main, Cmd} \subseteq Threads /\ current \in Bufs /\ current # None
        /\ \A t \in {Main, Cmd} : th[t].num = None
    BY <2>1, ConstantTypes DEF TypeInv, TypeOK, Sound, ThreadSound
  <2>3. ft[current] = type[current]
    BY <2>1, <2>2 DEF ShownInv, TypedInv, HasType, Resting
  <2>4. WillShow(current)
    BY <2>1, <2>2 DEF ShownInv, ShowsInv, Attended
  <2>5. QED
    BY <2>1, <2>3, <2>4 DEF WillShow
<1>2. Init => TagsInv
  <2> SUFFICES ASSUME Init PROVE TagsInv
    OBVIOUS
  <2>1. Len(tdirs) = 0 /\ \A t \in Threads : th[t].pc \in {"open", "idle"} /\ ~ th[t].freed
    BY DEF Init, Idle
  <2>2. QED
    BY <2>1 DEF TagsInv
<1>3. QED
  BY <1>1, <1>2, TypeInit, TypeStep, AloneInit, AloneStep, TagsStep, ShownInit, CallsStep, ShownStep, PTL DEF Spec
=============================================================================
