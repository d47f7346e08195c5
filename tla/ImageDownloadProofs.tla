-------------------------- MODULE ImageDownloadProofs --------------------------
(***************************************************************************)
(* For any images, workers and bounds: no failure, no reopening of the     *)
(* chat and no race makes the client forget an image that it shows as      *)
(* "loading" (unless one of the image's own messages was lost or torn),    *)
(* and no merged read puts the bytes of another packet into its file: what *)
(* is there is whole unless it was torn on its way or a failing write cut  *)
(* it.                                                                     *)
(***************************************************************************)
EXTENDS ImageDownload, SequenceTheorems, FiniteSetTheorems, TLAPS

\* A message about an image names one.
Fits(m) ==
    m.kind \in {"image", "writing", "spoilt", "failed", "message"} =>
        Len(m.images) = 1 /\ m.images = <<m.images[1]>> /\ m.images[1] \in Images

FittingOnes(kinds) == {m \in Messages(kinds) : Fits(m)}
Requests == FittingOnes({"history", "image"})
Jobs == FittingOnes({"none", "history", "image", "writing", "spoilt"})
Packets == FittingOnes({"message", "history", "image", "failed"})

Items == [image : Images, shows : Images \cup {None}]

\* TypeOK, with what a message about an image names said of the message's type.
TypeInv ==
    /\ connected \in BOOLEAN
    /\ open \in BOOLEAN
    /\ opens \in 0 .. MaxOpens
    /\ display \in Seq(Items)
    /\ named \subseteq Images
    /\ file \in [Images -> Files]
    /\ cut \subseteq Images
    /\ timers \in [Images -> Nat]
    /\ repeats \in [Images -> Nat]
    /\ stored \in Seq(Images)
    /\ delivering \subseteq Images
    /\ requests \in Seq(Requests)
    /\ job \in [Workers -> Jobs]
    /\ packets \in Seq(Packets)
    /\ badReads \in 0 .. MaxBadReads
    /\ failures \in 0 .. MaxFailures
    /\ damaged \subseteq Images

DownloadInv == TypeInv /\ NothingForgotten /\ CacheIsWhole

\* The places where a download can be.
Requested(i) == \E k \in DOMAIN requests : requests[k] = Message("image", <<i>>)
Served(i) == \E w \in Workers : job[w].kind \in {"image", "writing"} /\ Subject(job[w]) = i
Answered(i) ==
    \E k \in DOMAIN packets : packets[k].kind \in {"image", "failed"} /\ Subject(packets[k]) = i

-----------------------------------------------------------------------------
\* What is left when the first n elements are taken from a sequence.
LEMMA Dropped ==
    ASSUME NEW T, NEW s \in Seq(T), NEW n \in 1 .. Len(s)
    PROVE  /\ SubSeq(s, n + 1, Len(s)) \in Seq(T)
           /\ \A k \in DOMAIN s : k > n => \E l \in DOMAIN SubSeq(s, n + 1, Len(s)) :
                 SubSeq(s, n + 1, Len(s))[l] = s[k]
  <1> DEFINE t == SubSeq(s, n + 1, Len(s))
  <1>1. /\ t \in Seq(T) /\ DOMAIN t = 1 .. (Len(s) - n)
        /\ \A l \in 1 .. (Len(s) - n) : t[l] = s[n + l]
    OBVIOUS
  <1> HIDE DEF t
  <1>2. ASSUME NEW k \in DOMAIN s, k > n
        PROVE  \E l \in DOMAIN t : t[l] = s[k]
    <2>1. k - n \in 1 .. (Len(s) - n) /\ n + (k - n) = k
      BY <1>2
    <2> QED
      BY <1>1, <2>1
  <1> QED
    BY <1>1, <1>2 DEF t

\* What a piece of a sequence holds.
LEMMA Piece ==
    ASSUME NEW T, NEW s \in Seq(T), NEW m \in 1 .. Len(s) + 1, NEW n \in 0 .. Len(s)
    PROVE  /\ SubSeq(s, m, n) \in Seq(T)
           /\ \A k \in m .. n : \E l \in DOMAIN SubSeq(s, m, n) : SubSeq(s, m, n)[l] = s[k]
  <1> DEFINE t == SubSeq(s, m, n)
  <1>1. /\ t \in Seq(T) /\ DOMAIN t = 1 .. (IF m <= n THEN n - m + 1 ELSE 0)
        /\ \A l \in DOMAIN t : t[l] = s[m + l - 1]
    OBVIOUS
  <1> HIDE DEF t
  <1>2. ASSUME NEW k \in m .. n PROVE \E l \in DOMAIN t : t[l] = s[k]
    <2>1. k - m + 1 \in DOMAIN t /\ m + (k - m + 1) - 1 = k
      BY <1>1, <1>2
    <2> QED
      BY <1>1, <2>1
  <1> QED
    BY <1>1, <1>2 DEF t

\* Of messages that get lost, the images whose download they belong to are among those that suffer.
LEMMA Suffering ==
    ASSUME NEW s \in Seq(Requests \cup Packets)
    PROVE  /\ Suffers(s) \subseteq Images
           /\ \A k \in DOMAIN s : s[k].kind \in {"image", "failed"} => Subject(s[k]) \in Suffers(s)
  <1>1. \A k \in DOMAIN s : s[k] \in Requests \cup Packets
    OBVIOUS
  <1>2. \A k \in DOMAIN s : s[k].kind \in {"image", "failed"} => Subject(s[k]) \in Images
    BY <1>1 DEF Requests, Packets, FittingOnes, Fits, Subject
  <1> QED
    BY <1>2 DEF Suffers

\* The messages that the model builds.
LEMMA Built ==
    ASSUME NEW i \in Images
    PROVE  /\ Message("image", <<i>>) \in Requests \cap Packets
           /\ Message("message", <<i>>) \in Packets
           /\ Message("failed", <<i>>) \in Packets
           /\ \A kind \in {"image", "failed", "message"} :
                 Subject(Message(kind, <<i>>)) = i /\ Message(kind, <<i>>).kind = kind
  BY DEF Message, Requests, Packets, FittingOnes, Fits, Messages, Subject

\* So are those about the images of a history, and the job of an idle worker is one.
LEMMA BuiltForHistory ==
    /\ Message("history", << >>) \in Requests
    /\ \A s \in Seq(Images) : Message("history", s) \in Packets
    /\ NoJob \in Jobs /\ NoJob.kind = "none"
  BY DEF Message, Requests, Packets, Jobs, FittingOnes, Fits, Messages, NoJob

\* A message about an image is rebuilt from its subject.
LEMMA Rebuilt ==
    ASSUME NEW m \in Requests \cup Jobs \cup Packets,
           m.kind \in {"image", "writing", "spoilt", "failed", "message"}
    PROVE  Subject(m) \in Images /\ m.images = <<Subject(m)>>
  BY DEF Requests, Packets, Jobs, FittingOnes, Fits, Subject

\* Post: the message is behind the packets, or it, or the image of one that is being written, has
\* suffered.
LEMMA Posted ==
    ASSUME TypeInv, NEW p \in Packets, NEW j \in [Workers -> Jobs], Post(p, j),
           \A w \in Workers : j[w].kind = "writing" => j[w] = job[w]
    PROVE  /\ packets' \in Seq(Packets) /\ job' \in [Workers -> Jobs]
           /\ damaged' \subseteq Images /\ damaged \subseteq damaged'
           /\ connected => \A x : Answered(x) => Answered(x)'
           /\ connected /\ p.kind \in {"image", "failed"} =>
                 Answered(Subject(p))' \/ Subject(p) \in damaged'
           /\ \A w \in Workers :
                 job'[w] = j[w] \/ (j[w].kind = "writing" /\ Subject(job[w]) \in damaged')
  <1>1. packets \in Seq(Packets) /\ damaged \subseteq Images
    BY DEF TypeInv
  <1>2. /\ Append(packets, p) \in Seq(Packets)
        /\ DOMAIN Append(packets, p) = 1 .. (Len(packets) + 1) /\ DOMAIN packets = 1 .. Len(packets)
        /\ Append(packets, p)[Len(packets) + 1] = p
        /\ \A k \in DOMAIN packets : Append(packets, p)[k] = packets[k]
    BY <1>1, AppendProperties
  <1>3. ASSUME packets' = Append(packets, p)
        PROVE  /\ \A x : Answered(x) => Answered(x)'
               /\ p.kind \in {"image", "failed"} => Answered(Subject(p))'
    <2>1. Len(packets) + 1 \in DOMAIN packets'
      BY <1>1, <1>2, <1>3
    <2>2. \A k \in DOMAIN packets : k \in DOMAIN packets'
      BY <1>1, <1>2, <1>3, SMTT(40)
    <2> QED
      BY <1>2, <1>3, <2>1, <2>2 DEF Answered
  <1>4. ASSUME packets' = IF connected THEN Append(packets, p) ELSE packets
        PROVE  /\ packets' \in Seq(Packets)
               /\ connected => \A x : Answered(x) => Answered(x)'
               /\ connected /\ p.kind \in {"image", "failed"} => Answered(Subject(p))'
    BY <1>1, <1>2, <1>3, <1>4
  <1>5. CASE packets' = (IF connected THEN Append(packets, p) ELSE packets) /\ job' = j
             /\ UNCHANGED damaged
    BY <1>1, <1>4, <1>5
  <1>6. ASSUME job' = j, damaged' = damaged \cup Suffers(<<p>>), UNCHANGED packets
        PROVE  /\ damaged' \subseteq Images
               /\ p.kind \in {"image", "failed"} => Subject(p) \in damaged'
    <2>1. <<p>> \in Seq(Requests \cup Packets) /\ 1 \in DOMAIN <<p>> /\ <<p>>[1] = p
      OBVIOUS
    <2>2. /\ Suffers(<<p>>) \subseteq Images
          /\ p.kind \in {"image", "failed"} => Subject(p) \in Suffers(<<p>>)
      BY <2>1, Suffering
    <2> QED
      BY <1>1, <1>6, <2>2
  <1>7. ASSUME NEW w \in Workers, j[w].kind = "writing",
               packets' = IF connected THEN Append(packets, p) ELSE packets,
               job' = [j EXCEPT ![w].kind = "spoilt"],
               damaged' = damaged \cup {Subject(job[w])}
        PROVE  /\ damaged' \subseteq Images /\ job' \in [Workers -> Jobs]
               /\ \A v \in Workers : job'[v] = j[v] \/ v = w
    <2>1. Subject(job[w]) \in Images
      BY <1>7, Rebuilt
    <2>2. [j[w] EXCEPT !.kind = "spoilt"] \in Jobs
      BY <1>7 DEF Jobs, FittingOnes, Messages, Fits
    <2>3. \A v \in Workers : job'[v] = IF v = w THEN [j[w] EXCEPT !.kind = "spoilt"] ELSE j[v]
      BY <1>7
    <2>4. job' \in [Workers -> Jobs]
      BY <1>7, <2>2
    <2> QED
      BY <1>1, <1>7, <2>1, <2>3, <2>4
  <1>8. CASE \E w \in {v \in Workers : j[v].kind = "writing"} :
               /\ job' = j
               /\ damaged' = damaged \cup Suffers(<<p>>)
               /\ UNCHANGED packets
    <2>1. job' = j /\ damaged' = damaged \cup Suffers(<<p>>) /\ UNCHANGED packets
      BY <1>8
    <2>2. \A x : Answered(x) => Answered(x)'
      BY <2>1 DEF Answered
    <2> QED
      BY <1>1, <1>6, <2>1, <2>2
  <1>9. CASE \E w \in {v \in Workers : j[v].kind = "writing"} :
               /\ packets' = IF connected THEN Append(packets, p) ELSE packets
               /\ job' = [j EXCEPT ![w].kind = "spoilt"]
               /\ damaged' = damaged \cup {Subject(job[w])}
    <2>1. PICK w \in Workers :
               /\ j[w].kind = "writing"
               /\ packets' = IF connected THEN Append(packets, p) ELSE packets
               /\ job' = [j EXCEPT ![w].kind = "spoilt"]
               /\ damaged' = damaged \cup {Subject(job[w])}
      BY <1>9
    <2> QED
      BY <1>4, <1>7, <2>1
  <1> QED
    BY <1>5, <1>8, <1>9 DEF Post

\* Image m is in the cache.
InCache(m) == Cached(m, file[m])

\* Download: the request is behind the others, if the image is not in the cache.
LEMMA Asked ==
    ASSUME TypeInv, NEW i \in Images, NEW f, Download(i, f)
    PROVE  /\ requests' \in Seq(Requests) /\ named' \subseteq Images
           /\ \A m : Requested(m) => Requested(m)'
           /\ connected /\ ~Cached(i, f) => Requested(i)'
           /\ Cached(i, f) => i \in named'
           /\ \A m \in Images : m # i => (m \in named' <=> m \in named)
  <1>1. requests \in Seq(Requests) /\ Message("image", <<i>>) \in Requests
    BY Built DEF TypeInv
  <1>2. ASSUME connected, ~Cached(i, f)
        PROVE  /\ requests' \in Seq(Requests) /\ Requested(i)'
               /\ \A m : Requested(m) => Requested(m)'
    <2>1. requests' = Append(requests, Message("image", <<i>>))
      BY <1>2 DEF Download
    <2>2. /\ requests' \in Seq(Requests)
          /\ DOMAIN requests' = 1 .. (Len(requests) + 1) /\ DOMAIN requests = 1 .. Len(requests)
          /\ requests'[Len(requests) + 1] = Message("image", <<i>>)
          /\ \A k \in DOMAIN requests : requests'[k] = requests[k]
      BY <1>1, <2>1, AppendProperties
    <2>3. Len(requests) + 1 \in DOMAIN requests' /\ \A k \in DOMAIN requests : k \in DOMAIN requests'
      BY <1>1, <2>2
    <2> QED
      BY <2>2, <2>3 DEF Requested
  <1>3. ASSUME ~(connected /\ ~Cached(i, f))
        PROVE  requests' \in Seq(Requests) /\ \A m : Requested(m) => Requested(m)'
    BY <1>1, <1>3 DEF Download, Requested
  <1>4. /\ named' \subseteq Images /\ (Cached(i, f) => i \in named')
        /\ \A m \in Images : m # i => (m \in named' <=> m \in named)
    BY DEF Download, Cached, TypeInv
  <1> QED
    BY <1>2, <1>3, <1>4

\* What a read takes from the packets.
LEMMA Received ==
    ASSUME TypeInv, NEW kind, Receive(kind)
    PROVE  /\ packets' \in Seq(Packets) /\ packets # << >>
           /\ Head(packets) \in Packets /\ Head(packets).kind = kind
           /\ \A x : Answered(x) =>
                 Answered(x)' \/ (kind \in {"image", "failed"} /\ x = Subject(Head(packets)))
  <1>1. packets \in Seq(Packets) /\ packets # << >> /\ packets' = Tail(packets)
        /\ Head(packets).kind = kind
    BY DEF TypeInv, Receive
  <1>2. /\ packets' \in Seq(Packets) /\ Head(packets) \in Packets /\ Head(packets) = packets[1]
        /\ DOMAIN packets = 1 .. Len(packets) /\ DOMAIN packets' = 1 .. (Len(packets) - 1)
        /\ \A l \in DOMAIN packets' : packets'[l] = packets[l + 1]
    BY <1>1
  <1>3. \A k \in DOMAIN packets : k = 1 \/ (k - 1 \in DOMAIN packets' /\ packets'[k - 1] = packets[k])
    BY <1>1, <1>2
  <1> QED
    BY <1>1, <1>2, <1>3 DEF Answered

\* What a read that is not one packet takes, and which images suffer.
LEMMA Lost ==
    ASSUME TypeInv, NEW n \in 1 .. Len(packets), packets' = SubSeq(packets, n + 1, Len(packets)),
           NEW i, Answered(i)
    PROVE  \/ Answered(i)'
           \/ \E k \in 1 .. n : packets[k].kind \in {"image", "failed"} /\ Subject(packets[k]) = i
  <1>1. PICK k \in DOMAIN packets : packets[k].kind \in {"image", "failed"} /\ Subject(packets[k]) = i
    BY DEF Answered
  <1>2. packets \in Seq(Packets) /\ DOMAIN packets = 1 .. Len(packets)
    BY DEF TypeInv
  <1>3. CASE k <= n
    <2>1. k \in 1 .. n
      <3>1. Len(packets) \in Nat /\ k \in 1 .. Len(packets)
        BY <1>2
      <3> QED
        BY <1>3, <3>1
    <2> QED
      BY <1>1, <2>1
  <1>4. CASE k > n
    <2>1. \E l \in DOMAIN packets' : packets'[l] = packets[k]
      BY <1>2, <1>4, Dropped
    <2> QED
      BY <1>1, <2>1 DEF Answered
  <1>5. Len(packets) \in Nat /\ k \in 1 .. Len(packets)
    BY <1>2
  <1> QED
    BY <1>3, <1>4, <1>5

\* The messages of a piece of the packets that are about an image suffer.
LEMMA PieceSuffers ==
    ASSUME TypeInv, NEW m \in 1 .. Len(packets) + 1, NEW n \in 0 .. Len(packets)
    PROVE  /\ Suffers(SubSeq(packets, m, n)) \subseteq Images
           /\ \A k \in m .. n : packets[k].kind \in {"image", "failed"} =>
                 Subject(packets[k]) \in Suffers(SubSeq(packets, m, n))
  <1>1. packets \in Seq(Requests \cup Packets)
    <2>1. packets \in Seq(Packets)
      BY DEF TypeInv
    <2> QED
      BY <2>1
  <1>2. /\ SubSeq(packets, m, n) \in Seq(Requests \cup Packets)
        /\ \A k \in m .. n : \E l \in DOMAIN SubSeq(packets, m, n) :
              SubSeq(packets, m, n)[l] = packets[k]
    BY <1>1, Piece
  <1> QED
    BY <1>2, Suffering

\* The messages of the head and of the rest of a read, without its k-th packet, suffer.
LEMMA OthersSuffer ==
    ASSUME TypeInv, NEW n \in 1 .. Len(packets), NEW k \in 1 .. n,
           NEW d, d = Suffers(SubSeq(packets, 1, k - 1) \o SubSeq(packets, k + 1, n))
    PROVE  /\ d \subseteq Images
           /\ \A l \in 1 .. n : l # k /\ packets[l].kind \in {"image", "failed"} =>
                 Subject(packets[l]) \in d
  <1> DEFINE a == SubSeq(packets, 1, k - 1)
             b == SubSeq(packets, k + 1, n)
  <1>1. packets \in Seq(Requests \cup Packets)
    <2>1. packets \in Seq(Packets)
      BY DEF TypeInv
    <2> QED
      BY <2>1
  <1>2. k \in 1 .. Len(packets) /\ k - 1 \in 0 .. Len(packets) /\ Len(packets) \in Nat
        /\ k + 1 \in 1 .. (Len(packets) + 1) /\ 1 \in 1 .. (Len(packets) + 1) /\ n \in 0 .. Len(packets)
    BY <1>1
  <1>3. /\ a \in Seq(Requests \cup Packets)
        /\ \A l \in 1 .. (k - 1) : \E j \in DOMAIN a : a[j] = packets[l]
    BY <1>1, <1>2, Piece
  <1>4. /\ b \in Seq(Requests \cup Packets)
        /\ \A l \in (k + 1) .. n : \E j \in DOMAIN b : b[j] = packets[l]
    BY <1>1, <1>2, Piece
  <1> HIDE DEF a, b
  <1>5. /\ a \o b \in Seq(Requests \cup Packets)
        /\ DOMAIN (a \o b) = 1 .. (Len(a) + Len(b))
        /\ \A j \in DOMAIN a : j \in DOMAIN (a \o b) /\ (a \o b)[j] = a[j]
        /\ \A j \in DOMAIN b : Len(a) + j \in DOMAIN (a \o b) /\ (a \o b)[Len(a) + j] = b[j]
    BY <1>3, <1>4
  <1>6. ASSUME NEW l \in 1 .. n, l # k
        PROVE  \E j \in DOMAIN (a \o b) : (a \o b)[j] = packets[l]
    <2>1. l \in 1 .. (k - 1) \/ l \in (k + 1) .. n
      BY <1>6
    <2> QED
      BY <1>3, <1>4, <1>5, <2>1
  <1>7. /\ Suffers(a \o b) \subseteq Images
        /\ \A j \in DOMAIN (a \o b) : (a \o b)[j].kind \in {"image", "failed"} =>
              Subject((a \o b)[j]) \in Suffers(a \o b)
    BY <1>5, Suffering
  <1>8. d = Suffers(a \o b)
    BY DEF a, b
  <1> QED
    BY <1>6, <1>7, <1>8

\* Every placeholder is filled; what else is shown stays.
LEMMA FilledFits ==
    ASSUME TypeInv, NEW i \in Images
    PROVE  /\ Filled(i) \in Seq(Items)
           /\ \A k \in DOMAIN Filled(i) : Filled(i)[k].shows = None =>
                 k \in DOMAIN display /\ display[k] = Filled(i)[k]
  <1>1. display \in Seq(Items)
    BY DEF TypeInv
  <1>2. \A k \in DOMAIN display : display[k] \in Items
    BY <1>1
  <1>3. \A x \in Items : Item(x.image, i) \in Items /\ Item(x.image, i).shows # None
    BY ImageDownloadAssumption DEF Item, Items
  <1>4. /\ DOMAIN Filled(i) = DOMAIN display /\ DOMAIN display = 1 .. Len(display)
        /\ Len(display) \in Nat
        /\ \A k \in DOMAIN display : Filled(i)[k] =
              IF display[k].shows = None THEN Item(display[k].image, i) ELSE display[k]
    BY <1>1 DEF Filled
  <1>5. Filled(i) \in Seq(Items)
    <2>1. Filled(i) \in [1 .. Len(display) -> Items]
      BY <1>1, <1>2, <1>3 DEF Filled
    <2> QED
      BY <1>4, <2>1
  <1> QED
    BY <1>2, <1>3, <1>4, <1>5

\* What a file that is put into the cache does to the list.
LEMMA Saved ==
    ASSUME TypeInv, NEW i \in Images, NEW quality \in Files \ {"none"}, Save(i, quality)
    PROVE  /\ display' \in Seq(Items) /\ named' = named \cup {i}
           /\ file' \in [Images -> Files]
           /\ timers' \in [Images -> Nat] /\ repeats' \in [Images -> Nat]
           /\ \A k \in DOMAIN display' : display'[k].shows = None =>
                 k \in DOMAIN display /\ display[k] = display'[k]
           /\ \A m \in Images : timers[m] > 0 => timers'[m] > 0
           /\ InCache(i)' \/ timers'[i] > 0
           /\ file'[i] = quality /\ \A m \in Images : m # i => file'[m] = file[m]
  <1>1. /\ display \in Seq(Items) /\ file \in [Images -> Files]
        /\ timers \in [Images -> Nat] /\ repeats \in [Images -> Nat]
    BY DEF TypeInv
  <1>2. display' \in {display, Filled(i)}
    BY DEF Save
  <1>3. /\ file' \in [Images -> Files] /\ named' = named \cup {i}
        /\ file'[i] = quality /\ \A m \in Images : m # i => file'[m] = file[m]
    BY <1>1 DEF Save
  <1>4. /\ timers' \in [Images -> Nat]
        /\ \A m \in Images : timers[m] > 0 => timers'[m] > 0
        /\ quality \notin Loadable => timers'[i] > 0
    <2>1. CASE quality \in Loadable
      BY <1>1, <2>1 DEF Save
    <2>2. CASE quality \notin Loadable
      <3>1. timers' = [timers EXCEPT ![i] = @ + 1]
        BY <2>2 DEF Save
      <3>2. timers' \in [Images -> Nat] /\ timers'[i] = timers[i] + 1
            /\ \A m \in Images : m # i => timers'[m] = timers[m]
        BY <1>1, <3>1
      <3>3. timers[i] \in Nat /\ timers[i] + 1 > 0
        BY <1>1
      <3> QED
        BY <3>2, <3>3
    <2> QED
      BY <2>1, <2>2
  <1>5. repeats' \in [Images -> Nat]
    <2>1. CASE repeats' = repeats
      BY <1>1, <2>1
    <2>2. CASE repeats' = [repeats EXCEPT ![i] = @ + 1]
      BY <1>1, <2>2
    <2> QED
      BY <2>1, <2>2 DEF Save
  <1>6. InCache(i)' \/ quality \notin Loadable
    BY <1>3 DEF InCache, Cached, Absent, Loadable
  <1> QED
    BY <1>1, <1>2, <1>3, <1>4, <1>5, <1>6, FilledFits

\* An answer that is written to the image's file, or fails to be: the image is in the cache, or it
\* will be asked for again; its file is as the answer made it, as it was, or cut.
LEMMA Tried ==
    ASSUME TypeInv, NEW i \in Images, NEW quality \in Files \ {"none"}, TrySave(i, quality)
    PROVE  /\ display' \in Seq(Items) /\ requests' \in Seq(Requests)
           /\ named' \subseteq Images /\ file' \in [Images -> Files] /\ cut' \subseteq Images
           /\ timers' \in [Images -> Nat] /\ repeats' \in [Images -> Nat]
           /\ failures' \in 0 .. MaxFailures
           /\ UNCHANGED <<connected, open, opens, stored, delivering, job>>
           /\ \A k \in DOMAIN display' : display'[k].shows = None =>
                 k \in DOMAIN display /\ display[k] = display'[k]
           /\ \A m : Requested(m) => Requested(m)'
           /\ \A m \in Images : timers[m] > 0 => timers'[m] > 0
           /\ connected => InCache(i)' \/ Requested(i)' \/ timers'[i] > 0
           /\ \A m \in Images : m # i => file'[m] = file[m] /\ (InCache(m) => InCache(m)')
           /\ cut \subseteq cut' /\ (file'[i] \in {file[i], quality} \/ i \in cut')
  <1> USE DEF chat, pending, server
  <1>1. CASE Save(i, quality) /\ UNCHANGED <<failures, cut>>
    <2>1. /\ requests' = requests /\ UNCHANGED <<connected, open, opens, stored, delivering, job>>
          /\ \A m : Requested(m) => Requested(m)'
      BY <1>1 DEF Save, Requested
    <2>2. \A m \in Images : m # i => file'[m] = file[m] /\ (InCache(m) => InCache(m)')
      BY <1>1, Saved DEF InCache, Cached
    <2> QED
      BY <1>1, <2>1, <2>2, Saved DEF TypeInv
  <1>2. CASE SaveCut(i)
    <2>1. PICK q \in Cut : Save(i, q)
      BY <1>2 DEF SaveCut
    <2>2. q \in Files \ {"none"}
      BY DEF Files, Cut
    <2>3. /\ requests' = requests /\ UNCHANGED <<connected, open, opens, stored, delivering, job>>
          /\ \A m : Requested(m) => Requested(m)'
      BY <2>1 DEF Save, Requested
    <2>4. \A m \in Images : m # i => file'[m] = file[m] /\ (InCache(m) => InCache(m)')
      BY <2>1, <2>2, Saved DEF InCache, Cached
    <2>5. failures' \in 0 .. MaxFailures /\ cut' = cut \cup {i}
      BY <1>2, ImageDownloadAssumption DEF SaveCut, TypeInv
    <2> QED
      BY <2>1, <2>2, <2>3, <2>4, <2>5, Saved DEF TypeInv
  <1>3. CASE SaveFails(i)
    <2>1. /\ failures' \in 0 .. MaxFailures
          /\ UNCHANGED <<connected, open, opens, display, timers, repeats, stored, delivering, job>>
      BY <1>3, ImageDownloadAssumption DEF SaveFails, TypeInv
    <2>2. PICK f \in Files :
            /\ Download(i, f) /\ file' = [file EXCEPT ![i] = f]
            /\ (f = file[i] /\ cut' = cut) \/ cut' = cut \cup {i}
      <3>1. CASE Download(i, file[i]) /\ UNCHANGED <<file, cut>>
        BY <3>1 DEF TypeInv
      <3>2. CASE \E q \in Cut : /\ file' = [file EXCEPT ![i] = q]
                                /\ cut' = cut \cup {i}
                                /\ Download(i, q)
        BY <3>2 DEF Files
      <3> QED
        BY <1>3, <3>1, <3>2 DEF SaveFails
    <2>3. /\ requests' \in Seq(Requests) /\ named' \subseteq Images
          /\ \A m : Requested(m) => Requested(m)'
          /\ connected /\ ~Cached(i, f) => Requested(i)'
          /\ Cached(i, f) => i \in named'
          /\ \A m \in Images : m # i => (m \in named' <=> m \in named)
      BY <2>2, Asked
    <2>4. /\ file' \in [Images -> Files] /\ file'[i] = f
          /\ \A m \in Images : m # i => file'[m] = file[m]
      BY <2>2 DEF TypeInv
    <2>5. connected => InCache(i)' \/ Requested(i)'
      BY <2>3, <2>4 DEF InCache, Cached
    <2>6. \A m \in Images : m # i => (InCache(m) => InCache(m)')
      BY <2>3, <2>4 DEF InCache, Cached
    <2>7. cut' \subseteq Images /\ cut \subseteq cut' /\ (file'[i] \in {file[i], quality} \/ i \in cut')
      BY <2>2, <2>4 DEF TypeInv
    <2>8. \A k \in DOMAIN display' : display'[k].shows = None =>
             k \in DOMAIN display /\ display[k] = display'[k]
      BY <2>1
    <2> QED
      BY <2>1, <2>3, <2>4, <2>5, <2>6, <2>7, <2>8 DEF TypeInv
  <1> QED
    BY <1>1, <1>2, <1>3 DEF TrySave

\* What the history shows, and that it is asked for.
LEMMA Listed ==
    ASSUME TypeInv, handleHistory
    PROVE  /\ display' \in Seq(Items) /\ requests' \in Seq(Requests)
           /\ \A m : Requested(m) => Requested(m)'
           /\ connected => \A m \in Images : \A k \in DOMAIN display' :
                 display'[k].image = m /\ display'[k].shows = None /\ ~InCache(m) => Requested(m)'
           /\ named' \subseteq Images
           /\ \A m \in Images : InCache(m) => InCache(m)'
  <1> DEFINE images == Head(packets).images
             W == {k \in DOMAIN images : connected /\ ~Cached(images[k], file[images[k]])}
  <1>1. images \in Seq(Images) /\ requests \in Seq(Requests)
    <2>1. Head(packets) \in Packets
      BY Received DEF handleHistory
    <2> QED
      BY <2>1 DEF Packets, FittingOnes, Messages, TypeInv
  <1>2. display' = [k \in DOMAIN images |->
                      Item(images[k], IF Shown(images[k]) THEN images[k] ELSE None)]
    BY DEF handleHistory
  <1>3. PICK f \in Listings(W) :
          requests' = requests \o [a \in DOMAIN f |-> Message("image", <<images[f[a]]>>)]
    BY DEF handleHistory
  <1>4. /\ DOMAIN f = 1 .. Cardinality(W) /\ \A a \in DOMAIN f : f[a] \in W
        /\ \A k \in W : \E a \in DOMAIN f : f[a] = k
    BY <1>3 DEF Listings
  <1>5. Cardinality(W) \in Nat
    <2>1. IsFiniteSet(DOMAIN images)
      <3>1. DOMAIN images = 1 .. Len(images) /\ Len(images) \in Nat
        BY <1>1
      <3> QED
        BY <3>1, FS_Interval
    <2>2. IsFiniteSet(W)
      BY <2>1, FS_Subset
    <2> QED
      BY <2>2, FS_CardinalityType
  <1>6. \A k \in DOMAIN images : images[k] \in Images
    BY <1>1
  <1> DEFINE q == [a \in DOMAIN f |-> Message("image", <<images[f[a]]>>)]
  <1>7. \A a \in DOMAIN f : q[a] = Message("image", <<images[f[a]]>>) /\ q[a] \in Requests
    BY <1>4, <1>6, Built
  <1>8. q \in Seq(Requests) /\ DOMAIN q = DOMAIN f
    <2>1. DOMAIN q = 1 .. Cardinality(W)
      BY <1>4
    <2>2. q \in [1 .. Cardinality(W) -> Requests]
      BY <1>4, <1>7
    <2> HIDE DEF q, W
    <2> QED
      BY <1>4, <1>5, <2>1, <2>2
  <1>9. /\ DOMAIN images = 1 .. Len(images) /\ Len(images) \in Nat
        /\ \A k \in DOMAIN images :
              /\ display'[k].image = images[k] /\ display'[k] \in Items
              /\ display'[k].shows = None => ~Shown(images[k])
    BY <1>1, <1>2, <1>6, ImageDownloadAssumption DEF Item, Items
  <1>10. display' \in Seq(Items) /\ DOMAIN display' = DOMAIN images
    <2>1. DOMAIN display' = DOMAIN images
      BY <1>2
    <2>2. display' \in [1 .. Len(images) -> Items]
      <3>1. \A k \in DOMAIN images : display'[k] \in Items
        BY <1>9
      <3> QED
        BY <1>2, <1>9, <2>1, <3>1
    <2> HIDE DEF images
    <2> QED
      BY <1>9, <2>1, <2>2
  <1>11. \A k \in W : \E a \in DOMAIN q : q[a] = Message("image", <<images[k]>>)
    BY <1>4, <1>7, <1>8
  <1> HIDE DEF q
  <1>12. /\ requests' \in Seq(Requests)
         /\ \A k \in DOMAIN requests : k \in DOMAIN requests' /\ requests'[k] = requests[k]
         /\ \A a \in DOMAIN q :
               Len(requests) + a \in DOMAIN requests' /\ requests'[Len(requests) + a] = q[a]
    <2>1. requests' = requests \o q
      BY <1>3 DEF q
    <2> QED
      BY <1>1, <1>8, <2>1
  <1>13. \A m : Requested(m) => Requested(m)'
    BY <1>12 DEF Requested
  <1>14. \A m \in Images : (\E k \in W : images[k] = m) => Requested(m)'
    BY <1>11, <1>12 DEF Requested
  <1>15. ASSUME connected, NEW m \in Images, NEW k \in DOMAIN display',
                display'[k].image = m, display'[k].shows = None, ~InCache(m)
         PROVE  Requested(m)'
    <2>1. k \in W /\ images[k] = m
      BY <1>9, <1>10, <1>15 DEF InCache
    <2> QED
      BY <1>14, <2>1
  <1>16. named' = named \ {images[k] : k \in {j \in DOMAIN images : file[images[j]] \in Absent}}
         /\ file' = file
    BY DEF handleHistory
  <1>17. named' \subseteq Images /\ \A m \in Images : InCache(m) => InCache(m)'
    BY <1>16 DEF InCache, Cached, TypeInv
  <1> QED
    BY <1>10, <1>12, <1>13, <1>15, <1>17

\* An image message: what is shown is loaded, is asked for, or was shown before.
LEMMA Noted ==
    ASSUME TypeInv, handleMessage
    PROVE  /\ display' \in Seq(Items) /\ requests' \in Seq(Requests)
           /\ named' \subseteq Images /\ file' \in [Images -> Files]
           /\ \A m \in Images : file'[m] \in {file[m], "whole"} /\ (InCache(m) => InCache(m)')
           /\ \A m : Requested(m) => Requested(m)'
           /\ connected => \A m \in Images : \A k \in DOMAIN display' :
                 display'[k].image = m /\ display'[k].shows = None =>
                     \/ k \in DOMAIN display /\ display'[k] = display[k]
                     \/ Requested(m)'
                     \/ InCache(m)'
  <1> DEFINE i == Subject(Head(packets))
  <1>1. i \in Images
    <2>1. Head(packets) \in Packets /\ Head(packets).kind = "message"
      BY Received DEF handleMessage
    <2> QED
      BY <2>1, Rebuilt
  <1>2. /\ display \in Seq(Items) /\ requests \in Seq(Requests)
        /\ named \subseteq Images /\ file \in [Images -> Files]
    BY DEF TypeInv
  <1>3. PICK shown \in {i, None} :
          /\ display' = IF open THEN Append(display, Item(i, shown)) ELSE display
          /\ \/ /\ file' = [file EXCEPT ![i] = IF file[i] = "none" THEN "whole" ELSE file[i]]
                /\ named' = named \cup {i} /\ UNCHANGED requests /\ shown = i
             \/ Download(i, file[i]) /\ UNCHANGED file
             \/ UNCHANGED <<named, file, requests>> /\ shown = i
    BY DEF handleMessage
  <1> HIDE DEF i
  <1>4. Item(i, shown) \in Items /\ Item(i, shown).shows = shown /\ Item(i, shown).image = i
    BY <1>1, <1>3 DEF Item, Items
  <1>5. display' \in Seq(Items)
    BY <1>2, <1>3, <1>4
  <1>6. \A k \in DOMAIN display' :
           (k \in DOMAIN display /\ display'[k] = display[k]) \/ display'[k] = Item(i, shown)
    BY <1>2, <1>3, <1>4, AppendProperties
  <1>7. /\ file' \in [Images -> Files]
        /\ \A m \in Images : file'[m] = file[m] \/ (file[m] = "none" /\ file'[m] = "whole")
    BY <1>1, <1>2, <1>3 DEF Files
  <1>11. /\ named' \subseteq Images
         /\ \A m \in Images : m \in named /\ file[m] \notin Absent => m \in named'
    BY <1>1, <1>2, <1>3 DEF Download, Cached
  <1>12. \A m \in Images : file'[m] \in {file[m], "whole"} /\ (InCache(m) => InCache(m)')
    BY <1>7, <1>11 DEF InCache, Cached, Absent
  <1>8. /\ requests' \in Seq(Requests) /\ \A m : Requested(m) => Requested(m)'
    <2>1. ASSUME NEW m \in Images, m = i, Download(m, file[m])
          PROVE  requests' \in Seq(Requests) /\ \A n : Requested(n) => Requested(n)'
      BY <2>1, Asked
    <2>2. CASE UNCHANGED requests
      BY <1>2, <2>2 DEF Requested
    <2>3. Download(i, file[i]) => \E m \in Images : m = i /\ Download(m, file[m])
      BY <1>1
    <2> QED
      BY <1>3, <2>1, <2>2, <2>3
  <1>9. ASSUME connected, shown = None, NEW m \in Images, m = i
        PROVE  Requested(m)' \/ InCache(m)'
    <2>1. Download(m, file[m]) /\ UNCHANGED file
      BY <1>1, <1>3, <1>9, ImageDownloadAssumption
    <2>2. ~InCache(m) => Requested(m)'
      BY <1>9, <2>1, Asked DEF InCache
    <2> QED
      BY <1>12, <2>2
  <1>10. ASSUME connected, NEW m \in Images, NEW k \in DOMAIN display',
                display'[k].image = m, display'[k].shows = None
         PROVE  \/ k \in DOMAIN display /\ display'[k] = display[k]
                \/ Requested(m)' \/ InCache(m)'
    BY <1>4, <1>6, <1>9, <1>10
  <1> QED
    BY <1>5, <1>7, <1>8, <1>10, <1>11, <1>12

--------------------------------------------------------------------------------
\* Every step keeps the types.
LEMMA TypesKept ==
    ASSUME TypeInv, [Next]_vars
    PROVE  TypeInv'
  <1> USE DEF chat, cache, pending, server, bounds
  <1>1. ASSUME NEW i \in Images, Store(i) PROVE TypeInv'
    <2>1. stored' \in Seq(Images)
      BY <1>1 DEF Store, TypeInv
    <2> QED
      BY <1>1, <2>1 DEF Store, TypeInv
  <1>2. ASSUME NEW i \in Images, Deliver(i) PROVE TypeInv'
    <2>1. Message("message", <<i>>) \in Packets
      BY <1>2, Built, BuiltForHistory, Rebuilt DEF TypeInv, Deliver, Message
    <2> DEFINE j == job
    <2>2. j \in [Workers -> Jobs] /\ \A v \in Workers : j[v].kind = "writing" => j[v] = job[v]
      BY <1>2, BuiltForHistory DEF TypeInv
    <2>3. Post(Message("message", <<i>>), j)
      BY <1>2 DEF Deliver
    <2> HIDE DEF j
    <2>4. /\ packets' \in Seq(Packets) /\ job' \in [Workers -> Jobs]
          /\ damaged' \subseteq Images
      BY <2>1, <2>2, <2>3, Posted
    <2> QED
      BY <1>2, <2>4 DEF TypeInv, Deliver
  <1>3. ASSUME NEW i \in Images, RetryTimer(i) PROVE TypeInv'
    <2>1. requests' \in Seq(Requests) /\ named' \subseteq Images
      BY <1>3, Asked DEF RetryTimer
    <2>2. timers' \in [Images -> Nat]
      BY <1>3 DEF RetryTimer, TypeInv
    <2> QED
      BY <1>3, <2>1, <2>2 DEF RetryTimer, TypeInv
  <1>4. ASSUME NEW i \in Images, RepeatTimer(i) PROVE TypeInv'
    <2>1. repeats' \in [Images -> Nat]
      BY <1>4 DEF RepeatTimer, TypeInv
    <2>2. display' \in Seq(Items)
      BY <1>4, FilledFits DEF RepeatTimer
    <2> QED
      BY <1>4, <2>1, <2>2 DEF RepeatTimer, TypeInv
  <1>5. ASSUME NEW w \in Workers, Take(w) PROVE TypeInv'
    <2>1. /\ Head(requests) \in Requests /\ requests' \in Seq(Requests)
          /\ job' = [job EXCEPT ![w] = Head(requests)]
      BY <1>5 DEF Take, TypeInv
    <2>2. Requests \subseteq Jobs
      BY DEF Requests, Jobs, FittingOnes, Messages
    <2>3. job' \in [Workers -> Jobs]
      BY <2>1, <2>2 DEF TypeInv
    <2> QED
      BY <1>5, <2>1, <2>3 DEF Take, TypeInv
  <1>6. ASSUME NEW w \in Workers, AnswerHistory(w) PROVE TypeInv'
    <2>1. Message("history", stored) \in Packets
      BY <1>6, Built, BuiltForHistory, Rebuilt DEF TypeInv, AnswerHistory, Message
    <2> DEFINE j == [job EXCEPT ![w] = NoJob]
    <2>2. j \in [Workers -> Jobs] /\ \A v \in Workers : j[v].kind = "writing" => j[v] = job[v]
      BY <1>6, BuiltForHistory DEF TypeInv
    <2>3. Post(Message("history", stored), j)
      BY <1>6 DEF AnswerHistory
    <2> HIDE DEF j
    <2>4. /\ packets' \in Seq(Packets) /\ job' \in [Workers -> Jobs]
          /\ damaged' \subseteq Images
      BY <2>1, <2>2, <2>3, Posted
    <2> QED
      BY <1>6, <2>4 DEF TypeInv, AnswerHistory
  <1>7. ASSUME NEW w \in Workers, Refuse(w) PROVE TypeInv'
    <2>1. Message("failed", job[w].images) \in Packets
      <3>1. Subject(job[w]) \in Images /\ job[w].images = <<Subject(job[w])>>
        BY <1>7, Rebuilt DEF Refuse, TypeInv
      <3> QED
        BY <3>1, Built
    <2> DEFINE j == [job EXCEPT ![w] = NoJob]
    <2>2. j \in [Workers -> Jobs] /\ \A v \in Workers : j[v].kind = "writing" => j[v] = job[v]
      BY <1>7, BuiltForHistory DEF TypeInv
    <2>3. Post(Message("failed", job[w].images), j)
      BY <1>7 DEF Refuse
    <2> HIDE DEF j
    <2>4. /\ packets' \in Seq(Packets) /\ job' \in [Workers -> Jobs]
          /\ damaged' \subseteq Images
      BY <2>1, <2>2, <2>3, Posted
    <2>5. failures' \in 0 .. MaxFailures
      BY <1>7, ImageDownloadAssumption DEF TypeInv, Refuse
    <2> QED
      BY <1>7, <2>4, <2>5 DEF TypeInv, Refuse
  <1>8. ASSUME NEW w \in Workers, BeginWrite(w) PROVE TypeInv'
    <2>1. [job[w] EXCEPT !.kind = "writing"] \in Jobs
      BY <1>8 DEF BeginWrite, TypeInv, Jobs, FittingOnes, Messages, Fits
    <2>2. job' \in [Workers -> Jobs]
      BY <1>8, <2>1 DEF BeginWrite, TypeInv
    <2> QED
      BY <1>8, <2>2 DEF BeginWrite, TypeInv
  <1>9. ASSUME NEW w \in Workers, EndWrite(w) PROVE TypeInv'
    <2>1. CASE /\ job[w].kind = "writing"
               /\ Post(Message("image", job[w].images), [job EXCEPT ![w] = NoJob])
      <3>1. Message("image", job[w].images) \in Packets
        <4>1. Subject(job[w]) \in Images /\ job[w].images = <<Subject(job[w])>>
          BY <2>1, Rebuilt DEF TypeInv
        <4> QED
          BY <4>1, Built
      <3> DEFINE j == [job EXCEPT ![w] = NoJob]
      <3>2. j \in [Workers -> Jobs] /\ \A v \in Workers : j[v].kind = "writing" => j[v] = job[v]
        BY BuiltForHistory DEF TypeInv
      <3>3. Post(Message("image", job[w].images), j)
        BY <2>1
      <3> HIDE DEF j
      <3>4. packets' \in Seq(Packets) /\ job' \in [Workers -> Jobs] /\ damaged' \subseteq Images
        BY <3>1, <3>2, <3>3, Posted
      <3> QED
        BY <1>9, <3>4 DEF TypeInv, EndWrite
    <2>2. CASE job' = [job EXCEPT ![w] = NoJob] /\ UNCHANGED <<packets, damaged>>
      BY <1>9, <2>2, BuiltForHistory DEF TypeInv, EndWrite
    <2> QED
      BY <1>9, <2>1, <2>2 DEF EndWrite
  <1>10. ASSUME NEW n \in 1 .. Len(requests), LoseRequests(n) PROVE TypeInv'
    <2>1. requests \in Seq(Requests) /\ requests \in Seq(Requests \cup Packets)
          /\ n \in 0 .. Len(requests) /\ 1 \in 1 .. Len(requests) + 1
      BY <1>10 DEF TypeInv
    <2>2. SubSeq(requests, 1, n) \in Seq(Requests \cup Packets) /\ requests' \in Seq(Requests)
      BY <1>10, <2>1, Piece, Dropped DEF LoseRequests
    <2>3. damaged' \subseteq Images
      BY <1>10, <2>2, Suffering DEF LoseRequests, TypeInv
    <2>4. badReads' \in 0 .. MaxBadReads
      BY <1>10, ImageDownloadAssumption DEF LoseRequests, TypeInv
    <2> QED
      BY <1>10, <2>2, <2>3, <2>4 DEF LoseRequests, TypeInv
  <1>11. ASSUME selectFriend PROVE TypeInv'
    <2>1. requests' \in Seq(Requests) /\ display' \in Seq(Items)
      BY <1>11, BuiltForHistory DEF selectFriend, TypeInv
    <2>2. opens' \in 0 .. MaxOpens
      BY <1>11, ImageDownloadAssumption DEF selectFriend, TypeInv
    <2> QED
      BY <1>11, <2>1, <2>2 DEF selectFriend, TypeInv
  <1>12. ASSUME selectOther PROVE TypeInv'
    <2>1. display' \in Seq(Items)
      BY <1>12 DEF selectOther
    <2> QED
      BY <1>12, <2>1 DEF selectOther, TypeInv
  <1>13. ASSUME handleMessage PROVE TypeInv'
    <2>1. packets' \in Seq(Packets)
      BY <1>13, Received DEF handleMessage
    <2> QED
      BY <1>13, <2>1, Noted DEF handleMessage, TypeInv
  <1>14. ASSUME handleHistory PROVE TypeInv'
    <2>1. packets' \in Seq(Packets)
      BY <1>14, Received DEF handleHistory
    <2> QED
      BY <1>14, <2>1, Listed DEF handleHistory, TypeInv
  <1>15. ASSUME handleImage PROVE TypeInv'
    <2> DEFINE p == Subject(Head(packets))
    <2>1. packets' \in Seq(Packets) /\ p \in Images
      BY <1>15, Received, Rebuilt DEF handleImage
    <2>2. TrySave(p, "whole") /\ UNCHANGED <<badReads, damaged>>
      BY <1>15 DEF handleImage
    <2> HIDE DEF p
    <2> QED
      BY <2>1, <2>2, Tried DEF TypeInv, Files
  <1>16. ASSUME handleFailure PROVE TypeInv'
    <2>1. packets' \in Seq(Packets) /\ Subject(Head(packets)) \in Images
      BY <1>16, Received, Rebuilt DEF handleFailure
    <2>2. timers' \in [Images -> Nat]
      BY <1>16, <2>1 DEF handleFailure, TypeInv
    <2> QED
      BY <1>16, <2>1, <2>2 DEF handleFailure, TypeInv
  <1>17. ASSUME ReadTorn PROVE TypeInv'
    <2> DEFINE p == Subject(Head(packets))
    <2>1. packets' \in Seq(Packets) /\ p \in Images
      BY <1>17, Received, Rebuilt DEF ReadTorn
    <2>2. PICK quality \in {"part", "broken"} : TrySave(p, quality)
      BY <1>17 DEF ReadTorn
    <2>3. damaged' = damaged \cup {p} /\ badReads' \in 0 .. MaxBadReads
      BY <1>17, ImageDownloadAssumption DEF ReadTorn, TypeInv
    <2>4. quality \in Files \ {"none"}
      BY DEF Files, Cut
    <2> HIDE DEF p
    <2> QED
      BY <2>1, <2>2, <2>3, <2>4, Tried DEF TypeInv
  <1>18. ASSUME Disconnect PROVE TypeInv'
    <2>1. requests' \in Seq(Requests) /\ packets' \in Seq(Packets)
      BY <1>18 DEF Disconnect
    <2> QED
      BY <1>18, <2>1 DEF Disconnect, TypeInv
  <1>19. ASSUME NEW n \in 1 .. Len(packets), ReadImageFirst(n) PROVE TypeInv'
    <2>0. packets \in Seq(Packets) /\ 1 \in DOMAIN packets /\ 2 \in 1 .. Len(packets) + 1
          /\ n \in 0 .. Len(packets)
      BY <1>19 DEF ReadImageFirst, TypeInv
    <2> DEFINE p == Subject(packets[1])
    <2>1. p \in Images
      BY <1>19, <2>0, Rebuilt DEF ReadImageFirst
    <2>2. TrySave(p, "whole") /\ damaged' = damaged \cup Suffers(SubSeq(packets, 2, n))
      BY <1>19 DEF ReadImageFirst
    <2> HIDE DEF p
    <2>3. packets' \in Seq(Packets) /\ damaged' \subseteq Images
      BY <1>19, <2>0, <2>2, Dropped, PieceSuffers DEF ReadImageFirst, TypeInv
    <2>4. badReads' \in 0 .. MaxBadReads
      BY <1>19, ImageDownloadAssumption DEF ReadImageFirst, TypeInv
    <2> QED
      BY <2>1, <2>2, <2>3, <2>4, Tried DEF TypeInv, Files
  <1>20. ASSUME NEW n \in 1 .. Len(packets), ReadUnparsable(n) PROVE TypeInv'
    <2>0. packets \in Seq(Packets) /\ DOMAIN packets = 1 .. Len(packets) /\ n \in 0 .. Len(packets)
          /\ 1 \in 1 .. Len(packets) + 1
      BY <1>20 DEF TypeInv
    <2>1. packets' \in Seq(Packets)
      BY <1>20, <2>0, Dropped DEF ReadUnparsable
    <2>2. badReads' \in 0 .. MaxBadReads
      BY <1>20, ImageDownloadAssumption DEF ReadUnparsable, TypeInv
    <2>3. CASE \E k \in 1 .. n :
                 /\ packets[k].kind = "failed" /\ Download(Subject(packets[k]), file[Subject(packets[k])])
                 /\ damaged' = damaged \cup
                       Suffers(SubSeq(packets, 1, k - 1) \o SubSeq(packets, k + 1, n))
      <3>1. PICK k \in 1 .. n :
                 /\ packets[k].kind = "failed" /\ Download(Subject(packets[k]), file[Subject(packets[k])])
                 /\ damaged' = damaged \cup
                       Suffers(SubSeq(packets, 1, k - 1) \o SubSeq(packets, k + 1, n))
        BY <2>3
      <3>2. packets[k] \in Packets
        BY <2>0
      <3>3. Subject(packets[k]) \in Images
        BY <3>1, <3>2, Rebuilt
      <3>4. requests' \in Seq(Requests) /\ named' \subseteq Images
        BY <3>1, <3>3, Asked
      <3>5. damaged' \subseteq Images
        BY <3>1, OthersSuffer, SMTT(40) DEF TypeInv
      <3> QED
        BY <1>20, <2>1, <2>2, <3>4, <3>5 DEF ReadUnparsable, TypeInv
    <2>4. CASE damaged' = damaged \cup Suffers(SubSeq(packets, 1, n)) /\ UNCHANGED <<named, requests>>
      <3>1. damaged' \subseteq Images
        BY <2>0, <2>4, PieceSuffers DEF TypeInv
      <3> QED
        BY <1>20, <2>1, <2>2, <2>4, <3>1 DEF ReadUnparsable, TypeInv
    <2> QED
      BY <1>20, <2>3, <2>4 DEF ReadUnparsable
  <1>21. CASE UNCHANGED vars
    BY <1>21 DEF vars, TypeInv
  <1> QED
    BY <1>1, <1>2, <1>3, <1>4, <1>5, <1>6, <1>7, <1>8, <1>9, <1>10, <1>11,
       <1>12, <1>13, <1>14, <1>15, <1>16, <1>17, <1>18, <1>19, <1>20, <1>21
    DEF Next, WorkerStep, handleServerData

\* The places where m's download is under way, or why it no longer needs to be.
There(m) == timers[m] > 0 \/ Requested(m) \/ Served(m) \/ Answered(m)
Over(m) == m \in damaged \/ InCache(m)

\* A download is under way until it is over, while the connection lasts.
LEMMA StillUnderWay ==
    ASSUME TypeInv, [Next]_vars, connected', NEW m \in Images, There(m)
    PROVE  There(m)' \/ Over(m)'
  <1> USE DEF There, Over, chat, pending, server, bounds
  <1>1. ASSUME NEW i \in Images, Store(i) PROVE There(m)' \/ Over(m)'
    BY <1>1 DEF Store, Requested, Served, Answered
  <1>2. ASSUME NEW i \in Images, Deliver(i) PROVE There(m)' \/ Over(m)'
    <2>1. Message("message", <<i>>) \in Packets
      BY <1>2, Built, BuiltForHistory, Rebuilt DEF TypeInv, Deliver, Message
    <2> DEFINE j == job
    <2>2. j \in [Workers -> Jobs] /\ \A v \in Workers : j[v].kind = "writing" => j[v] = job[v]
      BY <1>2, BuiltForHistory DEF TypeInv
    <2>3. Post(Message("message", <<i>>), j) /\ connected
      BY <1>2 DEF Deliver
    <2>4. \A v \in Workers : job[v].kind \in {"image", "writing"} => j[v] = job[v]
      BY <1>2 DEF Deliver, TypeInv
    <2> HIDE DEF j
    <2>5. /\ \A x : Answered(x) => Answered(x)'
          /\ \A v \in Workers : job'[v] = j[v] \/ Subject(job[v]) \in damaged'
      BY <2>1, <2>2, <2>3, Posted
    <2>6. Served(m) => Served(m)' \/ m \in damaged'
      BY <2>4, <2>5 DEF Served
    <2> QED
      BY <1>2, <2>5, <2>6 DEF Deliver, Requested
  <1>3. ASSUME NEW i \in Images, RetryTimer(i) PROVE There(m)' \/ Over(m)'
    <2>1. \A n : Requested(n) => Requested(n)'
      BY <1>3, Asked DEF RetryTimer
    <2>2. CASE m = i
      <3>1. connected /\ file' = file
        BY <1>3 DEF RetryTimer
      <3>2. InCache(m)' \/ Requested(m)'
        BY <1>3, <2>2, <3>1, Asked DEF RetryTimer, InCache, Cached
      <3> QED
        BY <3>2
    <2>3. CASE m # i
      BY <1>3, <2>1, <2>3 DEF RetryTimer, TypeInv, Served, Answered
    <2> QED
      BY <2>2, <2>3
  <1>4. ASSUME NEW i \in Images, RepeatTimer(i) PROVE There(m)' \/ Over(m)'
    BY <1>4 DEF RepeatTimer, Requested, Served, Answered
  <1>5. ASSUME NEW w \in Workers, Take(w) PROVE There(m)' \/ Over(m)'
    <2>1. /\ requests \in Seq(Requests) /\ requests # << >> /\ requests' = Tail(requests)
          /\ job' = [job EXCEPT ![w] = Head(requests)] /\ job[w].kind = "none"
      BY <1>5 DEF Take, TypeInv, NoJob, Message
    <2>2. Requested(m) => Requested(m)' \/ Served(m)'
      <3>1. ASSUME NEW k \in DOMAIN requests, requests[k] = Message("image", <<m>>)
            PROVE  Requested(m)' \/ Served(m)'
        <4>1. CASE k = 1
          <5>1. job'[w] = Message("image", <<m>>)
            BY <2>1, <3>1, <4>1 DEF TypeInv
          <5>2. job'[w].kind = "image" /\ Subject(job'[w]) = m
            BY <5>1 DEF Message, Subject
          <5> QED
            BY <5>2 DEF Served, Subject
        <4>2. CASE k # 1
          <5>1. k - 1 \in DOMAIN requests' /\ requests'[k - 1] = requests[k]
            BY <2>1, <3>1, <4>2
          <5> QED
            BY <3>1, <5>1 DEF Requested
        <4> QED
          BY <4>1, <4>2
      <3> QED
        BY <3>1 DEF Requested
    <2>3. Served(m) => Served(m)'
      BY <2>1 DEF Served, TypeInv, Subject
    <2> QED
      BY <1>5, <2>2, <2>3 DEF Take, Answered
  <1>6. ASSUME NEW w \in Workers, AnswerHistory(w) PROVE There(m)' \/ Over(m)'
    <2>1. Message("history", stored) \in Packets
      BY <1>6, Built, BuiltForHistory, Rebuilt DEF TypeInv, AnswerHistory, Message
    <2> DEFINE j == [job EXCEPT ![w] = NoJob]
    <2>2. j \in [Workers -> Jobs] /\ \A v \in Workers : j[v].kind = "writing" => j[v] = job[v]
      BY <1>6, BuiltForHistory DEF TypeInv
    <2>3. Post(Message("history", stored), j) /\ connected
      BY <1>6 DEF AnswerHistory
    <2>4. \A v \in Workers : job[v].kind \in {"image", "writing"} => j[v] = job[v]
      BY <1>6 DEF AnswerHistory, TypeInv
    <2> HIDE DEF j
    <2>5. /\ \A x : Answered(x) => Answered(x)'
          /\ \A v \in Workers : job'[v] = j[v] \/ Subject(job[v]) \in damaged'
      BY <2>1, <2>2, <2>3, Posted
    <2>6. Served(m) => Served(m)' \/ m \in damaged'
      BY <2>4, <2>5 DEF Served
    <2> QED
      BY <1>6, <2>5, <2>6 DEF AnswerHistory, Requested
  <1>7. ASSUME NEW w \in Workers, Refuse(w) PROVE There(m)' \/ Over(m)'
    <2>1. Message("failed", job[w].images) \in Packets /\ Subject(job[w]) \in Images
          /\ Message("failed", job[w].images).kind = "failed"
          /\ Subject(Message("failed", job[w].images)) = Subject(job[w])
      <3>1. Subject(job[w]) \in Images /\ job[w].images = <<Subject(job[w])>>
        BY <1>7, Rebuilt DEF Refuse, TypeInv
      <3> QED
        BY <3>1, Built
    <2> DEFINE j == [job EXCEPT ![w] = NoJob]
    <2>2. j \in [Workers -> Jobs] /\ \A v \in Workers : j[v].kind = "writing" => j[v] = job[v]
      BY <1>7, BuiltForHistory DEF TypeInv
    <2>3. Post(Message("failed", job[w].images), j) /\ connected
      BY <1>7 DEF Refuse
    <2>4. \A v \in Workers : v # w => j[v] = job[v]
      BY <1>7 DEF Refuse, TypeInv
    <2> HIDE DEF j
    <2>5. /\ \A x : Answered(x) => Answered(x)'
          /\ \A v \in Workers : job'[v] = j[v] \/ Subject(job[v]) \in damaged'
      BY <2>1, <2>2, <2>3, Posted
    <2>6. Subject(job[w]) = m => Answered(m)' \/ m \in damaged'
      <3>1. ASSUME NEW p \in Packets, p.kind \in {"image", "failed"}, Subject(p) = m, Post(p, j)
            PROVE  Answered(m)' \/ m \in damaged'
        BY <2>2, <2>3, <3>1, Posted
      <3> QED
        BY <2>1, <2>3, <3>1
    <2>7. Served(m) => Served(m)' \/ Answered(m)' \/ m \in damaged'
      BY <2>4, <2>5, <2>6 DEF Served
    <2> QED
      BY <1>7, <2>5, <2>7 DEF Refuse, Requested
  <1>8. ASSUME NEW w \in Workers, BeginWrite(w) PROVE There(m)' \/ Over(m)'
    <2>1. /\ job[w].kind = "image" /\ job' = [job EXCEPT ![w].kind = "writing"]
          /\ job \in [Workers -> Jobs]
      BY <1>8 DEF BeginWrite, TypeInv
    <2>2. job'[w].kind = "writing" /\ job'[w].images = job[w].images
      BY <2>1 DEF Jobs, FittingOnes, Messages
    <2>3. Served(m) => Served(m)'
      BY <2>1, <2>2 DEF Served, Subject
    <2> QED
      BY <1>8, <2>3 DEF BeginWrite, Requested, Answered
  <1>9. ASSUME NEW w \in Workers, EndWrite(w) PROVE There(m)' \/ Over(m)'
    <2>1. CASE /\ job[w].kind = "writing"
               /\ Post(Message("image", job[w].images), [job EXCEPT ![w] = NoJob])
      <3>1. Message("image", job[w].images) \in Packets /\ Subject(job[w]) \in Images
            /\ Message("image", job[w].images).kind = "image"
            /\ Subject(Message("image", job[w].images)) = Subject(job[w])
        <4>1. Subject(job[w]) \in Images /\ job[w].images = <<Subject(job[w])>>
          BY <2>1, Rebuilt DEF EndWrite, TypeInv
        <4> QED
          BY <4>1, Built
      <3> DEFINE j == [job EXCEPT ![w] = NoJob]
      <3>2. j \in [Workers -> Jobs] /\ \A v \in Workers : j[v].kind = "writing" => j[v] = job[v]
        BY <1>9, BuiltForHistory DEF TypeInv
      <3>3. Post(Message("image", job[w].images), j) /\ connected
        BY <1>9, <2>1 DEF EndWrite
      <3>4. \A v \in Workers : v # w => j[v] = job[v]
        BY <1>9 DEF EndWrite, TypeInv
      <3> HIDE DEF j
      <3>5. /\ \A x : Answered(x) => Answered(x)'
            /\ \A v \in Workers : job'[v] = j[v] \/ Subject(job[v]) \in damaged'
        BY <3>1, <3>2, <3>3, Posted
      <3>6. Subject(job[w]) = m => Answered(m)' \/ m \in damaged'
        <4>1. ASSUME NEW p \in Packets, p.kind \in {"image", "failed"}, Subject(p) = m, Post(p, j)
              PROVE  Answered(m)' \/ m \in damaged'
          BY <3>2, <3>3, <4>1, Posted
        <4> QED
          BY <3>1, <3>3, <4>1
      <3>7. Served(m) => Served(m)' \/ Answered(m)' \/ m \in damaged'
        BY <3>4, <3>5, <3>6 DEF Served
      <3> QED
        BY <1>9, <3>5, <3>7 DEF EndWrite, Requested
    <2>2. CASE /\ job[w].kind = "spoilt" /\ job' = [job EXCEPT ![w] = NoJob]
               /\ UNCHANGED <<packets, damaged>>
      <3>1. Served(m) => Served(m)'
        BY <2>2 DEF Served, TypeInv
      <3> QED
        BY <1>9, <2>2, <3>1 DEF EndWrite, Requested, Answered
    <2> QED
      BY <1>9, <2>1, <2>2 DEF EndWrite
  <1>10. ASSUME NEW n \in 1 .. Len(requests), LoseRequests(n) PROVE There(m)' \/ Over(m)'
    <2>1. requests \in Seq(Requests) /\ requests \in Seq(Requests \cup Packets)
          /\ n \in 0 .. Len(requests) /\ 1 \in 1 .. Len(requests) + 1
          /\ DOMAIN requests = 1 .. Len(requests)
      BY <1>10 DEF TypeInv
    <2>2. ASSUME NEW k \in DOMAIN requests, requests[k] = Message("image", <<m>>)
          PROVE  Requested(m)' \/ m \in damaged'
      <3>1. CASE k <= n
        <4>1. /\ SubSeq(requests, 1, n) \in Seq(Requests \cup Packets)
              /\ \E l \in DOMAIN SubSeq(requests, 1, n) : SubSeq(requests, 1, n)[l] = requests[k]
          <5>1. k \in 1 .. n
            BY <2>1, <3>1
          <5> QED
            BY <2>1, <5>1, Piece
        <4>2. requests[k].kind = "image" /\ Subject(requests[k]) = m
          BY <2>2 DEF Message, Subject
        <4>3. m \in Suffers(SubSeq(requests, 1, n))
          BY <4>1, <4>2, Suffering
        <4> QED
          BY <1>10, <4>3 DEF LoseRequests
      <3>2. CASE k > n
        <4>1. \E l \in DOMAIN requests' : requests'[l] = requests[k]
          BY <1>10, <2>1, <3>2, Dropped DEF LoseRequests
        <4> QED
          BY <2>2, <4>1 DEF Requested
      <3> QED
        BY <2>1, <3>1, <3>2
    <2>3. Requested(m) => Requested(m)' \/ m \in damaged'
      BY <2>2 DEF Requested
    <2> QED
      BY <1>10, <2>3 DEF LoseRequests, Served, Answered
  <1>11. ASSUME selectFriend PROVE There(m)' \/ Over(m)'
    <2>1. \A k \in DOMAIN requests : k \in DOMAIN requests' /\ requests'[k] = requests[k]
      <3>1. requests \in Seq(Requests)
        BY DEF TypeInv
      <3>2. requests' \in {requests, Append(requests, Message("history", << >>))}
        BY <1>11 DEF selectFriend
      <3> QED
        BY <3>1, <3>2
    <2>2. Requested(m) => Requested(m)'
      BY <2>1 DEF Requested
    <2> QED
      BY <1>11, <2>2 DEF selectFriend, Served, Answered
  <1>12. ASSUME selectOther PROVE There(m)' \/ Over(m)'
    BY <1>12 DEF selectOther, Requested, Served, Answered
  <1>13. ASSUME handleMessage PROVE There(m)' \/ Over(m)'
    <2>1. Answered(m) => Answered(m)'
      BY <1>13, Received DEF handleMessage
    <2>2. (Requested(m) => Requested(m)') /\ timers' = timers /\ job' = job
      BY <1>13, Noted DEF handleMessage
    <2> QED
      BY <2>1, <2>2 DEF Served
  <1>14. ASSUME handleHistory PROVE There(m)' \/ Over(m)'
    <2>1. Answered(m) => Answered(m)'
      BY <1>14, Received, SMTT(40) DEF handleHistory
    <2>2. (Requested(m) => Requested(m)') /\ timers' = timers /\ job' = job
      BY <1>14, Listed DEF handleHistory
    <2> QED
      BY <2>1, <2>2 DEF Served
  <1>15. ASSUME handleImage PROVE There(m)' \/ Over(m)'
    <2> DEFINE p == Subject(Head(packets))
    <2>1. p \in Images /\ (Answered(m) => Answered(m)' \/ m = p)
      BY <1>15, Received, Rebuilt DEF handleImage
    <2>2. TrySave(p, "whole") /\ "whole" \in Files \ {"none"}
      BY <1>15 DEF handleImage, Files
    <2> HIDE DEF p
    <2>3. connected
      BY <2>2 DEF TrySave, Save, SaveCut, SaveFails
    <2>4. (Requested(m) => Requested(m)') /\ (timers[m] > 0 => timers'[m] > 0) /\ job' = job
      BY <2>1, <2>2, Tried
    <2>5. m = p => InCache(m)' \/ Requested(m)' \/ timers'[m] > 0
      BY <2>2, <2>3, Tried
    <2> QED
      BY <2>1, <2>4, <2>5 DEF Served
  <1>16. ASSUME handleFailure PROVE There(m)' \/ Over(m)'
    <2>1. /\ Subject(Head(packets)) \in Images
          /\ Answered(m) => Answered(m)' \/ m = Subject(Head(packets))
      BY <1>16, Received, Rebuilt DEF handleFailure
    <2>2. ASSUME NEW p \in Images, p = Subject(Head(packets))
          PROVE  (timers[m] > 0 => timers'[m] > 0) /\ (m = p => timers'[m] > 0)
      <3>1. timers' = [timers EXCEPT ![p] = timers[p] + 1]
        BY <1>16, <2>2 DEF handleFailure
      <3>2. timers \in [Images -> Nat]
        BY DEF TypeInv
      <3>3. CASE m = p
        BY <3>1, <3>2, <3>3
      <3>4. CASE m # p
        BY <3>1, <3>2, <3>4
      <3> QED
        BY <3>3, <3>4
    <2>3. (timers[m] > 0 => timers'[m] > 0) /\ (m = Subject(Head(packets)) => timers'[m] > 0)
      BY <2>1, <2>2
    <2> QED
      BY <1>16, <2>1, <2>3 DEF handleFailure, Requested, Served
  <1>17. ASSUME ReadTorn PROVE There(m)' \/ Over(m)'
    <2> DEFINE p == Subject(Head(packets))
    <2>1. p \in Images /\ (Answered(m) => Answered(m)' \/ m = p)
      BY <1>17, Received, Rebuilt DEF ReadTorn
    <2>2. PICK quality \in {"part", "broken"} : TrySave(p, quality)
      BY <1>17 DEF ReadTorn
    <2>3. p \in damaged' /\ quality \in Files \ {"none"}
      BY <1>17 DEF ReadTorn, Files, Cut
    <2> HIDE DEF p
    <2>4. /\ (Requested(m) => Requested(m)') /\ (timers[m] > 0 => timers'[m] > 0)
          /\ job' = job
      BY <2>1, <2>2, <2>3, Tried
    <2> QED
      BY <2>1, <2>3, <2>4 DEF Served
  <1>18. ASSUME Disconnect PROVE There(m)' \/ Over(m)'
    BY <1>18 DEF Disconnect
  <1>19. ASSUME NEW n \in 1 .. Len(packets), ReadImageFirst(n) PROVE There(m)' \/ Over(m)'
    <2>0. packets \in Seq(Packets) /\ 1 \in DOMAIN packets /\ 2 \in 1 .. Len(packets) + 1
          /\ n \in 0 .. Len(packets)
      <3>1. n >= 2 /\ packets \in Seq(Packets)
        BY <1>19 DEF ReadImageFirst, TypeInv
      <3> QED
        BY <1>19, <3>1
    <2> DEFINE p == Subject(packets[1])
    <2>1. p \in Images
      BY <1>19, <2>0, Rebuilt DEF ReadImageFirst
    <2>2. /\ TrySave(p, "whole") /\ damaged' = damaged \cup Suffers(SubSeq(packets, 2, n))
          /\ packets' = SubSeq(packets, n + 1, Len(packets))
          /\ "whole" \in Files \ {"none"}
      BY <1>19 DEF ReadImageFirst, Files
    <2>3. Answered(m) => \/ Answered(m)'
                         \/ \E k \in 1 .. n : packets[k].kind \in {"image", "failed"}
                                               /\ Subject(packets[k]) = m
      BY <1>19, <2>2, Lost
    <2>4. \A k \in 2 .. n : packets[k].kind \in {"image", "failed"} => Subject(packets[k]) \in damaged'
      BY <2>0, <2>2, PieceSuffers
    <2>5. Answered(m) => Answered(m)' \/ m \in damaged' \/ m = p
      <3>1. \A k \in 1 .. n : k = 1 \/ k \in 2 .. n
        OBVIOUS
      <3> QED
        BY <2>3, <2>4, <3>1
    <2> HIDE DEF p
    <2>6. connected
      BY <2>2 DEF TrySave, Save, SaveCut, SaveFails
    <2>7. (Requested(m) => Requested(m)') /\ (timers[m] > 0 => timers'[m] > 0) /\ job' = job
      BY <2>1, <2>2, Tried
    <2>8. m = p => InCache(m)' \/ Requested(m)' \/ timers'[m] > 0
      BY <2>2, <2>6, Tried
    <2> QED
      BY <2>5, <2>7, <2>8 DEF Served
  <1>20. ASSUME NEW n \in 1 .. Len(packets), ReadUnparsable(n) PROVE There(m)' \/ Over(m)'
    <2>0. packets \in Seq(Packets) /\ DOMAIN packets = 1 .. Len(packets) /\ n \in 0 .. Len(packets)
          /\ 1 \in 1 .. Len(packets) + 1
      BY <1>20 DEF TypeInv
    <2>1. /\ packets' = SubSeq(packets, n + 1, Len(packets)) /\ connected
          /\ file' = file /\ timers' = timers /\ job' = job
      BY <1>20 DEF ReadUnparsable
    <2>2. Answered(m) => \/ Answered(m)'
                         \/ \E k \in 1 .. n : packets[k].kind \in {"image", "failed"}
                                               /\ Subject(packets[k]) = m
      BY <1>20, <2>1, Lost
    <2>3. CASE \E k \in 1 .. n :
                 /\ packets[k].kind = "failed" /\ Download(Subject(packets[k]), file[Subject(packets[k])])
                 /\ damaged' = damaged \cup
                       Suffers(SubSeq(packets, 1, k - 1) \o SubSeq(packets, k + 1, n))
      <3>1. PICK k \in 1 .. n :
                 /\ packets[k].kind = "failed" /\ Download(Subject(packets[k]), file[Subject(packets[k])])
                 /\ damaged' = damaged \cup
                       Suffers(SubSeq(packets, 1, k - 1) \o SubSeq(packets, k + 1, n))
        BY <2>3
      <3>2. packets[k] \in Packets
        BY <2>0
      <3>3. Subject(packets[k]) \in Images
        BY <3>1, <3>2, Rebuilt
      <3>4. Requested(m) => Requested(m)'
        BY <3>1, <3>3, Asked
      <3>5. Subject(packets[k]) = m => InCache(m)' \/ Requested(m)'
        BY <2>1, <3>1, <3>3, Asked DEF InCache, Cached
      <3>6. \A l \in 1 .. n : l # k /\ packets[l].kind \in {"image", "failed"} =>
               Subject(packets[l]) \in damaged'
        BY <3>1, OthersSuffer
      <3>7. Answered(m) => Answered(m)' \/ m \in damaged' \/ m = Subject(packets[k])
        BY <2>2, <3>6
      <3> QED
        BY <2>1, <3>4, <3>5, <3>7 DEF Served
    <2>4. CASE damaged' = damaged \cup Suffers(SubSeq(packets, 1, n)) /\ UNCHANGED <<named, requests>>
      <3>1. \A k \in 1 .. n : packets[k].kind \in {"image", "failed"} =>
               Subject(packets[k]) \in damaged'
        BY <2>0, <2>4, PieceSuffers
      <3> QED
        BY <2>1, <2>2, <2>4, <3>1 DEF Requested, Served
    <2> QED
      BY <1>20, <2>3, <2>4 DEF ReadUnparsable
  <1>21. CASE UNCHANGED vars
    BY <1>21 DEF vars, Requested, Served, Answered
  <1> QED
    BY <1>1, <1>2, <1>3, <1>4, <1>5, <1>6, <1>7, <1>8, <1>9, <1>10, <1>11,
       <1>12, <1>13, <1>14, <1>15, <1>16, <1>17, <1>18, <1>19, <1>20, <1>21
    DEF Next, WorkerStep, handleServerData

\* A file stays as it is or becomes whole, unless the image's own packet was torn or the file cut;
\* an image leaves the cache only with its download under way; what has been lost stays lost, and
\* nobody connects again.
LEMMA Progress ==
    ASSUME TypeInv, [Next]_vars, NEW m \in Images
    PROVE  /\ connected' => connected
           /\ damaged \subseteq damaged' /\ cut \subseteq cut'
           /\ file'[m] \in {file[m], "whole"} \/ m \in damaged' \cup cut'
           /\ connected' /\ InCache(m) => InCache(m)' \/ There(m)'
  <1> DEFINE Goal ==
           /\ connected' => connected
           /\ damaged \subseteq damaged' /\ cut \subseteq cut'
           /\ file'[m] \in {file[m], "whole"} \/ m \in damaged' \cup cut'
           /\ connected' /\ InCache(m) => InCache(m)' \/ There(m)'
  <1> USE DEF chat, cache, pending, server, bounds
  <1>1. ASSUME NEW i \in Images, Store(i) PROVE Goal
    BY <1>1 DEF Store, InCache, Cached
  <1>2. ASSUME NEW i \in Images, Deliver(i) PROVE Goal
    BY <1>2 DEF Deliver, Post, InCache, Cached
  <1>3. ASSUME NEW i \in Images, RetryTimer(i) PROVE Goal
    <2>1. /\ file' = file /\ Download(i, file[i])
          /\ UNCHANGED <<connected, damaged, cut>>
      BY <1>3 DEF RetryTimer
    <2>2. InCache(m) => InCache(m)'
      BY <2>1, Asked DEF InCache, Cached
    <2> QED
      BY <2>1, <2>2
  <1>4. ASSUME NEW i \in Images, RepeatTimer(i) PROVE Goal
    BY <1>4 DEF RepeatTimer, InCache, Cached
  <1>5. ASSUME NEW w \in Workers, Take(w) PROVE Goal
    BY <1>5 DEF Take, InCache, Cached
  <1>6. ASSUME NEW w \in Workers, AnswerHistory(w) PROVE Goal
    BY <1>6 DEF AnswerHistory, Post, InCache, Cached
  <1>7. ASSUME NEW w \in Workers, Refuse(w) PROVE Goal
    BY <1>7 DEF Refuse, Post, InCache, Cached
  <1>8. ASSUME NEW w \in Workers, BeginWrite(w) PROVE Goal
    BY <1>8 DEF BeginWrite, InCache, Cached
  <1>9. ASSUME NEW w \in Workers, EndWrite(w) PROVE Goal
    BY <1>9 DEF EndWrite, Post, InCache, Cached
  <1>10. ASSUME NEW n \in 1 .. Len(requests), LoseRequests(n) PROVE Goal
    BY <1>10 DEF LoseRequests, InCache, Cached
  <1>11. ASSUME selectFriend PROVE Goal
    BY <1>11 DEF selectFriend, InCache, Cached
  <1>12. ASSUME selectOther PROVE Goal
    BY <1>12 DEF selectOther, InCache, Cached
  <1>13. ASSUME handleMessage PROVE Goal
    BY <1>13, Noted DEF handleMessage
  <1>14. ASSUME handleHistory PROVE Goal
    BY <1>14, Listed DEF handleHistory
  <1>15. ASSUME handleImage PROVE Goal
    <2> DEFINE p == Subject(Head(packets))
    <2>1. p \in Images
      BY <1>15, Received, Rebuilt DEF handleImage
    <2>2. TrySave(p, "whole") /\ damaged' = damaged /\ "whole" \in Files \ {"none"}
      BY <1>15 DEF handleImage, Files
    <2> HIDE DEF p
    <2> QED
      BY <2>1, <2>2, Tried DEF There
  <1>16. ASSUME handleFailure PROVE Goal
    BY <1>16 DEF handleFailure, InCache, Cached
  <1>17. ASSUME ReadTorn PROVE Goal
    <2> DEFINE p == Subject(Head(packets))
    <2>1. p \in Images
      BY <1>17, Received, Rebuilt DEF ReadTorn
    <2>2. PICK quality \in {"part", "broken"} : TrySave(p, quality)
      BY <1>17 DEF ReadTorn
    <2>3. damaged' = damaged \cup {p} /\ quality \in Files \ {"none"}
      BY <1>17 DEF ReadTorn, Files, Cut
    <2> HIDE DEF p
    <2> QED
      BY <2>1, <2>2, <2>3, Tried DEF There
  <1>18. ASSUME Disconnect PROVE Goal
    BY <1>18 DEF Disconnect, InCache, Cached
  <1>19. ASSUME NEW n \in 1 .. Len(packets), ReadImageFirst(n) PROVE Goal
    <2>1. packets[1] \in Packets
      BY <1>19 DEF TypeInv
    <2> DEFINE p == Subject(packets[1])
    <2>2. p \in Images
      BY <1>19, <2>1, Rebuilt DEF ReadImageFirst
    <2>3. /\ TrySave(p, "whole") /\ damaged' = damaged \cup Suffers(SubSeq(packets, 2, n))
          /\ "whole" \in Files \ {"none"}
      BY <1>19 DEF ReadImageFirst, Files
    <2> HIDE DEF p
    <2> QED
      BY <2>2, <2>3, Tried DEF There
  <1>20. ASSUME NEW n \in 1 .. Len(packets), ReadUnparsable(n) PROVE Goal
    <2>1. file' = file /\ cut' = cut /\ damaged \subseteq damaged' /\ connected' = connected
      BY <1>20 DEF ReadUnparsable
    <2>2. InCache(m) => InCache(m)'
      <3>1. CASE UNCHANGED named
        BY <2>1, <3>1 DEF InCache, Cached
      <3>2. CASE \E i : Download(i, file[i])
        BY <2>1, <3>2 DEF InCache, Cached, Download
      <3> QED
        BY <1>20, <3>1, <3>2 DEF ReadUnparsable
    <2> QED
      BY <2>1, <2>2
  <1>21. CASE UNCHANGED vars
    BY <1>21 DEF vars, InCache, Cached
  <1> QED
    BY <1>1, <1>2, <1>3, <1>4, <1>5, <1>6, <1>7, <1>8, <1>9, <1>10, <1>11,
       <1>12, <1>13, <1>14, <1>15, <1>16, <1>17, <1>18, <1>19, <1>20, <1>21
    DEF Next, WorkerStep, handleServerData

\* What is shown as loading after a step was so before, has just been asked for, or is cached.
LEMMA ShownIsKnown ==
    ASSUME TypeInv, [Next]_vars, connected', NEW m \in Images, NEW k \in DOMAIN display',
           display'[k].image = m, display'[k].shows = None
    PROVE  (k \in DOMAIN display /\ display[k] = display'[k]) \/ Requested(m)' \/ InCache(m)'
  <1> DEFINE Goal ==
           (k \in DOMAIN display /\ display[k] = display'[k]) \/ Requested(m)' \/ InCache(m)'
  <1> USE DEF chat, cache, pending, server, bounds
  <1>1. ASSUME NEW i \in Images, Store(i) PROVE Goal
    BY <1>1 DEF Store
  <1>2. ASSUME NEW i \in Images, Deliver(i) PROVE Goal
    BY <1>2 DEF Deliver
  <1>3. ASSUME NEW i \in Images, RetryTimer(i) PROVE Goal
    BY <1>3 DEF RetryTimer
  <1>4. ASSUME NEW i \in Images, RepeatTimer(i) PROVE Goal
    BY <1>4, FilledFits DEF RepeatTimer
  <1>5. ASSUME NEW w \in Workers, Take(w) PROVE Goal
    BY <1>5 DEF Take
  <1>6. ASSUME NEW w \in Workers, AnswerHistory(w) PROVE Goal
    BY <1>6 DEF AnswerHistory
  <1>7. ASSUME NEW w \in Workers, Refuse(w) PROVE Goal
    BY <1>7 DEF Refuse
  <1>8. ASSUME NEW w \in Workers, BeginWrite(w) PROVE Goal
    BY <1>8 DEF BeginWrite
  <1>9. ASSUME NEW w \in Workers, EndWrite(w) PROVE Goal
    BY <1>9 DEF EndWrite
  <1>10. ASSUME NEW n \in 1 .. Len(requests), LoseRequests(n) PROVE Goal
    BY <1>10 DEF LoseRequests
  <1>11. ASSUME selectFriend PROVE Goal
    BY <1>11 DEF selectFriend
  <1>12. ASSUME selectOther PROVE Goal
    BY <1>12 DEF selectOther
  <1>13. ASSUME handleMessage PROVE Goal
    <2>1. connected
      BY <1>13 DEF handleMessage
    <2> QED
      BY <1>13, <2>1, Noted
  <1>14. ASSUME handleHistory PROVE Goal
    <2>1. connected
      BY <1>14 DEF handleHistory
    <2> QED
      BY <1>14, <2>1, Listed, SMTT(40)
  <1>15. ASSUME handleImage PROVE Goal
    <2> DEFINE p == Subject(Head(packets))
    <2>1. p \in Images
      BY <1>15, Received, Rebuilt DEF handleImage
    <2>2. TrySave(p, "whole") /\ "whole" \in Files \ {"none"}
      BY <1>15 DEF handleImage, Files
    <2> HIDE DEF p
    <2> QED
      BY <2>1, <2>2, Tried
  <1>16. ASSUME handleFailure PROVE Goal
    BY <1>16 DEF handleFailure
  <1>17. ASSUME ReadTorn PROVE Goal
    <2> DEFINE p == Subject(Head(packets))
    <2>1. p \in Images
      BY <1>17, Received, Rebuilt DEF ReadTorn
    <2>2. PICK quality \in {"part", "broken"} : TrySave(p, quality)
      BY <1>17 DEF ReadTorn
    <2>3. quality \in Files \ {"none"}
      BY DEF Files, Cut
    <2> HIDE DEF p
    <2> QED
      BY <2>1, <2>2, <2>3, Tried
  <1>18. ASSUME Disconnect PROVE Goal
    BY <1>18 DEF Disconnect
  <1>19. ASSUME NEW n \in 1 .. Len(packets), ReadImageFirst(n) PROVE Goal
    <2>1. packets[1] \in Packets
      BY <1>19 DEF TypeInv
    <2> DEFINE p == Subject(packets[1])
    <2>2. p \in Images /\ TrySave(p, "whole") /\ "whole" \in Files \ {"none"}
      BY <1>19, <2>1, Rebuilt DEF ReadImageFirst, Files
    <2> HIDE DEF p
    <2> QED
      BY <2>2, Tried
  <1>20. ASSUME NEW n \in 1 .. Len(packets), ReadUnparsable(n) PROVE Goal
    BY <1>20 DEF ReadUnparsable
  <1>21. CASE UNCHANGED vars
    BY <1>21 DEF vars
  <1> QED
    BY <1>1, <1>2, <1>3, <1>4, <1>5, <1>6, <1>7, <1>8, <1>9, <1>10, <1>11,
       <1>12, <1>13, <1>14, <1>15, <1>16, <1>17, <1>18, <1>19, <1>20, <1>21
    DEF Next, WorkerStep, handleServerData

\* Every step keeps what is shown as loading under way.
LEMMA NothingForgottenKept ==
    ASSUME DownloadInv, [Next]_vars
    PROVE  NothingForgotten'
  <1>1. TypeInv /\ NothingForgotten
    BY DEF DownloadInv
  <1>2. ASSUME connected', NEW k \in DOMAIN display', NEW m \in Images, display'[k].image = m,
               display'[k].shows = None, ~InCache(m)'
        PROVE  UnderWay(m)' \/ m \in damaged'
    <2>1. connected /\ damaged \subseteq damaged' /\ (InCache(m) => There(m)')
      BY <1>1, <1>2, Progress
    <2>2. CASE k \in DOMAIN display /\ display[k] = display'[k]
      <3>1. UnderWay(m) \/ m \in damaged \/ InCache(m)
        BY <1>1, <1>2, <2>1, <2>2 DEF NothingForgotten, InCache
      <3>2. UnderWay(m) => There(m)
        BY DEF UnderWay, There, Requested, Served, Answered
      <3>3. UnderWay(m) => There(m)' \/ Over(m)'
        BY <1>1, <1>2, <3>2, StillUnderWay
      <3>4. There(m)' => UnderWay(m)'
        BY DEF UnderWay, There, Requested, Served, Answered
      <3> QED
        BY <1>2, <2>1, <3>1, <3>3, <3>4 DEF Over
    <2>3. CASE Requested(m)'
      BY <2>3 DEF Requested, UnderWay
    <2> QED
      BY <1>1, <1>2, <2>2, <2>3, ShownIsKnown
  <1>3. \A k \in DOMAIN display' : display'[k].image \in Images
    <2>1. display' \in Seq(Items)
      BY <1>1, TypesKept DEF TypeInv
    <2>2. \A k \in DOMAIN display' : display'[k] \in Items
      BY <2>1
    <2> QED
      BY <2>2 DEF Items
  <1> QED
    BY <1>2, <1>3 DEF NothingForgotten, InCache

\* Every step keeps the files whole that have not been torn or cut.
LEMMA CacheKept ==
    ASSUME DownloadInv, [Next]_vars
    PROVE  CacheIsWhole'
  <1>1. TypeInv /\ CacheIsWhole
    BY DEF DownloadInv
  <1>2. ASSUME NEW m \in Images, m \notin damaged' \cup cut'
        PROVE  file'[m] \in {"none", "whole"}
    BY <1>1, <1>2, Progress DEF CacheIsWhole
  <1> QED
    BY <1>2 DEF CacheIsWhole

-----------------------------------------------------------------------------
\* The inductive invariant behind the theorems.
THEOREM DownloadInvariant == Spec => []DownloadInv
  <1>1. Init => DownloadInv
    <2> SUFFICES ASSUME Init PROVE DownloadInv
      OBVIOUS
    <2>1. display \in Seq(Items) /\ stored \in Seq(Images)
      BY DEF Init
    <2>2. requests \in Seq(Requests) /\ packets \in Seq(Packets)
      BY DEF Init
    <2>3. job \in [Workers -> Jobs]
      BY BuiltForHistory DEF Init
    <2>4. TypeInv
      <3>1. /\ named \subseteq Images /\ file \in [Images -> Files] /\ cut \subseteq Images
            /\ timers \in [Images -> Nat] /\ repeats \in [Images -> Nat]
        BY DEF Init, Files
      <3>2. opens \in 0 .. MaxOpens /\ badReads \in 0 .. MaxBadReads /\ failures \in 0 .. MaxFailures
        BY ImageDownloadAssumption DEF Init
      <3> QED
        BY <2>1, <2>2, <2>3, <3>1, <3>2 DEF Init, TypeInv
    <2> QED
      BY <2>4 DEF Init, DownloadInv, NothingForgotten, CacheIsWhole
  <1>2. DownloadInv /\ [Next]_vars => DownloadInv'
    BY TypesKept, NothingForgottenKept, CacheKept DEF DownloadInv
  <1> QED
    BY <1>1, <1>2, PTL DEF Spec

\* Every variable has its type; a packet or request about an image names one.
THEOREM DownloadTypeCorrect == Spec => []TypeOK
  <1>1. TypeInv => TypeOK
    <2> SUFFICES ASSUME TypeInv PROVE TypeOK
      OBVIOUS
    <2>1. /\ requests \in Seq(Requests) /\ packets \in Seq(Packets) /\ job \in [Workers -> Jobs]
      BY DEF TypeInv
    <2>2. /\ Requests \subseteq Messages({"history", "image"})
          /\ Packets \subseteq Messages({"message", "history", "image", "failed"})
          /\ Jobs \subseteq Messages({"none", "history", "image", "writing", "spoilt"})
      BY DEF Requests, Packets, Jobs, FittingOnes
    <2>3. /\ requests \in Seq(Messages({"history", "image"}))
          /\ packets \in Seq(Messages({"message", "history", "image", "failed"}))
          /\ job \in [Workers -> Messages({"none", "history", "image", "writing", "spoilt"})]
      <3> HIDE DEF Requests, Packets, Jobs
      <3> QED
        BY <2>1, <2>2
    <2>4. /\ \A k \in DOMAIN requests : Fits(requests[k])
          /\ \A k \in DOMAIN packets : Fits(packets[k])
          /\ \A w \in Workers : Fits(job[w])
      BY <2>1 DEF Requests, Packets, Jobs, FittingOnes
    <2>5. \A m \in {requests[k] : k \in DOMAIN requests} \cup {job[w] : w \in Workers}
                     \cup {packets[k] : k \in DOMAIN packets} :
             m.kind \in {"image", "writing", "spoilt", "failed", "message"} => Len(m.images) = 1
      BY <2>4 DEF Fits
    <2>6. display \in Seq([image : Images, shows : Images \cup {None}])
      BY DEF TypeInv, Items
    <2> QED
      BY <2>3, <2>5, <2>6 DEF TypeInv, TypeOK
  <1>2. DownloadInv => TypeOK
    BY <1>1 DEF DownloadInv
  <1> QED
    BY <1>2, DownloadInvariant, PTL

\* No failure, no reopened chat and no race makes the client forget an image it shows as loading
\* (downloadImage and its callers, handleDownloadImageResponse).
THEOREM LoadingImagesAreFetched == Spec => []NothingForgotten
  <1>1. DownloadInv => NothingForgotten
    BY DEF DownloadInv
  <1> QED
    BY <1>1, DownloadInvariant, PTL

\* A merged read never writes the bytes of another packet to an image's file: the file is whole
\* unless the image's packet was torn or a failing write has cut the file (handleServerData).
THEOREM CachedImagesAreWhole == Spec => []CacheIsWhole
  <1>1. DownloadInv => CacheIsWhole
    BY DEF DownloadInv
  <1> QED
    BY <1>1, DownloadInvariant, PTL
================================================================================
