------------------------ MODULE MediaDecisionProofs ------------------------
(***************************************************************************)
(* Proofs about the choices of links and streams, for every menu, page,    *)
(* list of formats and order of pads.  That something is chosen where      *)
(* there is something to choose needs that a set of numbers has a least    *)
(* one, and a sequence a greatest: the first lemmas.                       *)
(***************************************************************************)
EXTENDS MediaDecision, WellFoundedInduction, TLAPS

\* A set of numbers that is not empty has a least one.
LEMMA LeastExists ==
  ASSUME NEW S \in SUBSET Nat, S # {}
  PROVE  Min(S) \in S /\ \A y \in S : Min(S) <= y
  <1>1. \E x \in S : \A y \in S : ~(<<y, x>> \in OpToRel(<, Nat))
    BY NatLessThanWellFounded, WFMin
  <1>2. PICK x \in S : \A y \in S : ~(<<y, x>> \in OpToRel(<, Nat))
    BY <1>1
  <1>3. ASSUME NEW y \in S PROVE x <= y
    <2>1. <<y, x>> \in OpToRel(<, Nat) <=> y < x
      BY DEF OpToRel
    <2>2. ~(y < x)
      BY <1>2, <2>1
    <2> QED  BY <2>2
  <1> QED  BY <1>3 DEF Min

\* And a greatest one, if it has a bound.
LEMMA GreatestExists ==
  ASSUME NEW S \in SUBSET Nat, S # {}, NEW n \in Nat, \A y \in S : y <= n
  PROVE  Max(S) \in S /\ \A y \in S : Max(S) >= y
  <1> DEFINE T == {n - y : y \in S}
  <1>1. T \in SUBSET Nat /\ T # {}
    <2>1. \A y \in S : n - y \in Nat
      OBVIOUS
    <2>2. T \subseteq Nat
      BY <2>1
    <2> QED  BY <2>2
  <1>2. Min(T) \in T /\ \A y \in T : Min(T) <= y
    BY <1>1, LeastExists
  <1>3. PICK x \in S : Min(T) = n - x
    BY <1>2
  <1>4. ASSUME NEW y \in S PROVE x >= y
    <2>1. n - x <= n - y
      BY <1>2, <1>3
    <2> QED  BY <2>1
  <1> QED  BY <1>4 DEF Max

\* Of the places of a sequence, one has the greatest number: the least initial part
\* without one would be the part before it and one more place.
LEMMA PeakExists ==
  ASSUME NEW n \in Nat, NEW P \in SUBSET (1..n), P # {}, NEW h \in [P -> Nat]
  PROVE  \E i \in P : \A j \in P : h[i] >= h[j]
  <1> DEFINE Peak(m) == \E i \in P \cap 1..m : \A j \in P \cap 1..m : h[i] >= h[j]
             T == {m \in 0..n : P \cap 1..m # {} /\ ~Peak(m)}
  <1>1. ASSUME T # {} PROVE FALSE
    <2>1. T \in SUBSET Nat
      OBVIOUS
    <2>2. PICK m \in T : \A k \in T : m <= k
      BY <1>1, <2>1, LeastExists
    <2>3. m \in Nat \ {0} /\ m - 1 \in 0..n /\ m - 1 \notin T
      BY <2>2
    <2>4. P \cap 1..m = (P \cap 1..(m - 1)) \cup (P \cap {m})
      BY <2>3
    <2>5. CASE P \cap 1..(m - 1) = {}
      <3>1. P \cap 1..m = {m}
        BY <2>2, <2>4, <2>5
      <3>2. h[m] >= h[m]
        BY <3>1
      <3> QED  BY <2>2, <3>1, <3>2
    <2>6. CASE P \cap 1..(m - 1) # {}
      <3>1. PICK i \in P \cap 1..(m - 1) : \A j \in P \cap 1..(m - 1) : h[i] >= h[j]
        BY <2>3, <2>6
      <3>2. i \in P \cap 1..m
        BY <2>4
      <3>3. CASE m \in P /\ h[m] >= h[i]
        <4>1. \A j \in P \cap 1..m : h[m] >= h[j]
          BY <2>4, <3>1, <3>3
        <4> QED  BY <2>2, <2>4, <3>3, <4>1
      <3>4. CASE ~(m \in P /\ h[m] >= h[i])
        <4>1. \A j \in P \cap 1..m : h[i] >= h[j]
          BY <2>4, <3>1, <3>4
        <4> QED  BY <2>2, <3>2, <4>1
      <3> QED  BY <3>3, <3>4
    <2> QED  BY <2>5, <2>6
  <1>2. n \notin T
    BY <1>1
  <1>3. P \cap 1..n = P
    OBVIOUS
  <1> QED  BY <1>2, <1>3

\* What the choices take is there: the first of some places, and the greatest.
LEMMA FirstAtIs ==
  ASSUME NEW s, NEW places \in SUBSET Nat, places # {}
  PROVE  \E i \in places : FirstAt(s, places) = s[i]
  BY LeastExists DEF FirstAt

LEMMA GreatestIs ==
  ASSUME NEW n \in Nat, NEW f, NEW P \in SUBSET (1..n), P # {},
         \A i \in P : f[i].height \in Nat
  PROVE  \E i \in P : /\ Greatest(f, P) = f[i]
                      /\ \A j \in P : f[i].height >= f[j].height
  <1> DEFINE h == [i \in P |-> f[i].height]
             best == {i \in P : \A j \in P : f[i].height >= f[j].height}
  <1>1. \E i \in P : \A j \in P : h[i] >= h[j]
    <2> h \in [P -> Nat]
      OBVIOUS
    <2> HIDE DEF h
    <2> QED  BY PeakExists
  <1>2. best # {}
    <2>1. PICK i \in P : \A j \in P : h[i] >= h[j]
      BY <1>1
    <2>2. \A j \in P : f[i].height >= f[j].height
      BY <2>1
    <2> QED  BY <2>2
  <1>6. best \subseteq P
    OBVIOUS
  <1>5. best \in SUBSET Nat /\ \A i \in best : i <= n
    <2> HIDE DEF best
    <2> QED  BY <1>6
  <1>3. Max(best) \in best
    BY <1>2, <1>5, GreatestExists
  <1>4. Greatest(f, P) = f[Max(best)]
    BY DEF Greatest
  <1> QED  BY <1>3, <1>4

-----------------------------------------------------------------------------
\* Of some qualities there is one that is preferred.
LEMMA PreferredIs ==
  ASSUME NEW qs \in SUBSET Qualities, qs # {}
  PROVE  /\ Preferred(qs) \in qs
         /\ \A q \in qs : quality_rank(Preferred(qs)) <= quality_rank(q)
  <1> DEFINE R == {quality_rank(q) : q \in qs}
  <1>1. \A q \in Qualities : quality_rank(q) \in 0..5
    BY DEF Qualities, quality_rank
  <1>2. R \in SUBSET Nat /\ R # {}
    BY <1>1
  <1>3. PICK q \in qs : Min(R) = quality_rank(q) /\ \A r \in R : Min(R) <= r
    BY <1>2, LeastExists
  <1>4. \A o \in qs : quality_rank(q) <= quality_rank(o)
    BY <1>3
  <1> QED  BY <1>4 DEF Preferred

\* Of some files there is one that is granted the most.
LEMMA MostIs ==
  ASSUME NEW menu, IsMenu(menu), NEW files \in SUBSET DOMAIN menu, files # {}
  PROVE  \E q \in files : \A o \in files : Granted(menu[q]) >= Granted(menu[o])
  <1> DEFINE G(q) == IF q \in files THEN Granted(menu[q]) ELSE 0
             S == {Granted(menu[q]) : q \in files}
             n == G("240") + G("360") + G("480") + G("720") + G("1080") + G("other")
  <1>1. files \subseteq Qualities /\ \A q \in files : Granted(menu[q]) \in Nat
    BY DEF IsMenu, Granted, Links
  <1>2. \A q \in Qualities : G(q) \in Nat
    BY <1>1
  <1>3. /\ G("240") \in Nat /\ G("360") \in Nat /\ G("480") \in Nat
        /\ G("720") \in Nat /\ G("1080") \in Nat /\ G("other") \in Nat
    BY <1>2 DEF Qualities
  <1> HIDE DEF G
  <1>4. n \in Nat /\ \A q \in Qualities : G(q) <= n
    BY <1>3 DEF Qualities
  <1>5. \A q \in files : Granted(menu[q]) <= n
    BY <1>1, <1>4 DEF G
  <1>6. S \in SUBSET Nat /\ S # {} /\ \A y \in S : y <= n
    BY <1>1, <1>5
  <1>7. PICK q \in files : Max(S) = Granted(menu[q]) /\ \A y \in S : Max(S) >= y
    BY <1>4, <1>6, GreatestExists
  <1>8. \A o \in files : Granted(menu[q]) >= Granted(menu[o])
    BY <1>7
  <1> QED  BY <1>8

\* What is chosen of a menu.
LEMMA BestIs ==
  ASSUME NEW menu, IsMenu(menu), DOMAIN menu # {}
  PROVE  LET best == BestQuality(menu)
             steady == {q \in DOMAIN menu :
                          /\ ~menu[q].hls
                          /\ menu[q].rate = None \/ menu[q].rate >= typical_bitrate_kbps(q)}
         IN  /\ best \in DOMAIN menu
             /\ steady # {} => best \in steady
             /\ best = "1080" => steady \subseteq {"1080", "other"}
             /\ menu[best].hls => \A q \in DOMAIN menu : menu[q].hls
  <1> DEFINE files  == {q \in DOMAIN menu : ~menu[q].hls}
             steady == {q \in files : Sustainable(q, menu[q])}
             most   == {q \in files : \A o \in files : Granted(menu[q]) >= Granted(menu[o])}
             from   == IF files = {} THEN DOMAIN menu ELSE IF steady # {} THEN steady ELSE most
  <1>1. DOMAIN menu \subseteq Qualities
    BY DEF IsMenu
  <1>2. files # {} => most # {}
    BY MostIs
  <1>3. from # {} /\ from \subseteq DOMAIN menu
    BY <1>2
  <1>4. BestQuality(menu) = Preferred(from)
    BY DEF BestQuality
  <1>5. /\ Preferred(from) \in from
        /\ \A q \in from : quality_rank(Preferred(from)) <= quality_rank(q)
    BY <1>1, <1>3, PreferredIs
  <1>6. steady = {q \in DOMAIN menu :
                    /\ ~menu[q].hls
                    /\ menu[q].rate = None \/ menu[q].rate >= typical_bitrate_kbps(q)}
    BY DEF Sustainable
  <1> DEFINE best == BestQuality(menu)
  <1>7. best \in DOMAIN menu /\ (steady # {} => best \in steady)
    BY <1>3, <1>4, <1>5
  <1>8. ASSUME best = "1080" PROVE steady \subseteq {"1080", "other"}
    <2> SUFFICES ASSUME NEW q \in steady PROVE q \in {"1080", "other"}
      OBVIOUS
    <2>1. q \in from /\ q \in Qualities
      BY <1>1
    <2>2. quality_rank("1080") <= quality_rank(q)
      BY <1>4, <1>5, <1>8, <2>1
    <2> QED  BY <2>1, <2>2 DEF quality_rank, Qualities
  <1>9. menu[best].hls => \A q \in DOMAIN menu : menu[q].hls
    BY <1>4, <1>5
  <1> QED  BY <1>6, <1>7, <1>8, <1>9

-----------------------------------------------------------------------------
\* The first link of several, none of which may be there.
LEMMA FirstOfIs ==
  ASSUME NEW n \in Nat, NEW links, DOMAIN links = 1..n
  PROVE  /\ FirstOf(links) = None => \A i \in 1..n : links[i] = None
         /\ FirstOf(links) # None => \E i \in 1..n : FirstOf(links) = links[i]
  <1> DEFINE there == {i \in 1..n : links[i] # None}
  <1>1. FirstOf(links) = FirstAt(links, there)
    BY DEF FirstOf
  <1>2. CASE there = {}
    BY <1>1, <1>2 DEF FirstAt
  <1>3. CASE there # {}
    <2>1. there \in SUBSET Nat
      OBVIOUS
    <2>2. PICK i \in there : FirstAt(links, there) = links[i]
      BY <1>3, <2>1, FirstAtIs
    <2> QED  BY <1>1, <2>2
  <1> QED  BY <1>2, <1>3

LEMMA FirstOfTwo ==
  ASSUME NEW a, NEW b
  PROVE  LET f == FirstOf(<<a, b>>)
         IN  (f = None => a = None /\ b = None) /\ f \in {a, b, None}
  <1> DEFINE s == <<a, b>>
  <1>1. DOMAIN s = 1..2 /\ s[1] = a /\ s[2] = b
    OBVIOUS
  <1> HIDE DEF s
  <1>2. /\ FirstOf(s) = None => \A i \in 1..2 : s[i] = None
        /\ FirstOf(s) # None => \E i \in 1..2 : FirstOf(s) = s[i]
    BY <1>1, FirstOfIs
  <1>3. 1..2 = {1, 2}
    OBVIOUS
  <1>4. (FirstOf(s) = None => a = None /\ b = None) /\ FirstOf(s) \in {a, b, None}
    BY <1>1, <1>2, <1>3
  <1> QED  BY <1>4 DEF s

LEMMA FirstOfFour ==
  ASSUME NEW a, NEW b, NEW c, NEW d
  PROVE  LET f == FirstOf(<<a, b, c, d>>)
         IN  /\ f = None => a = None /\ b = None /\ c = None /\ d = None
             /\ f \in {a, b, c, d, None}
  <1> DEFINE s == <<a, b, c, d>>
  <1>1. DOMAIN s = 1..4 /\ s[1] = a /\ s[2] = b /\ s[3] = c /\ s[4] = d
    OBVIOUS
  <1> HIDE DEF s
  <1>2. /\ FirstOf(s) = None => \A i \in 1..4 : s[i] = None
        /\ FirstOf(s) # None => \E i \in 1..4 : FirstOf(s) = s[i]
    BY <1>1, FirstOfIs
  <1>3. 1..4 = {1, 2, 3, 4}
    OBVIOUS
  <1>4. /\ FirstOf(s) = None => a = None /\ b = None /\ c = None /\ d = None
        /\ FirstOf(s) \in {a, b, c, d, None}
    BY <1>1, <1>2, <1>3
  <1> QED  BY <1>4 DEF s

\* A link that is taken is no decoy.
LEMMA RealIs ==
  ASSUME NEW link
  PROVE  /\ Real(link) \in {link, None} /\ (Real(link) # None => ~link.bait)
         /\ Real(link) = None => link = None \/ link.bait
  BY DEF Real, is_bait_source

LEMMA SearchIs ==
  ASSUME NEW links, AreLinks(links), None \notin Links(Nat)
  PROVE  LET m == extract_mp4_url_from_text(links)
             h == extract_m3u8_url_from_text(links)
         IN  /\ (m # None => ~m.bait) /\ (h # None => ~h.bait)
             /\ m = None => \A i \in DOMAIN links : links[i].mp4 => links[i].bait
             /\ h = None => \A i \in DOMAIN links : links[i].hls => links[i].bait
  <1> DEFINE M == {i \in DOMAIN links : links[i].mp4 /\ ~is_bait_source(links[i])}
             H == {i \in DOMAIN links : links[i].hls /\ ~is_bait_source(links[i])}
  <1>1. DOMAIN links \subseteq Nat /\ \A i \in DOMAIN links : links[i] # None
    BY DEF AreLinks
  <1>2. M \in SUBSET Nat /\ H \in SUBSET Nat
    BY <1>1
  <1>3. /\ extract_mp4_url_from_text(links) = FirstAt(links, M)
        /\ extract_m3u8_url_from_text(links) = FirstAt(links, H)
    BY DEF extract_mp4_url_from_text, extract_m3u8_url_from_text
  <1>4. ASSUME NEW P \in {M, H}
        PROVE  /\ FirstAt(links, P) = None => P = {}
               /\ FirstAt(links, P) # None => ~FirstAt(links, P).bait
    <2>1. CASE P = {}
      BY <2>1 DEF FirstAt
    <2>2. CASE P # {}
      <3>1. P \in SUBSET Nat
        BY <1>2
      <3>2. PICK i \in P : FirstAt(links, P) = links[i]
        BY <2>2, <3>1, FirstAtIs
      <3>3. i \in DOMAIN links /\ ~links[i].bait
        BY <1>4 DEF is_bait_source
      <3> QED  BY <1>1, <3>2, <3>3
    <2> QED  BY <2>1, <2>2
  <1>5. M = {} => \A i \in DOMAIN links : links[i].mp4 => links[i].bait
    BY DEF is_bait_source
  <1>6. H = {} => \A i \in DOMAIN links : links[i].hls => links[i].bait
    BY DEF is_bait_source
  <1> QED  BY <1>3, <1>4, <1>5, <1>6

\* Methods 7 and 6 return nothing only if they have nothing but decoys.
LEMMA KeysAre ==
  ASSUME NEW obj
  PROVE  LET f == FromObject(obj)
         IN  (f # None => ~f.bait) /\ (f = None => KeysBait(obj))
  <1> DEFINE f == FromObject(obj)
  <1>1. CASE obj = None
    BY <1>1 DEF FromObject, KeysBait
  <1>2. CASE obj # None
    <2>1. f = FirstOf(<<Real(obj.source), Real(FromMenu(obj.mp4)),
                        Real(obj.direct), Real(obj.hls)>>)
      BY <1>2 DEF FromObject
    <2>2. /\ f = None => Real(obj.source) = None /\ Real(obj.direct) = None
                          /\ Real(obj.hls) = None
          /\ f \in {Real(obj.source), Real(FromMenu(obj.mp4)),
                    Real(obj.direct), Real(obj.hls), None}
      BY <2>1, FirstOfFour
    <2>3. f # None => ~f.bait
      BY <2>2, RealIs
    <2>4. f = None => \A l \in {obj.direct, obj.source, obj.hls} \ {None} : l.bait
      BY <2>2, RealIs
    <2> QED  BY <2>3, <2>4 DEF KeysBait
  <1> QED  BY <1>1, <1>2

LEMMA DecipheredIs ==
  ASSUME NEW text, text # None => AreLinks(text.links), None \notin Links(Nat)
  PROVE  LET f == FromDeciphered(text)
         IN  /\ f # None => ~f.bait
             /\ f = None /\ text # None => KeysBait(text.json) /\ LinksBait(text.links)
  <1> DEFINE f == FromDeciphered(text)
             k == FromObject(text.json)
             l == FromText(text.links)
             m == extract_mp4_url_from_text(text.links)
             h == extract_m3u8_url_from_text(text.links)
  <1>1. CASE text = None
    BY <1>1 DEF FromDeciphered
  <1>2. CASE text # None
    <2>1. f = FirstOf(<<k, l>>) /\ l = FirstOf(<<m, h>>)
      BY <1>2 DEF FromDeciphered, FromText
    <2>2. (k # None => ~k.bait) /\ (k = None => KeysBait(text.json))
      BY KeysAre
    <2>3. /\ (m # None => ~m.bait) /\ (h # None => ~h.bait)
          /\ m = None /\ h = None => LinksBait(text.links)
      BY <1>2, SearchIs DEF LinksBait
    <2> HIDE DEF f, k, l, m, h
    <2>4. (l = None => m = None /\ h = None) /\ l \in {m, h, None}
      BY <2>1, FirstOfTwo
    <2>5. (f = None => k = None /\ l = None) /\ f \in {k, l, None}
      BY <2>1, FirstOfTwo
    <2>6. (f # None => ~f.bait) /\ (f = None => KeysBait(text.json) /\ LinksBait(text.links))
      BY <2>2, <2>3, <2>4, <2>5
    <2> QED  BY <2>6 DEF f
  <1> QED  BY <1>1, <1>2

LEMMA Method8Is ==
  ASSUME NEW texts, DOMAIN texts = 1 .. Len(texts), Len(texts) \in Nat,
         try_method8(texts) # None
  PROVE  ~try_method8(texts).bait
  <1> DEFINE c == [i \in DOMAIN texts |-> Real(deobfuscate_embedded_json(texts[i]))]
             n == Len(texts)
  <1>1. DOMAIN c = 1..n /\ try_method8(texts) = FirstOf(c)
    BY DEF try_method8
  <1>2. \A i \in 1..n : c[i] = Real(deobfuscate_embedded_json(texts[i]))
    OBVIOUS
  <1> HIDE DEF c, n
  <1>3. PICK i \in 1..n : FirstOf(c) = c[i]
    BY <1>1, FirstOfIs DEF n
  <1> QED  BY <1>1, <1>2, <1>3, RealIs

LEMMA FallbackIs ==
  ASSUME NEW page, AreLinks(page.links), None \notin Links(Nat)
  PROVE  LET f == try_fallback_urls(page)
         IN  /\ f # None => ~f.bait
             /\ f = None =>
                  /\ page.source # None => page.source.bait \/ page.source.hls
                  /\ \A i \in DOMAIN page.links :
                        page.links[i].mp4 => page.links[i].bait
  <1> DEFINE f == try_fallback_urls(page)
             s == FromSource(page.source)
             m == extract_mp4_url_from_text(page.links)
  <1>1. (f = None => s = None /\ m = None) /\ f \in {s, m, None}
    BY FirstOfTwo DEF try_fallback_urls
  <1>2. /\ s # None => ~s.bait
        /\ s = None => page.source = None \/ page.source.bait \/ page.source.hls
    BY DEF FromSource, is_bait_source
  <1>3. /\ m # None => ~m.bait
        /\ m = None => \A i \in DOMAIN page.links : page.links[i].mp4 => page.links[i].bait
    BY SearchIs
  <1> HIDE DEF f, s, m
  <1>4. /\ f # None => ~f.bait
        /\ f = None =>
             /\ page.source # None => page.source.bait \/ page.source.hls
             /\ \A i \in DOMAIN page.links : page.links[i].mp4 => page.links[i].bait
    BY <1>1, <1>2, <1>3
  <1> QED  BY <1>4 DEF f

LEMMA VoeIs ==
  ASSUME NEW page, IsPage(page), None \notin Links(Nat)
  PROVE  LET f == VoeChoice(page)
         IN  /\ f # None => ~f.bait
             /\ f = None =>
                  /\ \A text \in {page.m7, page.m6} \ {None} :
                        KeysBait(text.json) /\ LinksBait(text.links)
                  /\ page.source # None => page.source.bait \/ page.source.hls
                  /\ \A i \in DOMAIN page.links :
                        page.links[i].mp4 => page.links[i].bait
  <1> DEFINE f == VoeChoice(page)
             a == try_method8(page.m8)
             b == try_method7(page.m7)
             c == try_method6(page.m6)
             d == try_fallback_urls(page)
  <1>1. /\ f = None => b = None /\ c = None /\ d = None
        /\ f \in {a, b, c, d, None}
    BY FirstOfFour DEF VoeChoice
  <1>2. a # None => ~a.bait
    BY Method8Is DEF IsPage
  <1>3. /\ b # None => ~b.bait
        /\ b = None /\ page.m7 # None => KeysBait(page.m7.json) /\ LinksBait(page.m7.links)
    BY DecipheredIs DEF try_method7, IsPage
  <1>4. /\ c # None => ~c.bait
        /\ c = None /\ page.m6 # None => KeysBait(page.m6.json) /\ LinksBait(page.m6.links)
    BY DecipheredIs DEF try_method6, IsPage
  <1>5. /\ d # None => ~d.bait
        /\ d = None =>
             /\ page.source # None => page.source.bait \/ page.source.hls
             /\ \A i \in DOMAIN page.links : page.links[i].mp4 => page.links[i].bait
    BY FallbackIs DEF IsPage
  <1> HIDE DEF a, b, c, d, f
  <1>6. f # None => ~f.bait
    BY <1>1, <1>2, <1>3, <1>4, <1>5
  <1>7. ASSUME f = None, NEW text \in {page.m7, page.m6} \ {None}
        PROVE  KeysBait(text.json) /\ LinksBait(text.links)
    BY <1>1, <1>3, <1>4, <1>7
  <1> QED  BY <1>1, <1>5, <1>6, <1>7 DEF f

-----------------------------------------------------------------------------
\* The best of the formats that fit, if it has a url.
LEMMA BestFormatIs ==
  ASSUME NEW cs, NEW f \in Seq(Formats(cs, Nat)), NEW P \in SUBSET (DOMAIN f),
         None \notin Formats(cs, Nat)
  PROVE  LET b == WithUrl(Greatest(f, P))
         IN  /\ b # None => b.url /\ \E i \in P : b = f[i]
             /\ b = None /\ P # {} =>
                  \E i \in P : ~f[i].url /\ \A j \in P : f[i].height >= f[j].height
  <1> DEFINE b == WithUrl(Greatest(f, P))
  <1>1. Len(f) \in Nat /\ P \subseteq 1..Len(f) /\ \A i \in P : f[i] \in Formats(cs, Nat)
    OBVIOUS
  <1>2. \A i \in P : f[i].height \in Nat /\ f[i] # None
    BY <1>1 DEF Formats
  <1>3. CASE P = {}
    BY <1>3 DEF WithUrl, Greatest
  <1>4. CASE P # {}
    <2>1. PICK i \in P : /\ Greatest(f, P) = f[i]
                         /\ \A j \in P : f[i].height >= f[j].height
      BY <1>1, <1>2, <1>4, GreatestIs
    <2>2. b = IF ~f[i].url THEN None ELSE f[i]
      BY <1>2, <2>1 DEF WithUrl
    <2> QED  BY <1>2, <2>1, <2>2
  <1> QED  BY <1>3, <1>4

Whole == Formats({"avc1", "mp4v", "vp9"}, Nat)
Apart == Formats({"avc1", "vp9", "mp4a"}, Nat)

LEMMA YouTubeIs ==
  ASSUME NEW player, player.formats \in Seq(Whole), player.adaptive \in Seq(Apart),
         None \notin Whole \cup Apart, YouTubeChoice(player) # None
  PROVE  LET f == YouTubeChoice(player)
             sounds == {a \in Range(player.adaptive) : a.codec = "mp4a"}
         IN  /\ f.video.url /\ f.video.codec \in {"avc1", "mp4v"}
             /\ \/ f.video \notin Range(player.formats)
                \/ \A a \in Range(player.formats) : a.codec # "mp4v" /\ a.height <= 1080
                => f.video.codec = "avc1" /\ f.video.height <= 1080
             /\ f.audio = None /\ f.video \notin Range(player.formats) =>
                  sounds = {} \/ \E a \in sounds :
                                    ~a.url /\ \A o \in sounds : a.height >= o.height
  <1> DEFINE fs == player.formats
             as == player.adaptive
             f  == YouTubeChoice(player)
             PC == {i \in DOMAIN fs : fs[i].codec \in {"avc1", "mp4v"}}
             PV == {i \in DOMAIN as : as[i].codec = "avc1" /\ as[i].height <= 1080}
             PA == {i \in DOMAIN as : as[i].codec = "mp4a"}
             whole == best_combined(fs)
             video == best_video(as)
             audio == best_audio(as)
             sounds == {a \in Range(as) : a.codec = "mp4a"}
  <1>1. whole # None => whole.url /\ \E i \in PC : whole = fs[i]
    <2>1. PC \in SUBSET (DOMAIN fs)
      OBVIOUS
    <2>2. whole = WithUrl(Greatest(fs, PC))
      BY DEF best_combined
    <2> HIDE DEF PC, whole
    <2> QED  BY <2>1, <2>2, BestFormatIs DEF Whole
  <1>2. video # None => video.url /\ \E i \in PV : video = as[i]
    <2>1. PV \in SUBSET (DOMAIN as)
      OBVIOUS
    <2>2. video = WithUrl(Greatest(as, PV))
      BY DEF best_video
    <2> HIDE DEF PV, video
    <2> QED  BY <2>1, <2>2, BestFormatIs DEF Apart
  <1>3. audio = None /\ PA # {} =>
          \E i \in PA : ~as[i].url /\ \A j \in PA : as[i].height >= as[j].height
    BY BestFormatIs DEF best_audio, Apart
  <1>4. \/ whole # None /\ f = [video |-> whole, audio |-> None]
        \/ whole = None /\ video # None /\ f = [video |-> video, audio |-> audio]
    BY DEF YouTubeChoice
  <1>5. CASE whole # None /\ f = [video |-> whole, audio |-> None]
    <2>1. PICK i \in PC : whole = fs[i]
      BY <1>1, <1>5
    <2>2. whole \in Range(fs)
      BY <2>1 DEF Range
    <2> QED  BY <1>1, <1>5, <2>1, <2>2
  <1>6. CASE whole = None /\ video # None /\ f = [video |-> video, audio |-> audio]
    <2>1. PICK i \in PV : video = as[i]
      BY <1>2, <1>6
    <2>2. f.video = video /\ video.codec = "avc1" /\ video.height <= 1080 /\ video.url
      BY <1>2, <1>6, <2>1
    <2>3. ASSUME f.audio = None, sounds # {}
          PROVE  \E a \in sounds : ~a.url /\ \A o \in sounds : a.height >= o.height
      <3>1. sounds = {as[j] : j \in PA}
        BY DEF Range
      <3>2. PICK j \in PA : ~as[j].url /\ \A k \in PA : as[j].height >= as[k].height
        BY <1>3, <1>6, <2>3, <3>1
      <3> QED  BY <3>1, <3>2
    <2> QED  BY <2>2, <2>3
  <1> QED  BY <1>4, <1>5, <1>6

LEMMA YtdlpIs ==
  ASSUME NEW output, output.requested \in Seq(Requested), None \notin Requested,
         ~output.url, resolve_urls(output) # None
  PROVE  LET f == resolve_urls(output)
         IN  /\ "video" \in f.video.tracks
             /\ f.audio = None =>
                  \A r \in Range(output.requested) : ~r.url \/ "audio" \notin r.tracks
  <1> DEFINE rs == output.requested
             f  == resolve_urls(output)
             P(track) == {i \in DOMAIN rs : rs[i].url /\ track \in rs[i].tracks}
             With(track) == FirstAt(rs, P(track))
  <1>1. With("video") # None /\ f = [video |-> With("video"), audio |-> With("audio")]
    BY DEF resolve_urls
  <1>2. ASSUME NEW track, P(track) # {}
        PROVE  \E i \in P(track) : With(track) = rs[i]
    <2>1. P(track) \in SUBSET Nat
      OBVIOUS
    <2> QED  BY <1>2, <2>1, FirstAtIs
  <1>3. ASSUME NEW track, P(track) = {} PROVE With(track) = None
    BY <1>3 DEF FirstAt
  <1>4. "video" \in f.video.tracks
    <2>1. P("video") # {}
      BY <1>1, <1>3
    <2>2. PICK i \in P("video") : With("video") = rs[i]
      BY <1>2, <2>1
    <2> QED  BY <1>1, <2>2
  <1>5. ASSUME With("audio") = None PROVE P("audio") = {}
    <2> SUFFICES ASSUME P("audio") # {} PROVE FALSE
      OBVIOUS
    <2>1. PICK i \in P("audio") : With("audio") = rs[i]
      BY <1>2
    <2>2. rs[i] \in Requested
      OBVIOUS
    <2> QED  BY <1>5, <2>1, <2>2
  <1>6. f.audio = None =>
          \A r \in Range(rs) : ~r.url \/ "audio" \notin r.tracks
    BY <1>1, <1>5 DEF Range
  <1> QED  BY <1>4, <1>6

-----------------------------------------------------------------------------
(***************************************************************************)
(* The streams of a file.                                                  *)
(***************************************************************************)
LinkSets == [decoder : Elements \cup {Nothing}, video : SUBSET Pads,
             audio : SUBSET Pads, loose : SUBSET Pads]

\* What a pad may change: the first that is seen to be video takes the chain of the
\* picture, and the first that fits takes the chain of the sound.
PadEffect(installed, links, pad, new) ==
    /\ new \in LinkSets
    /\ links.decoder # Nothing => new.decoder # Nothing /\ new.video = links.video
    /\ ~(pad.seen /\ pad.is \in Video) =>
         new.decoder = links.decoder /\ new.video = links.video
    /\ links.decoder = Nothing /\ pad.seen /\ Shown(installed, pad.is) =>
         new.decoder # Nothing /\ new.video = {pad}
    /\ links.audio # {} => new.audio = links.audio
    /\ pad.seen /\ pad.is # "aac" => new.audio = links.audio
    /\ "aac decoder" \in installed.have /\ links.audio = {} /\ pad.seen /\ pad.is = "aac" =>
         new.audio = {pad}

LEMMA PadChanges ==
  ASSUME NEW installed \in Installations, NEW links \in LinkSets, NEW pad \in Pads
  PROVE  PadEffect(installed, links, pad, pad_added(installed, links, pad))
  <1> DEFINE new == pad_added(installed, links, pad)
  <1>1. /\ pad.is \in Video \cup Audio \cup {"text"} /\ pad.seen \in BOOLEAN
        /\ installed.hw \in BOOLEAN /\ installed.hevc \in BOOLEAN
    BY DEF Pads, Installations
  <1>2. /\ "h264" \notin Audio /\ "aac" \notin Video /\ "text" \notin Video \cup Audio
        /\ Nothing \notin Elements
    BY DEF Video, Audio, Elements, Nothing
  <1>3. /\ Loose(links, pad) \in LinkSets
        /\ Loose(links, pad).decoder = links.decoder
        /\ Loose(links, pad).video = links.video /\ Loose(links, pad).audio = links.audio
    BY DEF Loose, LinkSets
  <1>4. CASE pad.seen /\ pad.is \in Video
    <2> DEFINE d == VideoDecoder(installed, pad)
               t == [links EXCEPT !.decoder = d]
    <2>1. new = IF \/ links.decoder # Nothing \/ d = Nothing
                   \/ Converter(installed, pad) \notin installed.have
                  THEN Loose(links, pad)
                ELSE IF Decodes(d, pad) THEN [t EXCEPT !.video = {pad}]
                ELSE Loose(t, pad)
      BY <1>4 DEF pad_added, LinkVideo
    <2>2. d \in Elements \cup {Nothing}
      BY DEF VideoDecoder, Available, Elements
    <2>3. Shown(installed, pad.is) =>
            d # Nothing /\ Converter(installed, pad) \in installed.have /\ Decodes(d, pad)
      BY <1>1, <1>4 DEF Shown, VideoDecoder, Available, Converter, Decodes, Nothing, Video
    <2> HIDE DEF d
    <2>4. /\ t \in LinkSets /\ t.decoder = d /\ t.video = links.video /\ t.audio = links.audio
          /\ [t EXCEPT !.video = {pad}] \in LinkSets
          /\ [t EXCEPT !.video = {pad}].decoder = d
          /\ [t EXCEPT !.video = {pad}].video = {pad}
          /\ [t EXCEPT !.video = {pad}].audio = links.audio
      BY <2>2 DEF LinkSets
    <2>5. /\ Loose(t, pad) \in LinkSets /\ Loose(t, pad).decoder = d
          /\ Loose(t, pad).video = links.video /\ Loose(t, pad).audio = links.audio
      BY <2>4 DEF Loose, LinkSets
    <2> HIDE DEF t
    <2>6. new \in LinkSets /\ new.audio = links.audio
      BY <1>3, <2>1, <2>4, <2>5
    <2>7. links.decoder # Nothing => new.decoder # Nothing /\ new.video = links.video
      BY <1>3, <2>1
    <2>8. links.decoder = Nothing /\ Shown(installed, pad.is) =>
            new.decoder # Nothing /\ new.video = {pad}
      BY <2>1, <2>3, <2>4
    <2>9. pad.is # "aac"
      BY <1>2, <1>4
    <2> QED  BY <1>4, <2>6, <2>7, <2>8, <2>9 DEF PadEffect
  <1>5. CASE ~(pad.seen /\ pad.is \in Video)
    <2> DEFINE a == [links EXCEPT !.audio = {pad}]
    <2>1. a \in LinkSets /\ a.decoder = links.decoder /\ a.video = links.video /\ a.audio = {pad}
      BY DEF LinkSets
    <2>2. /\ \/ new = links \/ new = Loose(links, pad)
             \/ new = a /\ links.audio = {} /\ FitsAudio(installed, pad)
          /\ pad.seen /\ pad.is \in Audio /\ links.audio = {} /\ FitsAudio(installed, pad)
               => new = a
      BY <1>5 DEF pad_added, LinkAudio, LinkUnknown, Discard
    <2>3. pad.seen /\ FitsAudio(installed, pad) => pad.is = "aac"
      BY <1>1, <1>5, <1>2 DEF FitsAudio, Decodes, Available, Nothing, Video
    <2>4. "aac decoder" \in installed.have /\ pad.is = "aac" => FitsAudio(installed, pad)
      BY DEF FitsAudio, Decodes, Available
    <2>5. ~Shown(installed, pad.is) \/ ~pad.seen
      BY <1>1, <1>5 DEF Shown, Video
    <2>6. "aac" \in Audio
      BY DEF Audio
    <2> HIDE DEF a, new
    <2>7. new \in LinkSets /\ new.decoder = links.decoder /\ new.video = links.video
      BY <1>3, <2>1, <2>2
    <2>8. links.audio # {} => new.audio = links.audio
      BY <1>3, <2>2
    <2>9. pad.seen /\ pad.is # "aac" => new.audio = links.audio
      BY <1>3, <2>2, <2>3
    <2>10. /\ "aac decoder" \in installed.have /\ links.audio = {}
           /\ pad.seen /\ pad.is = "aac"
           => new.audio = {pad}
      BY <2>1, <2>2, <2>4, <2>6
    <2>11. PadEffect(installed, links, pad, new)
      BY <1>5, <2>5, <2>7, <2>8, <2>9, <2>10 DEF PadEffect
    <2> QED  BY <2>11 DEF new
  <1> QED  BY <1>4, <1>5

\* A chain is free until the first stream that it is for has come.
PadsInv ==
    /\ came \in Seq(Pads) /\ input \in Installations /\ chosen \in LinkSets
    /\ (\A i \in DOMAIN came : ~(came[i].seen /\ came[i].is \in Video)) =>
         chosen.decoder = Nothing
    /\ \A i \in DOMAIN came : FirstOfSort(Video, i) /\ Shown(input, came[i].is) =>
         chosen.decoder # Nothing
    /\ (\A i \in DOMAIN came : came[i].seen /\ came[i].is # "aac") => chosen.audio = {}
    /\ PictureIsShown /\ SoundIsHeard

LEMMA PadsNext ==
  ASSUME PadsInv, NEW pad \in Pads, PadAdded(pad) PROVE PadsInv'
  <1> DEFINE n == Len(came)
  <1>1. /\ came' = Append(came, pad) /\ chosen' = pad_added(input, chosen, pad)
        /\ input' = input
    BY DEF PadAdded
  <1>2. /\ came' \in Seq(Pads) /\ n \in Nat /\ DOMAIN came' = 1..(n + 1) /\ DOMAIN came = 1..n
        /\ came'[n + 1] = pad /\ \A i \in 1..n : came'[i] = came[i]
    BY <1>1 DEF PadsInv
  <1>3. input \in Installations /\ chosen \in LinkSets
    BY DEF PadsInv
  <1>4. PadEffect(input, chosen, pad, chosen')
    BY <1>1, <1>3, PadChanges
  <1> HIDE DEF n
  \* The first of its sort is one that was, or the one that comes.
  <1>5. ASSUME NEW sort, NEW i \in 1..(n + 1), FirstOfSort(sort, i)'
        PROVE  \/ i \in 1..n /\ FirstOfSort(sort, i)
               \/ /\ i = n + 1 /\ pad.seen /\ pad.is \in sort
                  /\ \A j \in 1..n : ~(came[j].seen /\ came[j].is \in sort)
    <2>1. /\ came'[i].seen /\ came'[i].is \in sort
          /\ \A j \in 1..(i - 1) : ~(came'[j].seen /\ came'[j].is \in sort)
      BY <1>5 DEF FirstOfSort
    <2>2. CASE i \in 1..n
      <3>1. \A j \in 1..(i - 1) : came'[j] = came[j]
        BY <1>2, <2>2
      <3> QED  BY <1>2, <2>1, <2>2, <3>1 DEF FirstOfSort
    <2>3. CASE i = n + 1
      <3>1. i - 1 = n
        BY <1>2, <2>3
      <3> QED  BY <1>2, <2>1, <2>3, <3>1
    <2> QED  BY <1>2, <2>2, <2>3
  <1>6. (\A i \in 1..(n + 1) : ~(came'[i].seen /\ came'[i].is \in Video)) =>
           chosen'.decoder = Nothing
    <2> SUFFICES ASSUME \A i \in 1..(n + 1) : ~(came'[i].seen /\ came'[i].is \in Video)
                 PROVE  chosen'.decoder = Nothing
      OBVIOUS
    <2>1. \A i \in 1..n : ~(came[i].seen /\ came[i].is \in Video)
      BY <1>2
    <2>2. ~(pad.seen /\ pad.is \in Video)
      BY <1>2
    <2> QED  BY <1>2, <1>4, <2>1, <2>2 DEF PadEffect, PadsInv
  <1>7. ASSUME NEW i \in 1..(n + 1), FirstOfSort(Video, i)', Shown(input, came'[i].is)
        PROVE  chosen'.decoder # Nothing /\ chosen'.video = {came'[i]}
    <2>1. CASE i \in 1..n /\ FirstOfSort(Video, i)
      <3>1. came'[i] = came[i]
        BY <1>2, <2>1
      <3>2. chosen.decoder # Nothing /\ chosen.video = {came[i]}
        BY <1>2, <1>7, <2>1, <3>1 DEF PadsInv, PictureIsShown
      <3> QED  BY <1>4, <3>1, <3>2 DEF PadEffect
    <2>2. CASE /\ i = n + 1 /\ pad.seen /\ pad.is \in Video
               /\ \A j \in 1..n : ~(came[j].seen /\ came[j].is \in Video)
      <3>1. chosen.decoder = Nothing /\ came'[i] = pad
        BY <1>2, <2>2 DEF PadsInv
      <3> QED  BY <1>4, <1>7, <2>2, <3>1 DEF PadEffect
    <2> QED  BY <1>5, <1>7, <2>1, <2>2
  <1>8. (\A i \in 1..(n + 1) : came'[i].seen /\ came'[i].is # "aac") => chosen'.audio = {}
    <2> SUFFICES ASSUME \A i \in 1..(n + 1) : came'[i].seen /\ came'[i].is # "aac"
                 PROVE  chosen'.audio = {}
      OBVIOUS
    <2>1. \A i \in 1..n : came[i].seen /\ came[i].is # "aac"
      BY <1>2
    <2>2. pad.seen /\ pad.is # "aac"
      BY <1>2
    <2> QED  BY <1>2, <1>4, <2>1, <2>2 DEF PadEffect, PadsInv
  <1>9. ASSUME "aac decoder" \in input.have, NEW i \in 1..(n + 1),
               FirstOfSort({"aac"}, i)', \A j \in 1..(i - 1) : came'[j].seen
        PROVE  chosen'.audio = {came'[i]}
    <2>1. CASE i \in 1..n /\ FirstOfSort({"aac"}, i)
      <3>1. came'[i] = came[i] /\ \A j \in 1..(i - 1) : came'[j] = came[j]
        BY <1>2, <2>1
      <3>2. chosen.audio = {came[i]}
        BY <1>2, <1>9, <2>1, <3>1 DEF PadsInv, SoundIsHeard
      <3> QED  BY <1>4, <3>1, <3>2 DEF PadEffect
    <2>2. CASE /\ i = n + 1 /\ pad.seen /\ pad.is \in {"aac"}
               /\ \A j \in 1..n : ~(came[j].seen /\ came[j].is \in {"aac"})
      <3>1. i - 1 = n /\ came'[i] = pad
        BY <1>2, <2>2
      <3>2. \A j \in 1..n : came[j].seen /\ came[j].is # "aac"
        BY <1>2, <1>9, <2>2, <3>1
      <3>3. chosen.audio = {}
        BY <1>2, <3>2 DEF PadsInv
      <3> QED  BY <1>4, <1>9, <2>2, <3>1, <3>3 DEF PadEffect
    <2> QED  BY <1>5, <1>9, <2>1, <2>2
  <1>10. PictureIsShown'
    BY <1>1, <1>2, <1>7 DEF PictureIsShown
  <1>11. SoundIsHeard'
    BY <1>1, <1>2, <1>9 DEF SoundIsHeard
  <1> QED  BY <1>1, <1>2, <1>3, <1>4, <1>6, <1>7, <1>8, <1>10, <1>11 DEF PadEffect, PadsInv

-----------------------------------------------------------------------------
\* A choice is what its function gives for the input; of the pads PadsInv holds.
MediaInv ==
    /\ kind = "menu" =>
         /\ input \in MenuInputs
         /\ done => chosen = IF DOMAIN input = {} THEN None ELSE BestQuality(input)
    /\ kind = "page" => input \in PageInputs /\ (done => chosen = VoeChoice(input))
    /\ kind = "youtube" =>
         input \in YouTubeInputs /\ (done => chosen = YouTubeChoice(input))
    /\ kind = "ytdlp" => input \in YtdlpInputs /\ (done => chosen = resolve_urls(input))
    /\ kind = "streams" => PadsInv

LEMMA MediaInit == Init => MediaInv
  <1> SUFFICES ASSUME Init PROVE MediaInv
    OBVIOUS
  <1>1. ASSUME kind = "streams" PROVE PadsInv
    <2>1. input \in Installations /\ came = <<>> /\ chosen = Unlinked
      BY <1>1, MediaAssumption DEF Init
    <2>2. Unlinked \in LinkSets /\ Unlinked.decoder = Nothing /\ Unlinked.audio = {}
      BY DEF Unlinked, LinkSets
    <2> QED  BY <2>1, <2>2 DEF PadsInv, PictureIsShown, SoundIsHeard
  <1> QED  BY <1>1 DEF Init, MediaInv

LEMMA MediaNext == ASSUME MediaInv, [Next]_vars PROVE MediaInv'
  <1>1. CASE Choose
    <2>1. /\ ~done /\ kind # "streams" /\ kind' = kind /\ input' = input
          /\ kind = "menu" =>
               chosen' = IF DOMAIN input = {} THEN None ELSE BestQuality(input)
          /\ kind = "page" => chosen' = VoeChoice(input)
          /\ kind = "youtube" => chosen' = YouTubeChoice(input)
          /\ kind = "ytdlp" => chosen' = resolve_urls(input)
      BY <1>1 DEF Choose, Answers
    <2> QED  BY <2>1 DEF MediaInv
  <1>2. ASSUME NEW pad \in Pads, PadAdded(pad) PROVE MediaInv'
    <2>1. kind = "streams" /\ kind' = kind
      BY <1>2 DEF PadAdded
    <2> QED  BY <1>2, <2>1, PadsNext DEF MediaInv
  <1>3. CASE UNCHANGED vars
    <2>1. PadsInv => PadsInv'
      BY <1>3 DEF vars, PadsInv, PictureIsShown, SoundIsHeard, FirstOfSort
    <2> QED  BY <1>3, <2>1 DEF vars, MediaInv
  <1> QED  BY <1>1, <1>2, <1>3 DEF Next

LEMMA MediaHolds == Spec => []MediaInv
  BY MediaInit, MediaNext, PTL DEF Spec

\* Of any menu, at any rates: what the CDN can deliver in time if anything is, and
\* never a playlist where there is a file (extract_media_from_json_value).
THEOREM SteadyChosen == Spec => []SteadyIfAny
  <1>1. ASSUME MediaInv PROVE SteadyIfAny
    <2> SUFFICES ASSUME Chosen("menu") PROVE SteadyIfAny
      BY DEF SteadyIfAny
    <2>1. /\ IsMenu(input) /\ chosen # None
          /\ chosen = IF DOMAIN input = {} THEN None ELSE BestQuality(input)
      BY <1>1, MediaAssumption DEF MediaInv, Chosen
    <2>2. DOMAIN input # {} /\ chosen = BestQuality(input)
      BY <2>1
    <2> QED  BY <2>1, <2>2, BestIs DEF SteadyIfAny
  <1> QED  BY <1>1, MediaHolds, PTL

\* Of any page: never a decoy, and nothing real that methods 7 and 6 or the search of
\* the page could find is missed beside one (the methods of resolve_voe).
THEOREM DecoyNeverChosen == Spec => []DecoysAreAvoided
  <1>1. ASSUME MediaInv PROVE DecoysAreAvoided
    <2> SUFFICES ASSUME kind = "page", done PROVE DecoysAreAvoided
      BY DEF DecoysAreAvoided, Chosen
    <2>1. chosen = VoeChoice(input) /\ IsPage(input) /\ None \notin Links(Nat)
      BY <1>1, MediaAssumption DEF MediaInv
    <2> QED  BY <2>1, VoeIs DEF DecoysAreAvoided, Chosen
  <1> QED  BY <1>1, MediaHolds, PTL

\* Of any formats: H.264 of 1080 lines at most if the combined formats are no other,
\* and of the separate ones always, with a sound if the best one can be had
\* (resolve_youtube, YtdlpOutput::resolve_urls).
THEOREM PictureHasSound == Spec => []PictureAndSound
  <1>1. ASSUME MediaInv PROVE PictureAndSound
    <2>1. ASSUME Chosen("youtube") PROVE PictureAndSound
      <3>1. /\ chosen = YouTubeChoice(input) /\ chosen # None
            /\ input.formats \in Seq(Whole) /\ input.adaptive \in Seq(Apart)
        BY <1>1, <2>1, MediaAssumption DEF MediaInv, Chosen, Whole, Apart
      <3>2. None \notin Whole \cup Apart
        BY MediaAssumption DEF Whole, Apart, Formats
      <3> QED  BY <2>1, <3>1, <3>2, YouTubeIs DEF PictureAndSound, Sounds, Chosen
    <2>2. ASSUME Chosen("ytdlp") PROVE PictureAndSound
      <3>1. /\ chosen = resolve_urls(input) /\ chosen # None
            /\ input.requested \in Seq(Requested) /\ None \notin Requested
        BY <1>1, <2>2, MediaAssumption DEF MediaInv, Chosen
      <3> QED  BY <2>2, <3>1, YtdlpIs DEF PictureAndSound, Chosen
    <2> QED  BY <2>1, <2>2 DEF PictureAndSound
  <1> QED  BY <1>1, MediaHolds, PTL

\* Of any file, however many streams it has and in whatever order they come: the
\* picture and the sound are played together (connect_pad_added).
THEOREM StreamsAlwaysPlayed == Spec => []StreamsArePlayed
  <1>1. MediaInv => StreamsArePlayed
    BY DEF MediaInv, PadsInv, StreamsArePlayed
  <1> QED  BY <1>1, MediaHolds, PTL
=============================================================================
