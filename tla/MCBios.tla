------------------------------- MODULE MCBios -------------------------------
EXTENDS Bios

MCBufs == 1 .. 4
Rom(stem, data) == [stem |-> stem, data |-> data]
MCRoms == {Rom("vgabios", "a"), Rom("vgabios", "b"), Rom("optionrom", "a")}

Empty == [len |-> 0, vol |-> <<>>, file |-> <<>>, sec |-> <<>>, sig |-> <<>>,
          torn |-> {}, vendor |-> None]
None_ == <<Empty, Empty, Empty, Empty>>

\* An image with one more header.
WithVolume(im, b, p, v) == [im EXCEPT ![b].vol = (p :> v) @@ @]
WithFile(im, b, p, f) == [im EXCEPT ![b].file = (p :> f) @@ @]
WithSection(im, b, p, s) == [im EXCEPT ![b].sec = (p :> s) @@ @]
WithLength(im, b, n) == [im EXCEPT ![b].len = n]

Fv(n) == [len |-> n, hdr |-> 56, ext |-> 0, extSize |-> 0]
Ffs(n) == [pad |-> FALSE, large |-> FALSE, size |-> n]
Sect(type, n) ==
  [type |-> type, size |-> n, ext |-> FALSE, at |-> 24, out |-> None]

\* A run of two sections, one of the kind given with what In puts in it, and
\* behind it a module.
Kinds ==
  <<"stored", "guid", "itself", "lzma", "broken", "volume", "overlong">>
Leaf(im, b, p, end) == WithSection(im, b, p, Sect("other", 8))
Nest(im, kind, b, p, end, In(_, _, _, _)) ==
  LET rest == WithSection(im, b, end - 16, Sect("module", 12))
      n == end - 16 - p
      Put(s) == WithSection(rest, b, p, s)
      PutVolume(len) ==
        WithFile(WithVolume(Put(Sect("volume", n)), b, p + 4, Fv(len)),
                 b, p + 60, Ffs(n - 60))
  IN  CASE kind = "stored" -> In(Put(Sect("stored", n)), b, p + 9, end - 16)
        [] kind = "guid" -> In(Put(Sect("guid", n)), b, p + 24, end - 16)
        [] kind = "itself" -> Put([Sect("guid", n) EXCEPT !.at = 0])
        [] kind = "lzma" ->
             In(WithLength(Put([Sect("lzma", n) EXCEPT !.out = b + 1]),
                           b + 1, 800), b + 1, 0, 800)
        [] kind = "broken" -> Put(Sect("lzma", n))
        [] kind = "volume" -> In(PutVolume(n - 4), b, p + 84, end - 16)
        [] kind = "overlong" -> In(PutVolume(n + 20), b, p + 84, end - 16)
        [] OTHER -> Leaf(im, b, p, end)

\* One kind in another in a third: the digits of c, 0 being none.
Kind(d) == IF d = 0 THEN "none" ELSE Kinds[d]
Run(im, c, b, p, end) ==
  Nest(im, Kind(c % 8), b, p, end, LAMBDA im2, b2, p2, e2 :
    Nest(im2, Kind((c \div 8) % 8), b2, p2, e2, LAMBDA im3, b3, p3, e3 :
      Nest(im3, Kind(c \div 64), b3, p3, e3, Leaf)))

\* A volume of 480 bytes whose only file holds such a run.
One(c) ==
  WithFile(WithVolume(Run(WithLength(None_, 1, 800), c, 1, 80, 480),
                      1, 0, Fv(480)),
           1, 56, Ffs(424))

\* What lies behind it: a volume with a file, and variants of it.
Second(im) == WithFile(WithVolume(im, 1, 496, Fv(200)), 1, 552, Ffs(64))
Named(im, s) == WithSection(Second(im), 1, 576, s)
Tails(im) ==
  << im, Named(im, Sect("name", 20)),
    \* two files, the first padding, and one that does not fit
    WithFile([Second(im) EXCEPT ![1].file[552].pad = TRUE], 1, 616, Ffs(40)),
    WithFile(Second(im), 1, 616, Ffs(90)),
    \* a volume that is longer than the image, and one without a header
    [Second(im) EXCEPT ![1].vol[496].len = 400],
    [Second(im) EXCEPT ![1].vol[496].hdr = 0] >>

Plain == One(0)
Variants ==
  << \* extended headers of volume, file and section; the last two read too far
    [Second(Plain) EXCEPT ![1].vol[496].ext = 56, ![1].vol[496].extSize = 30],
    [Second(Plain) EXCEPT ![1].vol[496].ext = 400],
    WithSection([Second(Plain) EXCEPT ![1].file[552].large = TRUE],
                1, 584, [Sect("name", 20) EXCEPT !.ext = TRUE]),
    WithLength([WithFile(Second(Plain), 1, 672,
                         [Ffs(30) EXCEPT !.large = TRUE])
                  EXCEPT ![1].file[552].size = 120], 1, 696),
    Named(Plain, [Sect("name", 6) EXCEPT !.ext = TRUE]),
    \* sections that are too short for their headers, or too long
    Named(Plain, Sect("stored", 8)), Named(Plain, Sect("guid", 23)),
    Named(Plain, Sect("volume", 40)), Named(Plain, Sect("volume", 44)),
    Named(Plain, Sect("guid", 24)), Named(Plain, Sect("name", 41)),
    Named(Plain, Sect("tiano", 30)), Named(Plain, Sect("packed", 9)),
    \* a volume in the second one
    WithFile(WithVolume(
      [Named(Plain, Sect("volume", 120)) EXCEPT ![1].file[552].size = 144],
      1, 580, Fv(100)), 1, 636, Ffs(30)) >>

\* Signatures in the image and in what is decompressed first.
A == Rom("vgabios", "a")
B == Rom("vgabios", "b")
C == Rom("optionrom", "a")
Signatures ==
  <<<<>>, 10 :> A, (10 :> A) @@ (522 :> B), (100 :> C) @@ (612 :> A),
     (100 :> None) @@ (400 :> A), 780 :> B, 700 :> C >>
Signed(n) ==
  [One(4) EXCEPT
     ![1].sig = Signatures[n \div 7 + 1], ![2].sig = Signatures[(n % 7) + 1],
     ![1].vendor = "AMI", ![2].vendor = IF n % 2 = 0 THEN None ELSE "Insyde"]
Torn(b) == [One(4) EXCEPT ![b].sig = (700 :> C), ![b].torn = {700}]

\* Sizes that wrap: the file at 552 is large and takes the walk back to pos, or
\* a volume has its end before its start.
Back(im, pos) ==
  [im EXCEPT ![1].file[552].large = TRUE,
             ![1].file[552].size = WORD - 552 + pos]
Padding(im) == [im EXCEPT ![1].file[552].pad = TRUE]
Endless ==
  Back(Padding([Second(Plain) EXCEPT ![1].file[56].size = 496,
                                     ![1].file[56].pad = TRUE]), 56)
Wrapped ==
  { \* to where no file is, to the file of the first volume, in a nested volume
    Back(Second(Plain), 8), Back(Second(Plain), 56), Back(Second(One(6)), 8),
    Back(Second(One(4)), 60),
    \* padding that is read for good: again, or after another file
    Back(Padding(Second(Plain)), 551), Endless,
    \* the second volume, and one in a section
    [Second(Plain) EXCEPT ![1].vol[496].len = WORD - 100],
    [One(6) EXCEPT ![1].vol[84].len = WORD - 20] }

\* The kinds inside of another one that holds no sections are left out, and
\* three in each other have nothing but a volume behind them.
Holds(d) == d \notin {0, 3, 5}
Chains(n) == {c \in 0 .. n : /\ c >= 8 => Holds(c % 8)
                             /\ c >= 64 => Holds((c \div 8) % 8)}
MCImages ==
  UNION {ToSet(Tails(One(c))) : c \in Chains(63)}
    \cup {Second(One(c)) : c \in Chains(511)}
    \cup {Signed(n) : n \in 0 .. 48} \cup {Torn(1), Torn(2)}
    \cup ToSet(Variants) \cup Wrapped

\* For the run that shows it.
MCEndless == {Endless}
=============================================================================
