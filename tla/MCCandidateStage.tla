--------------------------- MODULE MCCandidateStage ---------------------------
(* Two ways to write one brand, its acronym, which may be merged into it, and *)
(* a brand that shares a word with it and is spelled with an article.         *)
EXTENDS CandidateStage, TLC

MCToken == {"acm", "alpha", "of", "motors", "inc", "austin", "texas", "the", "c", "l"}
MCLetter == {"a", "c", "f", "i", "l", "m", "o", "t"}
Spell(s) == CASE s = "acm" -> <<"a", "m">>
              [] s = "alpha" -> <<"a", "l", "f", "a">>
              [] s = "of" -> <<"o", "f">>
              [] s = "motors" -> <<"m", "o", "t", "o">>
              [] s = "inc" -> <<"i", "c">>
              [] s = "austin" -> <<"a", "t", "i", "c">>
              [] s = "texas" -> <<"t", "a", "c", "a">>
              [] s = "the" -> <<"t", "f">>
              [] OTHER -> <<s>>
MCSpelling == [t \in MCToken |-> Spell(t)]
MCParts == [t \in MCToken |-> IF t = "the" THEN <<>> ELSE <<t>>]
MCWord == MCToken \cup {"&", "L.L.C."}
MCKeyed ==
  [w \in MCWord |-> CASE w = "&" -> <<>> [] w = "L.L.C." -> <<"l", "l", "c">> [] OTHER -> <<w>>]
MCSuffix == { <<"inc">>, <<"l", "l", "c">> }

MCRecord == {"plain", "placed", "acronym", "longer"}
MCBrandOf ==
  [r \in MCRecord |-> CASE r \in {"plain", "placed"} -> <<"alpha", "of", "motors">>
                        [] r = "acronym" -> <<"acm">>
                        [] r = "longer" -> <<"the", "alpha", "inc", "austin">>]
MCWords ==
  [r \in MCRecord |-> CASE r = "plain" -> <<"alpha", "of", "motors", "motors", "inc">>
                        [] r = "placed" -> <<"alpha", "of", "&", "motors", "inc", "austin", "texas">>
                        [] r = "acronym" -> <<"acm", "L.L.C.", "inc">>
                        [] r = "longer" -> <<"the", "alpha", "inc", "austin", "L.L.C.", "texas">>]
\* "Alpha of & Motors, Inc, Austin, Texas": the suffix is a segment of its own.
MCCommas ==
  [r \in MCRecord |-> CASE r = "placed" -> {4, 5, 6} [] r = "longer" -> {4, 5} [] OTHER -> {}]
MCPlaces == [r \in MCRecord |-> { <<"austin">>, <<"texas">> }]
\* The keys of the names, and one that none of them has.
MCKeyOrder == << <<"acm">>, <<"alpha", "of", "motors">>, <<"alpha", "of", "motors", "inc", "austin">>,
                 <<"the", "alpha", "inc", "austin">> >>
MCAlike == { { <<"alpha", "of", "motors">>, <<"the", "alpha", "inc", "austin">> } }

\* Nothing is merged, or the acronym into the name it stands for.
Unmerged == [k \in { MCKeyOrder[i] : i \in DOMAIN MCKeyOrder } |-> k]
MCClosures == {Unmerged, [Unmerged EXCEPT ![ <<"acm">> ] = <<"alpha", "of", "motors">>]}

\* What these names are: each is written from its brand.
ASSUME AllNameBrands == \A r \in Record : NamesBrand(r)
=============================================================================
