--------------------------------- MODULE Keys ---------------------------------
(***************************************************************************)
(* The keys a query and a catalog item are compared on: normalize/, the    *)
(* parser of queries (services/query_parser.py) and the builder of         *)
(* fingerprints (services/fingerprint_service.py).  A text is the sequence *)
(* of its folded words, a phrase some of them in a row; which words are    *)
(* colours, which phrases name a size and so on is a constant.  Units,     *)
(* MPNs and measures are left out: both sides pass them through one        *)
(* function each.                                                          *)
(***************************************************************************)
EXTENDS Naturals, Sequences, SequencesExt

CONSTANTS
    Stopwords,                   \* words names drop
    LegalForms,                  \* phrases brands drop, the longest first
    Aliases,                     \* brand_aliases: phrases to phrases
    Palette,                     \* colors(): words to colours
    PackPatterns, SizePatterns,  \* in order: functions of the phrases they match to what they capture
    BareSizes,
    Gtins,                       \* digit runs with a valid check digit: records [gtin14, trusted]
    Nothing

ASSUME KeysAssumption ==
    /\ <<>> \notin DOMAIN Aliases /\ <<>> \notin ToSet(LegalForms)
    /\ \A pattern \in ToSet(PackPatterns \o SizePatterns) : <<>> \notin DOMAIN pattern
    /\ Nothing \notin DOMAIN Gtins \cup DOMAIN Palette
    /\ \A g \in DOMAIN Gtins : Gtins[g].gtin14 # Nothing /\ Gtins[g].trusted \in BOOLEAN

MaxBrandTokens == 3
KnownBrands == DOMAIN Aliases \cup {Aliases[phrase] : phrase \in DOMAIN Aliases}
NoGtin == [gtin14 |-> Nothing, trusted |-> FALSE]

\* Position of the first word of text that is in S, 0 if none is.
FirstOf(text, S) == SelectInSeq(text, LAMBDA word : word \in S)

-----------------------------------------------------------------------------
\* Where one of the phrases stands in the text: first and last place.
Spans(text, phrases) ==
    {span \in (DOMAIN text) \X (DOMAIN text) :
        span[1] <= span[2] /\ SubSeq(text, span[1], span[2]) \in phrases}

\* The text without the phrase, each time it is met from the left.
Dropped(text, phrase) ==
    LET n == Len(phrase)
        from[i \in 1 .. Len(text) + 1] ==
            CASE i > Len(text) -> <<>>
              [] i <= Len(text) /\ <<i, i + n - 1>> \in Spans(text, {phrase}) -> from[i + n]
              [] OTHER -> <<text[i]>> \o from[i + 1]
    IN from[1]

\* normalize_brand: _strip_legal_forms takes out one form after the other.
Brand(raw) ==
    LET bare == FoldLeft(Dropped, raw, LegalForms) IN
    IF bare \in DOMAIN Aliases THEN Aliases[bare] ELSE bare

\* normalize_gtin
Gtin(raw) == IF raw \in DOMAIN Gtins THEN Gtins[raw] ELSE NoGtin

\* re.search: the leftmost, and of those the longest.
Leftmost(spans) ==
    CHOOSE a \in spans : \A b \in spans : a[1] < b[1] \/ (a[1] = b[1] /\ b[2] <= a[2])

(* _extract: what the first pattern that matches anywhere captures, and    *)
(* the text without the match, the words around it now next to each other. *)
Extract(text, patterns) ==
    LET p == SelectInSeq(patterns, LAMBDA pattern : Spans(text, DOMAIN pattern) # {})
        span == Leftmost(Spans(text, DOMAIN patterns[p]))
    IN IF p = 0 THEN [text |-> text, found |-> Nothing]
       ELSE [text |-> SubSeq(text, 1, span[1] - 1) \o SubSeq(text, span[2] + 1, Len(text)),
             found |-> patterns[p][SubSeq(text, span[1], span[2])]]

\* _extract_color: of tokens, one word.
ExtractColor(words) ==
    LET i == FirstOf(words, DOMAIN Palette) IN
    IF i = 0 THEN [text |-> words, found |-> Nothing]
    ELSE [text |-> RemoveAt(words, i), found |-> Palette[words[i]]]

\* _strip_brand: a brand that is given goes wherever it stands, another only from the front.
StripBrand(words, brand) ==
    LET known == {n \in 1 .. MaxBrandTokens : n <= Len(words) /\ SubSeq(words, 1, n) \in KnownBrands}
        longest == CHOOSE n \in known : \A k \in known : k <= n
    IN CASE brand # <<>> -> [text |-> ReplaceFirstSubSeq(<<>>, brand, words), brand |-> brand]
         [] brand = <<>> /\ known # {} ->
               [text |-> SubSeq(words, longest + 1, Len(words)), brand |-> SubSeq(words, 1, longest)]
         [] OTHER -> [text |-> words, brand |-> <<>>]

\* normalize_name
Name(raw, brand) ==
    LET packed == Extract(raw, PackPatterns)
        sized == Extract(packed.text, SizePatterns)
        branded == StripBrand(SelectSeq(sized.text, LAMBDA word : word \notin Stopwords), brand)
        coloured == ExtractColor(branded.text)
        words == coloured.text
        bare == sized.found = Nothing /\ words # <<>> /\ words[Len(words)] \in BareSizes
    IN IF raw = <<>> THEN [words |-> <<>>, brand |-> <<>>, pack |-> Nothing, color |-> Nothing, size |-> Nothing]
       ELSE [words |-> IF bare THEN Front(words) ELSE words,
             brand |-> branded.brand, pack |-> packed.found, color |-> coloured.found,
             size |-> IF bare THEN words[Len(words)] ELSE sized.found]

\* Bug: a colour field is taken as it is written.
ColourAsWritten(raw) == raw

\* _color
Colour(raw) == IF raw \in DOMAIN Palette THEN Palette[raw] ELSE raw

Or(given, found) == IF given = Nothing THEN found ELSE given

(* query_parser.parse of [q, name, ean, brand, attrs]: a GTIN is taken out *)
(* of the free text, and explicit fields win over what the text yields.    *)
Parse(query) ==
    LET g == FirstOf(query.q, DOMAIN Gtins)
        text == IF g = 0 THEN query.q ELSE RemoveAt(query.q, g)
        gtin == IF query.ean # Nothing THEN Gtin(query.ean)
                ELSE IF g # 0 THEN Gtin(query.q[g]) ELSE NoGtin
        brand == Brand(query.brand)
        name == Name(IF query.name # <<>> THEN query.name ELSE text, brand)
    IN [gtin |-> gtin, brand |-> IF brand # <<>> THEN brand ELSE name.brand, words |-> name.words,
        pack |-> Or(query.attrs.pack, name.pack), color |-> Or(Colour(query.attrs.color), name.color),
        size |-> Or(query.attrs.size, name.size)]

\* build_fingerprint of an item [gtin, brand, name].
Fingerprint(item) ==
    LET brand == Brand(item.brand)  name == Name(item.name, brand) IN
    [gtin |-> Gtin(item.gtin), brand |-> IF brand # <<>> THEN brand ELSE name.brand, words |-> name.words,
     pack |-> name.pack, color |-> name.color, size |-> name.size]

=============================================================================
