------------------------------ MODULE MCRequest ------------------------------
(* Requests to check Service with: every way of asking, on one trivial text, *)
(* and for well-formed JSON every item asked for in its own words; and, on a *)
(* fresh service, catalog pictures that share their call with others.        *)
EXTENDS Service, TLC

CONSTANTS open, inner, listed, mail, none

MCUrls == {open, inner, listed, mail}
MCPrivate == {inner, listed}

None == [pack |-> none, color |-> none, size |-> none]
Text(q) == [q |-> q, name |-> <<>>, ean |-> none, mpn |-> none, sku |-> none, brand |-> <<>>, attrs |-> None]

Post(media, upload, url, query) ==
    [from |-> "admin", media |-> media, wellformed |-> TRUE, object |-> TRUE, upload |-> upload,
     url |-> url, valid |-> TRUE, pictures |-> 1, query |-> query, about |-> none]

Drill == Text(<<"drill">>)
Blank == Text(<<>>)

Well == {Post("json", none, url, q) : url \in MCUrls \cup {none}, q \in {Drill, Blank}}
    \cup {Post("multipart", upload, url, q) :
             upload \in Contents \cup {none}, url \in {open, none}, q \in {Drill, Blank}}
    \cup {Post("json", none, none, q) : q \in {[Blank EXCEPT !.mpn = "ab12"], [Blank EXCEPT !.sku = "77"]}}

Ill == {[r EXCEPT !.wellformed = FALSE] : r \in {Post("json", none, open, Drill), Post("multipart", "sound", none, Drill)}}
    \cup {[Post("json", none, none, Drill) EXCEPT !.object = FALSE]}
    \cup {[r EXCEPT !.valid = FALSE] : r \in {Post("json", none, open, Drill), Post("multipart", "sound", none, Drill)}}
    \cup {Post("other", none, none, Drill), Post("multipart", "big", none, Drill),
          Post("json", none, "broken", Drill), Post("multipart", none, "broken", Drill),
          [Post("json", none, none, Blank) EXCEPT !.query.brand = <<"bosch">>]}

Strange == {[r EXCEPT !.from = from] : from \in {"anonymous", "bad token", "customer"},
                r \in {Post("json", none, open, Drill), Post("other", none, none, Drill)}}

Catalog == {[Post("json", none, url, Blank) EXCEPT !.from = "worker"] : url \in MCUrls \cup {none}}

-----------------------------------------------------------------------------
MCAliases ==
    (<<"hewlett", "packard">> :> <<"hp">>) @@ (<<"bosch", "professional">> :> <<"bosch">>)
        @@ (<<"black", "and", "decker">> :> <<"black", "decker">>)
MCPalette == ("black" :> "black") @@ ("red" :> "red") @@ ("czerwony" :> "red")
MCPackPatterns == << <<"2x">> :> 2, <<"3pack">> :> 3, <<"set", "3">> :> 3 >>
MCSizePatterns == << <<"eu", "40">> :> "40", <<"xl">> :> "xl" >>
MCLegalForms == << <<"sp", "z", "o", "o">>, <<"gmbh">> >>
Trusted == "5901234123457"
MCGtins == (Trusted :> [gtin14 |-> "05901234123457", trusted |-> TRUE])
        @@ ("2000000000008" :> [gtin14 |-> "02000000000008", trusted |-> FALSE])

Brands == {<<>>, <<"acme">>, <<"hp">>, <<"hewlett", "packard">>, <<"black", "and", "decker">>,
           <<"black", "decker">>, <<"bosch">>, <<"bosch", "gmbh">>, <<"bosch", "sp", "z", "o", "o">>, <<"set">>}
Names ==
    {<<"drill">>, <<"bosch", "drill">>, <<"professional", "drill">>, <<"bosch", "professional", "drill">>,
     <<"black", "decker", "drill">>, <<"drill", "black", "decker", "czerwony">>, <<"black", "drill">>,
     <<"the", "drill", "m">>, <<"m", "xl">>, <<"3pack", "drill", "2x">>,
     <<"hewlett", "packard">>, <<"drill", Trusted>>, <<"drill", "set", "3">>, <<"3", "drill", "eu", "40">>}
Items == [brand : Brands, name : Names, gtin : {none, Trusted, "2000000000008"}]

\* In free text, the GTIN last or first, and by fields, the colour in any language.
OwnWords(item) ==
    {Text(item.brand \o item.name \o GtinOf(item)), Text(GtinOf(item) \o item.brand \o item.name)}
        \cup {[q |-> <<>>, name |-> item.name, ean |-> item.gtin, mpn |-> none, sku |-> none, brand |-> item.brand,
               attrs |-> [None EXCEPT !.color = colour]] :
                  colour \in {none} \cup {c \in DOMAIN MCPalette : MCPalette[c] = Fingerprint(item).color}}

Asked == UNION {{[Post("json", none, none, q) EXCEPT !.about = item] : q \in OwnWords(item)} : item \in Items}

Other == UNION {Well, Ill, Strange, Catalog}

\* A picture that shares its call with those of other rows: two batches, or three.
Shared == {[Post("json", none, none, Blank) EXCEPT !.from = "worker", !.pictures = n] : n \in {3, 5}}

\* A text, a picture by form and by JSON, uploads: to spend budgets on.
Plain ==
    {Post("json", none, none, Drill), Post("multipart", none, open, Drill), Post("json", none, open, Drill)}
        \cup {Post("multipart", upload, none, Drill) : upload \in Contents}

\* Items' words and other rows' pictures come first, budgets do not read them; the last is a plain one.
MCRequests ==
    [n \in 1 .. MaxRequests |->
        CASE n = 1 -> UNION {Other, Asked, Shared}
          [] n > 1 /\ n < MaxRequests -> Other
          [] OTHER -> Plain]

\* For the claims, which fail soon.
MCPlainRequests == [n \in 1 .. MaxRequests |-> Plain \cup Shared]

-----------------------------------------------------------------------------
Rates(t, i) == [b \in Buckets |-> IF b = "text" THEN t ELSE i]

AsItShould == [rate |-> Rates("set", "set"), imageEnabled |-> TRUE, blockPrivate |-> TRUE]

\* Three installations: rates and pictures as they should be, rates missing or no rates and no
\* address check, rates gone wrong with the image layer off.
MCSettings ==
    {AsItShould,
     [rate |-> Rates("missing", "slashless"), imageEnabled |-> TRUE, blockPrivate |-> FALSE],
     [rate |-> Rates("empty", "garbled"), imageEnabled |-> FALSE, blockPrivate |-> TRUE]}

MCSoundSettings == {AsItShould}

MCBudget == Rates(2, 1)
MCFallback == Rates(1, 2)

=============================================================================
