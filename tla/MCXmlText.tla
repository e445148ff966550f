------------------------------ MODULE MCXmlText ------------------------------
(* Texts of up to three units of each kind, among them the first and the last   *)
(* code of each length in UTF-8, and metadata of up to three bytes.  An         *)
(* unsigned has 24 bits.                                                        *)
EXTENDS XmlText

Unit(kind, chars, bytes) == [kind |-> kind, chars |-> chars, bytes |-> bytes]
\* the decimal reference of digits d
Ref(d, bytes) == Unit("reference", <<Amp, Hash>> \o [i \in DOMAIN d |-> 48 + d[i]] \o <<Semicolon>>, bytes)

MCUnits == {
    Unit("plain", <<97>>, <<97>>),
    Unit("plain", <<Semicolon>>, <<Semicolon>>),
    Unit("newline", <<CR, LF>>, <<LF>>),
    Unit("newline", <<LF, CR>>, <<LF>>),
    Unit("newline", <<CR>>, <<LF>>),
    Unit("reference", <<Amp, 108, 116, Semicolon>>, <<Lt>>),
    Unit("reference", <<Amp, 97, 109, 112, Semicolon>>, <<Amp>>),
    Unit("unknown", <<Amp, 97>>, <<Amp, 97>>),
    Unit("unknown", <<Amp, Hash>>, <<Amp, Hash>>),
    Unit("unknown", <<Amp, Hash, 97, Semicolon>>, <<Amp, Hash, 97, Semicolon>>),
    Unit("reference", <<Amp, Hash, X, 65, 57, Semicolon>>, <<194, 169>>),
    Ref(<<0>>, <<NUL>>), Ref(<<6, 5>>, <<65>>),
    Ref(<<1, 2, 7>>, <<127>>), Ref(<<1, 2, 8>>, <<194, 128>>),
    Ref(<<2, 0, 4, 7>>, <<223, 191>>), Ref(<<2, 0, 4, 8>>, <<224, 160, 128>>),
    Ref(<<6, 5, 5, 3, 5>>, <<239, 191, 191>>), Ref(<<6, 5, 5, 3, 6>>, <<240, 144, 128, 128>>),
    Ref(<<2, 0, 9, 7, 1, 5, 2>>, << >>),
    Ref(<<1, 6, 7, 7, 7, 2, 8, 1>>, << >>) }    \* overflows

\* and two titles that are entities themselves
MCTitles == UNION {[1 .. n -> {97, Lt, Gt, Quot, Amp, Apos, Semicolon}] : n \in 0 .. 3}
            \cup {<<Amp, 108, 116, Semicolon>>, <<Amp, 97, 109, 112, Semicolon, Amp>>}
==============================================================================
