---------------------------- MODULE MCConfigList ----------------------------
EXTENDS ConfigList, TLC

\* Lines carry the gate's own name "g" or some other text.
MCTexts == {"g", "eth2"}

\* Directory entries next to the configuration file: every case the
\* scan's filter tells apart ("g.pub" is the shortest name it accepts).
DotDir    == [name |-> ".",        dot |-> TRUE,  len |-> 1, pub |-> FALSE, base |-> ""]
GPub      == [name |-> "g.pub",    dot |-> FALSE, len |-> 5, pub |-> TRUE,  base |-> "g"]
Gw2Pub    == [name |-> "gw2.pub",  dot |-> FALSE, len |-> 7, pub |-> TRUE,  base |-> "gw2"]
HiddenPub == [name |-> ".gw3.pub", dot |-> TRUE,  len |-> 8, pub |-> TRUE,  base |-> ".gw3"]
GPriv     == [name |-> "g.priv",   dot |-> FALSE, len |-> 6, pub |-> FALSE, base |-> "g."]

MCDirEntries == {DotDir, GPub, Gw2Pub, HiddenPub, GPriv}

\* Three peers' key files: a calloc that fails between two that succeed.
Gw4Pub    == [name |-> "gw4.pub",  dot |-> FALSE, len |-> 7, pub |-> TRUE,  base |-> "gw4"]
MCThreePeers == {GPub, Gw2Pub, Gw4Pub}

\* Line endings: LF only (with CRLF the gate name keeps its '\r').
MCLF == {FALSE}

MCSymmetry == Permutations(Cells)
====
