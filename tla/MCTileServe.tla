---------------------------- MODULE MCTileServe ----------------------------
(* Small instances of TileServe: one request from its beginning; or two     *)
(* that are about to serve the tile, and a page of statistics.              *)
EXTENDS TileServe

CONSTANTS p1, p2, q

MCReq == {p1, p2}
MCPage == {q}
MCMix == {[late |-> {}, over |-> {p2, q}, bulk |-> BOOLEAN],
          [late |-> {p1}, over |-> {p2}, bulk |-> {FALSE}],
          [late |-> {p1, p2}, over |-> {q}, bulk |-> {FALSE}]}
=============================================================================
