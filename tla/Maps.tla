--------------------------------- MODULE Maps ---------------------------------
(* Go's maps as functions with a finite domain.                            *)

(* map[key] = value                                                        *)
Put(map, key, value) ==
  [k \in DOMAIN map \union {key} |-> IF k = key THEN value ELSE map[k]]
=============================================================================
