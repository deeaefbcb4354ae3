------------------------------ MODULE GeoJson ------------------------------
(***************************************************************************)
(* em_geojson.c: a feature printed into a buffer of limited size, piece    *)
(* after piece.  Each function answers the number of characters it wrote,  *)
(* or -1 as soon as a piece does not fit with its terminating NUL.  A      *)
(* nested call works on the rest of the buffer, and so here on what has    *)
(* been written so far.                                                    *)
(*                                                                         *)
(* A piece of text is a name and a length: of a number it is the length    *)
(* that "%d" or "%lf" makes of it.                                         *)
(***************************************************************************)
EXTENDS Integers, Sequences

CONSTANTS KeyLengths, ValueLengths, PointLengths,  \* lengths with all punctuation
          MaxElems,     \* bound: elements of an object
          BufferSizes   \* the sizes of the buffer

Known == {"int", "float", "string"}
Elements == [key : KeyLengths, type : Known \cup {"object"}, val : ValueLengths]
Objects == UNION {[1 .. n -> Elements] : n \in 0 .. MaxElems}
Features == [geometry : {"point", "multipoint"}, point : PointLengths,
             has_properties : BOOLEAN, properties : Objects]

VARIABLES gf, len,  \* the arguments of em_geojson_snprint_feature
          dst       \* what it has written, and whether it all fitted

vars == <<gf, len, dst>>

Piece(name, length) == [name |-> name, length |-> length]
Nothing == [text |-> <<>>, offset |-> 0, fits |-> TRUE]

----------------------------------------------------------------------------
\* Mutant: no room is kept for the terminating NUL.
Snprintf_NoNul(out, piece) ==
  IF out.fits /\ 0 < piece.length /\ piece.length <= len - out.offset
  THEN [out EXCEPT !.text = Append(@, piece), !.offset = @ + piece.length]
  ELSE [out EXCEPT !.fits = FALSE]

\* Every call of snprintf, and what becomes of its answer.
Snprintf(out, piece) ==
  IF out.fits /\ 0 < piece.length /\ piece.length < len - out.offset
  THEN [out EXCEPT !.text = Append(@, piece), !.offset = @ + piece.length]
  ELSE [out EXCEPT !.fits = FALSE]

\* em_json_snprint_elem.  For a type it does not know, nothing is written, and the
\* length of the key is counted once more.
Elem(out, e) ==
  LET keyed == Snprintf(out, Piece("key", e.key))
  IN IF e.type \in Known THEN Snprintf(keyed, Piece(e.type, e.val))
     ELSE Snprintf(keyed, Piece("whatever was there", e.key))

\* em_json_snprint_obj: the comma behind the last element, or for want of elements the
\* bracket, gives way to the closing bracket.
Obj(out, obj) ==
  LET upto[n \in 0 .. Len(obj)] ==
        IF n = 0 THEN Snprintf(out, Piece("{", 2))
        ELSE Snprintf(Elem(upto[n - 1], obj[n]), Piece(",", 2))
      all == upto[Len(obj)]
  IN IF all.fits THEN [all EXCEPT !.text[Len(all.text)] = Piece("}", 2)] ELSE all

\* em_geojson_snprint_geometry and em_geojson_snprint_point
Geometry(out, gf_geometry, length) ==
  LET named == Snprintf(out, Piece("geometry", 12))
  IN IF gf_geometry = "point" THEN Snprintf(named, Piece("point", length))
     ELSE [named EXCEPT !.fits = FALSE]

\* em_geojson_snprint_feature
Feature ==
  LET geometry == Geometry(Snprintf(Nothing, Piece("feature", 21)), gf.geometry, gf.point)
      properties == Obj(Snprintf(geometry, Piece("properties", 16)), gf.properties)
  IN Snprintf(IF gf.has_properties THEN properties ELSE geometry, Piece("}", 2))

Returned == IF dst.fits THEN dst.offset ELSE -1

Init == /\ gf \in Features /\ len \in BufferSizes
        /\ ~gf.has_properties => gf.properties = <<>>
        /\ dst = Nothing

PrintFeature == dst = Nothing /\ dst' = Feature /\ UNCHANGED <<gf, len>>

Spec == Init /\ [][PrintFeature]_vars

----------------------------------------------------------------------------
(* Properties. *)

\* The text that is meant: elements with commas between them.
Separated(obj) ==
  LET upto[n \in 1 .. Len(obj)] ==
        (IF n = 1 THEN <<Piece("{", 2)>> ELSE Append(upto[n - 1], Piece(",", 2)))
          \o <<Piece("key", obj[n].key), Piece(obj[n].type, obj[n].val)>>
  IN Append(upto[Len(obj)], Piece("}", 2))

Meant == <<Piece("feature", 21), Piece("geometry", 12), Piece("point", gf.point)>>
           \o (IF gf.has_properties THEN <<Piece("properties", 16)>> \o Separated(gf.properties)
               ELSE <<>>)
           \o <<Piece("}", 2)>>

LengthOf(text) ==
  LET upto[n \in 0 .. Len(text)] == IF n = 0 THEN 0 ELSE upto[n - 1] + text[n].length
  IN upto[Len(text)]

\* For a point and properties of known types, at least one, the whole text is written and
\* its length answered if it fits with its NUL, and -1 if it does not (31-192).
TextComplete ==
  /\ dst # Nothing
  /\ gf.geometry = "point"
  /\ gf.has_properties => /\ gf.properties # <<>>
                          /\ \A i \in DOMAIN gf.properties : gf.properties[i].type \in Known
  => IF LengthOf(Meant) < len THEN dst.text = Meant /\ Returned = LengthOf(Meant)
     ELSE Returned = -1
=============================================================================
