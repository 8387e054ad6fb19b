------------------------- MODULE ComponentAttribution -------------------------
(***************************************************************************)
(* Which Component a file belongs to                                       *)
(* (packages/core/src/scan/attribute.ts): the one whose root is the        *)
(* deepest directory above it.                                             *)
(***************************************************************************)
EXTENDS Naturals, FiniteSets, DocumentPath

\* Empty and "." segments name no directory, and ".." no root.
Segmented(name) == SelectSeq(Segments(ToNfc(name)), LAMBDA s : s \notin {<<>>, <<".">>})
IsRoot(root, path) ==
    /\ IsPrefix(Segmented(root), Segmented(path))
    /\ <<".", ".">> \notin Range(Segmented(root)) \cup Range(Segmented(path))
    /\ Segmented(root) = <<>> => <<".">> \in Range(Segments(ToNfc(root)))

\* The deepest root above the path, and of its Components the first.
Attribute(components, path) ==
    LET claims == {c \in UNION {{<<r, c.id>> : r \in Range(c.roots)} : c \in Range(components)} :
                     IsRoot(c[1], path)}
        deepest == {c \in claims : \A d \in claims : Len(Segmented(d[1])) <= Len(Segmented(c[1]))}
    IN  IF claims = {} THEN NoName
        ELSE (CHOOSE c \in deepest : \A d \in deepest : ~Before(d[2], c[2]))[2]

=============================================================================
