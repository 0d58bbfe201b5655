--------------------------- MODULE MCSdkPackages ---------------------------
(***************************************************************************)
(* A small instance of SdkPackages for TLC.                                *)
(***************************************************************************)
EXTENDS SdkPackages, TLC

CONSTANTS n1, n2

ManifestOf(n, routes, links) == [name |-> n, routes |-> routes, links |-> links]

Entry(path, kind, allowed, body) ==
  [absolute |-> FALSE, path |-> path, kind |-> kind, allowed |-> allowed, body |-> body]

AtTop(m) == Entry(<<"manifest.json">>, "file", TRUE, m)
Source   == Entry(<<"dir", "file">>, "file", TRUE, None)
Escape   == Entry(<<"dir", "..", "..", "file">>, "file", TRUE, None)
Script   == Entry(<<"file">>, "file", FALSE, None)
Link     == Entry(<<"dir">>, "link", TRUE, None)
Nested   == Entry(<<"dir", "manifest.json">>, "file", TRUE, ManifestOf(n2, <<1>>, {}))

First    == ManifestOf(n1, <<1>>, {})
Second   == ManifestOf(n1, <<1, 2>>, {2})
Other    == ManifestOf(n2, <<1>>, {1})

Tar(entries) == [format |-> "tar", entries |-> entries]
Zip(entries) == [format |-> "zip", entries |-> entries]

\* Accepted: a manifest that is there twice, with another path for the same file;
\* another name, in a zip with a link, a file below the link and a nested manifest
\* that does not count.  Refused: the same in a tar, a path that climbs, an extension
\* that is not allowed, no manifest at the root, a directory in its place, a route
\* twice, a menu entry without a route.
SomeArchives ==
  { Tar(<<AtTop(First), Entry(<<".", "manifest.json">>, "file", TRUE, Second)>>),
    Zip(<<AtTop(Other), Link, Source, Nested>>),
    Tar(<<AtTop(Other), Link, Source, Nested>>),
    Tar(<<AtTop(Other), Escape>>),
    Zip(<<AtTop(First), Script>>),
    Tar(<<Nested>>),
    Zip(<<AtTop(First), Entry(<<"manifest.json">>, "dir", FALSE, None)>>),
    Tar(<<AtTop(ManifestOf(n1, <<1, 1>>, {}))>>),
    Zip(<<AtTop(ManifestOf(n1, <<1>>, {2}))>>) }
=============================================================================
