------------------------------ MODULE MCArchive ------------------------------
(***************************************************************************)
(* An archive of each scheme: redirects in a chain, in a circle and to an  *)
(* item, paths that look like those of the other scheme, titles that are   *)
(* prefixes of each other, entries that are not listed; and small ones     *)
(* with titles or listings that are out of the ordinary.                   *)
(***************************************************************************)
EXTENDS Archive

CONSTANTS t1, t2
mcThreads == {t1, t2}

Item(ns, url, title, cluster) == [ns |-> ns, url |-> url, title |-> title, cluster |-> cluster, target |-> -1]
Redirect(ns, url, title, target) == [ns |-> ns, url |-> url, title |-> title, cluster |-> 0, target |-> target]

a == 97   b == 98

mcNew == [newScheme |-> TRUE, mainPage |-> 0, compressed |-> {1},
          v0 |-> <<1, 2, 0, 4, 3, 5, 6, 7, 8, 9>>, v1 |-> <<1, 0, 3>>,
          dirents |-> << Item(NsC, <<NsA, Slash, a>>, <<b>>, 1),
                         Item(NsC, <<a>>, <<a>>, 2),
                         Redirect(NsC, <<a, a>>, <<a, a>>, 3),
                         Redirect(NsC, <<a, b>>, <<b, a>>, 4),
                         Redirect(NsC, <<b>>, <<b>>, 0),
                         Item(NsM, <<a>>, <<a>>, 0),
                         Redirect(NsM, <<b>>, <<b>>, 6),
                         Item(NsW, favicon, favicon, 0),
                         Redirect(NsW, mainPage, mainPage, 2),
                         Item(NsX, listingV1, listingV1, 2) >>]

mcOld == [newScheme |-> FALSE, mainPage |-> NoMainPage, compressed |-> {0},
          v0 |-> <<0, 1, 2, 3, 4, 5>>, v1 |-> <<>>,
          dirents |-> << Item(Dash, faviconPng, faviconPng, 1),
                         Item(NsA, <<NsI>>, <<a>>, 0),
                         Redirect(NsA, <<a>>, <<a, b>>, 3),
                         Redirect(NsA, <<b>>, <<b>>, 2),
                         Item(NsI, <<a>>, <<a>>, 0),
                         Item(NsM, <<a>>, <<a>>, 1) >>]

\* Two entries with the same title, which the range of b begins behind and that of a
\* ends between, and a main page that is not there
mcTwins == [newScheme |-> FALSE, mainPage |-> 2, compressed |-> {0},
            v0 |-> <<0, 1>>, v1 |-> <<>>,
            dirents |-> << Item(NsA, <<a>>, <<b>>, 1), Item(NsA, <<b>>, <<b>>, 0) >>]

\* A listing of front articles that is not sorted, and one that is compressed
mcUnsorted == [newScheme |-> TRUE, mainPage |-> NoMainPage, compressed |-> {},
               v0 |-> <<0, 1, 2>>, v1 |-> <<1, 0>>,
               dirents |-> << Item(NsC, <<a>>, <<a>>, 0), Item(NsC, <<b>>, <<b>>, 0),
                              Item(NsX, listingV1, listingV1, 1) >>]
mcCompressed == [mcUnsorted EXCEPT !.compressed = {1}]

mcArchives == {mcNew, mcOld, mcTwins, mcUnsorted, mcCompressed}
mcPaths == {<<>>, <<Slash>>, <<a>>, <<b>>, <<a, b>>, <<NsA>>, <<NsI>>, <<NsA, Slash>>, <<NsA, Slash, a>>,
            <<NsA, Slash, b>>, <<NsA, Slash, NsI>>, <<NsI, Slash, a>>, <<NsM, Slash, a>>, <<a, a>>,
            <<Slash, NsA, Slash, a>>, <<Dash, Slash, 102, 112>>}
mcTitles == {<<a>>, <<b>>, <<a, b>>, <<b, a>>}
=============================================================================
