---------------------------- MODULE FsPaneProofs ----------------------------
(***************************************************************************)
(* Proofs, for every file system and every length of the list, of the      *)
(* properties of FsPane.                                                   *)
(***************************************************************************)
EXTENDS FsPane, FiniteSetTheorems, TLAPS

\* The smaller of two numbers is no more than either.
LEMMA MinOfTwo ==
  ASSUME NEW a \in Int, NEW b \in Int
  PROVE  Min({a, b}) \in Int /\ Min({a, b}) <= b
<1>1. CASE a <= b
  <2>1. a \in {a, b} /\ \A y \in {a, b} : a =< y
    BY <1>1
  <2>2. Min({a, b}) \in {a, b} /\ \A y \in {a, b} : Min({a, b}) =< y
    BY <2>1 DEF Min
  <2> QED
    BY <2>2
<1>2. CASE b <= a
  <2>1. b \in {a, b} /\ \A y \in {a, b} : b =< y
    BY <1>2
  <2>2. Min({a, b}) \in {a, b} /\ \A y \in {a, b} : Min({a, b}) =< y
    BY <2>1 DEF Min
  <2> QED
    BY <2>2
<1> QED
  BY <1>1, <1>2

\* However many entries a directory has, list_dir_attr returns fewer than
\* cur_dir_list has places.
LEMMA ListIsShort ==
  ASSUME NEW d, NEW list, list \in list_dir_attr(d)
  PROVE  Cardinality(list) < MaxItems
<1>1. CASE list = {}
  BY <1>1, FS_EmptySet, ListHasRoom
<1>2. CASE list \in kSubset(Min({Cardinality(Items(d)), Room}), Items(d))
  <2> DEFINE Shown == {m \in Names : Passes(m, tree'[d][m])}
             Row   == [n \in Shown |-> <<n, is_dir(tree'[d][n])>>]
  <2>1. IsFiniteSet(Shown)
    BY NamesAreFinite, FS_Subset
  <2>2. Row \in Surjection(Shown, Items(d))
    BY DEF Items, Surjection
  <2> HIDE DEF Shown, Row
  <2>3. Cardinality(Items(d)) \in Int
    BY <2>1, <2>2, FS_Surjection, FS_CardinalityType
  <2>4. Cardinality(list) = Min({Cardinality(Items(d)), Room})
    BY <1>2 DEF kSubset
  <2>5. Room \in Int /\ Room < MaxItems
    BY ListHasRoom DEF Room
  <2>6. Cardinality(list) \in Int /\ Cardinality(list) <= Room
    BY <2>3, <2>4, <2>5, MinOfTwo
  <2> QED
    BY <2>5, <2>6, ListHasRoom
<1> QED
  BY <1>1, <1>2 DEF list_dir_attr

\* Making the list shows the process's directory, or the root when that has
\* no path.
LEMMA ListIsMade == update_fs_list => ListIsOfTheProcess'
<1> SUFFICES ASSUME update_fs_list PROVE ListIsOfTheProcess'
  OBVIOUS
<1>1. listed' = cwd' \/ (listed' = Root /\ cur_directory' = "/")
  BY DEF update_fs_list, getcwd, Read, PathsOf, At
<1>2. Cardinality(rows') < MaxItems
  BY ListIsShort DEF update_fs_list
<1> QED
  BY <1>1, <1>2 DEF ListIsOfTheProcess

\* The list is of the process's directory, or of the root once that one is
\* gone, and leaves the last place of cur_dir_list to its end mark.
THEOREM ShowsTheProcessDirectory == Spec => []ListIsOfTheProcess
<1>1. Init => ListIsOfTheProcess
  BY FS_EmptySet, ListHasRoom DEF Init, ListIsOfTheProcess
<1>2. ListIsOfTheProcess /\ [Next]_vars => ListIsOfTheProcess'
  <2> SUFFICES ASSUME ListIsOfTheProcess, [Next]_vars PROVE ListIsOfTheProcess'
    OBVIOUS
  <2>1. CASE update_fs_list
    BY <2>1, ListIsMade
  <2>2. CASE UNCHANGED <<cwd, cur_directory, listed, rows>>
    BY <2>2 DEF ListIsOfTheProcess
  <2> QED
    BY <2>1, <2>2
    DEF Next, Type, change_cur_dir, RowDirectory, RowDots, fs_go_home_clicked_cb,
        menu_view_hidden_files_toggled_cb, confirm_add_iso_file, iso_extract_clicked_cb,
        Others, ChangeTo, vars
<1> QED
  BY <1>1, <1>2, PTL DEF Spec

\* The path the program keeps leads to the directory that was read for the
\* list until somebody puts another there.
LEMMA PathLeadsToTheList == Spec => []PathIsOfTheList
<1>1. Init => PathIsOfTheList
  BY DEF Init, PathIsOfTheList, At
<1>2. PathIsOfTheList /\ [Next]_vars => PathIsOfTheList'
  <2> SUFFICES ASSUME PathIsOfTheList, [Next]_vars PROVE PathIsOfTheList'
    OBVIOUS
  <2>1. CASE update_fs_list
    BY <2>1 DEF update_fs_list, Read, PathIsOfTheList
  <2>2. CASE UNCHANGED <<tree, cur_directory, listed, untouched>>
    BY <2>2 DEF PathIsOfTheList, At
  <2>3. CASE Others
    <3>1. /\ untouched' => untouched /\ At(tree', cur_directory) = At(tree, cur_directory)
          /\ cur_directory' = cur_directory /\ listed' = listed
      BY <2>3 DEF Others
    <3> QED
      BY <3>1 DEF PathIsOfTheList
  <2> QED
    BY <2>1, <2>2, <2>3
    DEF Next, Type, change_cur_dir, RowDirectory, RowDots, fs_go_home_clicked_cb,
        menu_view_hidden_files_toggled_cb, confirm_add_iso_file, iso_extract_clicked_cb,
        ChangeTo, vars
<1> QED
  BY <1>1, <1>2, PTL DEF Spec

\* Files are added from, and written to, the directory that was read for the
\* list, unless others changed what is at its path since.
THEOREM FilesAreOfTheList == Spec => FilesOfTheList
<1>1. PathIsOfTheList /\ [Next]_vars =>
        [used' # None /\ untouched => used' = listed]_vars
  <2> SUFFICES ASSUME PathIsOfTheList, Next, used' # None, untouched
               PROVE  used' = listed
    OBVIOUS
  <2>1. used' = FileDir
    BY DEF Next, Type, change_cur_dir, RowDirectory, RowDots, fs_go_home_clicked_cb,
       menu_view_hidden_files_toggled_cb, confirm_add_iso_file, iso_extract_clicked_cb,
       Others, ChangeTo
  <2> QED
    BY <2>1 DEF PathIsOfTheList, FileDir
<1> QED
  BY <1>1, PathLeadsToTheList, PTL DEF Spec, FilesOfTheList

=============================================================================
