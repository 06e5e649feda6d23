\* Groups of volumes, replication, and volumes with a content source
CONSTANTS Parts = {"rbd", "cephfs", "mirroring", "clones"}
          n1 = n1
          n2 = n2
          v1 = v1
          v2 = v2
          v3 = v3
          Names = {n1, n2}
          Volumes = {v1, v2, v3}
          Requests = {p1, p2}
          MaxUUIDs = 6
          MaxSnaps = 5
          MaxTakes = 3
          NoObject = NoObject
          Scenarios <- AllScenarios
          CephfsNames = {n1}
          MaxWindows = 3
          CephfsScenarios <- AllCephfs
          Sites = {a, b}
          Nodes = {c1, w1}
          Controller = c1
          MaxWrites = 2
          MaxImages = 4
          NoImage = NoImage
          MirrorScenarios <- AllMirror
          k1 = k1
          k2 = k2
          k3 = k3
          k4 = k4
          CloneNames = {k1, k2, k3, k4}
          Root = Root
          MaxIDs = 5
          CloneScenarios <- AllClones
SPECIFICATION UnionSpec
SYMMETRY Symmetry
INVARIANTS UnionTypeOK GroupConsistent NothingForgotten ReplicationHonest CloneUsable
CHECK_DEADLOCK FALSE
