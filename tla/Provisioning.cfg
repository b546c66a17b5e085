SPECIFICATION Spec
CONSTANTS
  Invocations = {p1}
  Required = {"qemu"}
  Packages = {"qemu-system-x86", "qemu-utils"}
  Needs <- QemuPackages
  Mapped <- QemuPackages
  Preferences = {"none"}
  UserThings = {"qemu-utils", "docker image", "podman image"}
VIEW View
CHECK_DEADLOCK FALSE
INVARIANTS
  TypeOK
  UsersPackagesKept
  UsersImagesKept
  PulledImageRecorded
PROPERTIES
  UsersShimKept
